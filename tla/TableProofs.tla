----------------------------- MODULE TableProofs -----------------------------
(***************************************************************************)
(* Proofs about what the module looks up: streams, answers and routes.     *)
(*                                                                         *)
(* MuxTable, for any set of identifiers, any hash function and any size:   *)
(* the table is the directory that StreamDirectory describes, and probing  *)
(* stays bounded by the number of streams.                                 *)
(*                                                                         *)
(* AnswerCache, for any number of ways, any times to live and any clock    *)
(* that wraps late enough: a hit is good and the newest answer, and a good *)
(* positive answer is not pushed out while something else can be.          *)
(*                                                                         *)
(* Routing, for every list of routes and every history of requests: the    *)
(* search by the index of domain rules finds the first route that matches, *)
(* so does every cache in front of it, and an association is with the      *)
(* SOCKS5 server in use.                                                   *)
(*                                                                         *)
(* Geosite and DnsRules, for every list, every groups of servers and every *)
(* history of questions: the trie of keywords, walked once along a host,   *)
(* finds the keywords that are in it; with the other indexes and the       *)
(* caches of both files it says what reading the list from end to end      *)
(* says, and the group of a name is the first with a rule that matches.    *)
(***************************************************************************)
EXTENDS MuxTable, AnswerCache, Routing, DnsRules, QueueProofs, FiniteSetTheorems

----------------------------------------------------------------------------
(* The constants of MuxTable.                                              *)

LEMMA Sizes ==
  /\ Empty \notin Ids /\ Tombstone \notin Ids /\ Empty # Tombstone
  /\ MaxStreams \in Nat \ {0} /\ Size \in Nat \ {0} /\ Size = 2 * MaxStreams
BY TableConstants

----------------------------------------------------------------------------
(* The probe sequence of an identifier goes once around the table.         *)

Hash == home \in [Ids -> Slots]

LEMMA Around ==
  ASSUME Hash, NEW id \in Ids, NEW n \in Slots
  PROVE  At(id, n) = IF home[id] + n < Size THEN home[id] + n ELSE home[id] + n - Size
<1> DEFINE h == home[id]
<1>1. h \in Slots BY DEF Hash
<1> HIDE DEF h
<1>2. h \in Nat /\ n \in Nat /\ h < Size /\ n < Size BY <1>1, Sizes DEF Slots
<1>3. CASE h + n < Size
  <2>1. h + n = Size * 0 + (h + n) BY <1>2, Sizes
  <2>2. (h + n) % Size = h + n BY <1>2, <1>3, <2>1, Sizes, ModUnique
  <2> QED BY <1>3, <2>2 DEF At, h
<1>4. CASE ~(h + n < Size)
  <2>1. h + n = Size * 1 + (h + n - Size) BY <1>2, Sizes
  <2>2. (h + n) % Size = h + n - Size BY <1>2, <1>4, <2>1, Sizes, ModUnique
  <2> QED BY <1>4, <2>2 DEF At, h
<1> QED BY <1>3, <1>4

LEMMA AroundOnce ==
  ASSUME Hash, NEW id \in Ids
  PROVE  /\ \A n \in Slots : At(id, n) \in Slots
         /\ \A m, n \in Slots : At(id, m) = At(id, n) => m = n
         /\ \A i \in Slots : \E n \in Slots : At(id, n) = i
<1> DEFINE h == home[id]
<1>1. h \in Slots BY DEF Hash
<1>2. \A n \in Slots : At(id, n) = IF h + n < Size THEN h + n ELSE h + n - Size BY Around
<1> HIDE DEF h
<1>3. ASSUME NEW n \in Slots PROVE At(id, n) \in Slots BY <1>1, <1>2, Sizes DEF Slots
<1>4. ASSUME NEW m \in Slots, NEW n \in Slots, At(id, m) = At(id, n) PROVE m = n
  BY <1>1, <1>2, <1>4, Sizes DEF Slots
<1>5. ASSUME NEW i \in Slots PROVE \E n \in Slots : At(id, n) = i
  <2> DEFINE n == IF i >= h THEN i - h ELSE i - h + Size
  <2>1. n \in Slots /\ i = IF h + n < Size THEN h + n ELSE h + n - Size
    BY <1>1, Sizes DEF Slots
  <2> QED BY <1>2, <2>1
<1> QED BY <1>3, <1>4, <1>5

----------------------------------------------------------------------------
(* A table that holds a set of identifiers: each is in one slot, and       *)
(* nothing before that slot on its probe sequence is empty.                *)

Taken(t) == {i \in Slots : t[i] \in Ids}
Dead(t) == {i \in Slots : t[i] = Tombstone}

Table(t, S) ==
  /\ t \in [Slots -> Ids \cup {Empty, Tombstone}]
  /\ S \subseteq Ids /\ IsFiniteSet(S)
  /\ \A i \in Slots : t[i] \in Ids => t[i] \in S
  /\ \A i, j \in Slots : t[i] \in Ids /\ t[i] = t[j] => i = j
  /\ \A id \in S : Found(t, id)
  /\ Cardinality(Taken(t)) = Cardinality(S)

LEMMA SlotsFinite ==
  ASSUME NEW t
  PROVE  /\ IsFiniteSet(Slots) /\ Cardinality(Slots) = Size
         /\ IsFiniteSet(Taken(t)) /\ IsFiniteSet(Dead(t))
<1>1. IsFiniteSet(Slots) /\ Cardinality(Slots) = Size BY Sizes, FS_Interval DEF Slots
<1>2. Taken(t) \in SUBSET Slots /\ Dead(t) \in SUBSET Slots BY DEF Taken, Dead
<1> QED BY <1>1, <1>2, FS_Subset

LEMMA FoundIsHeld ==
  ASSUME Hash, NEW t, NEW S, Table(t, S), NEW id \in Ids
  PROVE  Found(t, id) <=> id \in S
<1>1. ASSUME Found(t, id) PROVE id \in S
  <2>1. PICK n \in Slots : t[At(id, n)] = id BY <1>1 DEF Found, FoundAt
  <2>2. At(id, n) \in Slots BY AroundOnce
  <2> QED BY <2>1, <2>2 DEF Table
<1> QED BY <1>1 DEF Table

LEMMA NoTableIsEmpty ==
  ASSUME Hash
  PROVE  Table(NoTable, {}) /\ Dead(NoTable) = {}
<1>1. /\ NoTable \in [Slots -> Ids \cup {Empty, Tombstone}]
      /\ \A i \in Slots : NoTable[i] = Empty
  BY DEF NoTable
<1>2. Taken(NoTable) = {} /\ Dead(NoTable) = {} BY <1>1, Sizes DEF Taken, Dead
<1> QED BY <1>1, <1>2, Sizes, FS_EmptySet DEF Table

\* Where there is a free slot the probe sequence reaches a first one.
LEMMA FirstFree ==
  ASSUME Hash, NEW t, NEW id \in Ids, NEW i \in Slots, t[i] \in {Empty, Tombstone}
  PROVE  \E n \in Slots : FreeAt(t, id, n)
<1> DEFINE F == {n \in Slots : t[At(id, n)] \in {Empty, Tombstone}}
<1>1. F # {} BY AroundOnce
<1>2. F \in SUBSET Nat BY Sizes DEF Slots
<1> HIDE DEF F
<1>3. PICK n \in F : \A m \in F : n <= m BY <1>1, <1>2, LeastNumber
<1>4. n \in Slots /\ t[At(id, n)] \in {Empty, Tombstone} BY <1>3 DEF F
<1>5. ASSUME NEW m \in 0 .. (n - 1) PROVE t[At(id, m)] \notin {Empty, Tombstone}
  <2>1. m \in Slots /\ ~(n <= m) BY <1>4, Sizes DEF Slots
  <2>2. m \notin F BY <1>3, <2>1
  <2> QED BY <2>1, <2>2 DEF F
<1> QED BY <1>4, <1>5 DEF FreeAt

\* A table of fewer identifiers than slots has a free slot.
LEMMA Room ==
  ASSUME Hash, NEW t, NEW S, Table(t, S), NEW id \in Ids, id \notin S,
         Cardinality(S) < Size
  PROVE  Insertable(t, id)
<1>1. Taken(t) # Slots
  <2>1. Cardinality(Slots) = Size BY SlotsFinite
  <2>2. Cardinality(Taken(t)) < Size BY DEF Table
  <2>3. Cardinality(Taken(t)) # Cardinality(Slots) BY <2>1, <2>2, Sizes
  <2> QED BY <2>3
<1>2. PICK i \in Slots : t[i] \notin Ids BY <1>1 DEF Taken
<1>3. t[i] \in {Empty, Tombstone} BY <1>2 DEF Table
<1>4. ~Found(t, id) BY FoundIsHeld
<1> QED BY <1>3, <1>4, FirstFree DEF Insertable

----------------------------------------------------------------------------
(* The three operations.                                                   *)

LEMMA InsertHolds ==
  ASSUME Hash, NEW t, NEW S, Table(t, S), NEW id \in Ids, Insertable(t, id)
  PROVE  /\ id \notin S /\ Table(Insert(t, id), S \cup {id})
         /\ FreeSlot(t, id) \in Slots
         /\ t[FreeSlot(t, id)] \in {Empty, Tombstone}
         /\ Dead(Insert(t, id)) = Dead(t) \ {FreeSlot(t, id)}
         /\ Cardinality(S \cup {id}) = Cardinality(S) + 1
<1> DEFINE n == CHOOSE k \in Slots : FreeAt(t, id, k)
           i == At(id, n)
           u == [t EXCEPT ![i] = id]
<1>0. ~Found(t, id) /\ id \notin S BY FoundIsHeld DEF Insertable
<1>1. n \in Slots /\ FreeAt(t, id, n) BY DEF Insertable
<1>2. Insert(t, id) = u /\ FreeSlot(t, id) = i BY DEF Insert, FreeSlot
<1> HIDE DEF n
<1>3. /\ i \in Slots /\ t[i] \in {Empty, Tombstone}
      /\ \A m \in 0 .. (n - 1) : t[At(id, m)] \notin {Empty, Tombstone}
  BY <1>1, AroundOnce DEF FreeAt
<1>4. /\ u \in [Slots -> Ids \cup {Empty, Tombstone}]
      /\ u[i] = id /\ \A j \in Slots \ {i} : u[j] = t[j]
  BY <1>3 DEF Table
<1>5. t[i] \notin Ids BY <1>3, Sizes
<1>6. Found(u, id)
  <2>1. u[At(id, n)] = id BY <1>4
  <2>2. ASSUME NEW m \in 0 .. (n - 1) PROVE u[At(id, m)] # Empty
    <3>1. m \in Slots /\ m # n BY <1>1, Sizes DEF Slots
    <3>2. At(id, m) \in Slots /\ At(id, m) # i BY <1>1, <3>1, AroundOnce
    <3> QED BY <1>3, <1>4, <3>2
  <2> QED BY <1>1, <2>1, <2>2 DEF Found, FoundAt
<1> HIDE DEF i, u
<1>7. ASSUME NEW x \in S PROVE Found(u, x)
  <2>0. x \in Ids BY <1>7 DEF Table
  <2>1. PICK k \in Slots : FoundAt(t, x, k) BY DEF Table, Found
  <2>2. At(x, k) \in Slots /\ t[At(x, k)] = x BY <2>0, <2>1, AroundOnce DEF FoundAt
  <2>3. u[At(x, k)] = x BY <1>4, <1>5, <2>0, <2>2
  <2>4. ASSUME NEW m \in 0 .. (k - 1) PROVE u[At(x, m)] # Empty
    <3>1. m \in Slots BY <2>1, Sizes DEF Slots
    <3>2. At(x, m) \in Slots /\ t[At(x, m)] # Empty
      BY <2>0, <2>1, <3>1, AroundOnce DEF FoundAt
    <3> QED BY <1>4, <3>2, Sizes
  <2> QED BY <2>1, <2>3, <2>4 DEF Found, FoundAt
<1>8. Taken(u) = Taken(t) \cup {i} BY <1>3, <1>4, <1>5 DEF Taken
<1>9. i \notin Taken(t) BY <1>5 DEF Taken
<1>10. /\ Cardinality(Taken(u)) = Cardinality(Taken(t)) + 1
       /\ IsFiniteSet(S \cup {id}) /\ Cardinality(S \cup {id}) = Cardinality(S) + 1
  <2>1. IsFiniteSet(S) /\ IsFiniteSet(Taken(t)) BY SlotsFinite DEF Table
  <2> QED BY <1>0, <1>8, <1>9, <2>1, FS_AddElement
<1>11. \A j \in Slots : u[j] \in Ids => u[j] \in S \cup {id} BY <1>4 DEF Table
<1>12. \A j, k \in Slots : u[j] \in Ids /\ u[j] = u[k] => j = k
  BY <1>0, <1>4 DEF Table
<1>13. Table(u, S \cup {id})
  BY <1>4, <1>6, <1>7, <1>10, <1>11, <1>12 DEF Table
<1>14. Dead(u) = Dead(t) \ {i} BY <1>3, <1>4, Sizes DEF Dead
<1> QED BY <1>0, <1>2, <1>3, <1>10, <1>13, <1>14

LEMMA EraseHolds ==
  ASSUME Hash, NEW t, NEW S, Table(t, S), NEW id \in S
  PROVE  /\ Table(Erase(t, id), S \ {id})
         /\ Cardinality(Dead(Erase(t, id))) = Cardinality(Dead(t)) + 1
         /\ Cardinality(S \ {id}) = Cardinality(S) - 1
<1> DEFINE n == CHOOSE k \in Slots : FoundAt(t, id, k)
           i == At(id, n)
           u == [t EXCEPT ![i] = Tombstone]
<1>0. id \in Ids /\ Found(t, id) BY DEF Table
<1>1. n \in Slots /\ FoundAt(t, id, n) BY <1>0 DEF Found
<1>2. Erase(t, id) = u BY <1>0 DEF Erase
<1> HIDE DEF n
<1>3. i \in Slots /\ t[i] = id BY <1>0, <1>1, AroundOnce DEF FoundAt
<1>4. /\ u \in [Slots -> Ids \cup {Empty, Tombstone}]
      /\ u[i] = Tombstone /\ \A j \in Slots \ {i} : u[j] = t[j]
  BY <1>3 DEF Table
<1> HIDE DEF i, u
<1>5. \A j \in Slots : u[j] \in Ids => j # i /\ u[j] = t[j] BY <1>4, Sizes
<1>6. \A j \in Slots : u[j] \in Ids => u[j] \in S \ {id}
  BY <1>0, <1>3, <1>5 DEF Table
<1>7. \A j, k \in Slots : u[j] \in Ids /\ u[j] = u[k] => j = k
  BY <1>5 DEF Table
<1>8. ASSUME NEW x \in S \ {id} PROVE Found(u, x)
  <2>0. x \in Ids /\ x # id BY <1>8 DEF Table
  <2>1. PICK k \in Slots : FoundAt(t, x, k) BY <1>8 DEF Table, Found
  <2>2. At(x, k) \in Slots /\ t[At(x, k)] = x BY <2>0, <2>1, AroundOnce DEF FoundAt
  <2>3. u[At(x, k)] = x BY <1>3, <1>4, <2>0, <2>2
  <2>4. ASSUME NEW m \in 0 .. (k - 1) PROVE u[At(x, m)] # Empty
    <3>1. m \in Slots BY <2>1, Sizes DEF Slots
    <3>2. At(x, m) \in Slots /\ t[At(x, m)] # Empty
      BY <2>0, <2>1, <3>1, AroundOnce DEF FoundAt
    <3> QED BY <1>4, <3>2, Sizes
  <2> QED BY <2>1, <2>3, <2>4 DEF Found, FoundAt
<1>9. Taken(u) = Taken(t) \ {i} /\ i \in Taken(t)
  BY <1>0, <1>3, <1>4, Sizes DEF Taken
<1>10. Dead(u) = Dead(t) \cup {i} /\ i \notin Dead(t)
  BY <1>0, <1>3, <1>4, Sizes DEF Dead
<1>11. /\ Cardinality(Taken(u)) = Cardinality(Taken(t)) - 1
       /\ Cardinality(Dead(u)) = Cardinality(Dead(t)) + 1
       /\ IsFiniteSet(S \ {id}) /\ Cardinality(S \ {id}) = Cardinality(S) - 1
  <2>1. IsFiniteSet(S) /\ IsFiniteSet(Taken(t)) /\ IsFiniteSet(Dead(t))
    BY SlotsFinite DEF Table
  <2>2. Cardinality(Taken(u)) = Cardinality(Taken(t)) - 1 BY <1>9, <2>1, FS_RemoveElement
  <2>3. Cardinality(Dead(u)) = Cardinality(Dead(t)) + 1 BY <1>10, <2>1, FS_AddElement
  <2>4. IsFiniteSet(S \ {id}) /\ Cardinality(S \ {id}) = Cardinality(S) - 1
    BY <2>1, FS_RemoveElement
  <2> QED BY <2>2, <2>3, <2>4
<1>12. Table(u, S \ {id})
  BY <1>4, <1>6, <1>7, <1>8, <1>11 DEF Table
<1> QED BY <1>2, <1>11, <1>12

----------------------------------------------------------------------------
(* Rebuilding the table inserts the streams of the queue one by one.       *)

Prefix(q, k) == {q[j] : j \in 1 .. k}

\* t lists the tables after 0, ..., k insertions.
Builds(q, k, t) ==
  t = [j \in 0 .. k |-> IF j = 0 THEN NoTable ELSE Insert(t[j - 1], q[j])]

LEMMA RebuildRuns ==
  ASSUME NEW q, NEW k \in Nat
  PROVE  \E t : Builds(q, k, t)
<1> DEFINE S == {n \in Nat : \E t : Builds(q, n, t)}
<1>1. 0 \in S
  <2> DEFINE t == [j \in 0 .. 0 |-> NoTable]
  <2>1. t = [j \in 0 .. 0 |-> IF j = 0 THEN NoTable ELSE Insert(t[j - 1], q[j])] OBVIOUS
  <2>2. Builds(q, 0, t) BY <2>1 DEF Builds
  <2> QED BY <2>2
<1>2. ASSUME NEW n \in Nat, n \in S PROVE n + 1 \in S
  <2>1. PICK t : Builds(q, n, t) BY <1>2
  <2> DEFINE u == [j \in 0 .. n + 1 |-> IF j <= n THEN t[j] ELSE Insert(t[n], q[n + 1])]
             v == [j \in 0 .. n + 1 |-> IF j = 0 THEN NoTable ELSE Insert(u[j - 1], q[j])]
  <2>2. ASSUME NEW j \in 0 .. n + 1 PROVE u[j] = v[j]
    <3>1. CASE j = 0
      <4>1. t[0] = NoTable BY <2>1 DEF Builds
      <4> QED BY <3>1, <4>1
    <3>2. CASE j \in 1 .. n
      <4>1. t[j] = Insert(t[j - 1], q[j]) BY <2>1, <3>2 DEF Builds
      <4>2. u[j] = t[j] /\ u[j - 1] = t[j - 1] BY <3>2
      <4>3. v[j] = Insert(u[j - 1], q[j]) BY <3>2
      <4> QED BY <4>1, <4>2, <4>3
    <3>3. CASE j = n + 1
      <4>1. u[n + 1] = Insert(t[n], q[n + 1]) /\ u[n] = t[n] OBVIOUS
      <4>2. v[n + 1] = Insert(u[n], q[n + 1]) OBVIOUS
      <4> QED BY <3>3, <4>1, <4>2
    <3> QED BY <3>1, <3>2, <3>3
  <2>3. u = v BY <2>2
  <2> HIDE DEF u
  <2>4. Builds(q, n + 1, u) BY <2>3 DEF Builds
  <2> QED BY <2>4
<1>3. Nat \subseteq S
  <2> HIDE DEF S
  <2> QED BY <1>1, <1>2, SetInduction
<1> QED BY <1>3

LEMMA RebuiltHolds ==
  ASSUME Hash, NEW q \in Seq(Ids), IsInjective(q), Len(q) <= Size
  PROVE  Table(Rebuilt(q), ToSet(q)) /\ Dead(Rebuilt(q)) = {}
<1>1. Len(q) \in Nat /\ DOMAIN q = 1 .. Len(q) BY LenProperties
<1>2. PICK t : Rebuilt(q) = t[Len(q)] /\ Builds(q, Len(q), t)
  <2> DEFINE t == CHOOSE f : f = [k \in 0 .. Len(q) |->
                               IF k = 0 THEN NoTable ELSE Insert(f[k - 1], q[k])]
  <2>1. \E f : f = [k \in 0 .. Len(q) |->
                   IF k = 0 THEN NoTable ELSE Insert(f[k - 1], q[k])]
    BY <1>1, RebuildRuns DEF Builds
  <2>2. Builds(q, Len(q), t) BY <2>1 DEF Builds
  <2>3. Rebuilt(q) = t[Len(q)] BY DEF Rebuilt
  <2> QED BY <2>2, <2>3
<1>3. t[0] = NoTable BY <1>1, <1>2 DEF Builds
<1>4. \A k \in 1 .. Len(q) : t[k] = Insert(t[k - 1], q[k]) BY <1>1, <1>2 DEF Builds
<1> DEFINE P == {k \in Nat : k <= Len(q) =>
                   /\ Table(t[k], Prefix(q, k)) /\ Dead(t[k]) = {}
                   /\ Cardinality(Prefix(q, k)) = k}
<1>5. 0 \in P
  <2>1. Prefix(q, 0) = {} BY DEF Prefix
  <2> QED BY <1>3, <2>1, NoTableIsEmpty, FS_EmptySet
<1>6. ASSUME NEW k \in Nat, k \in P PROVE k + 1 \in P
  <2> SUFFICES ASSUME k + 1 <= Len(q)
               PROVE  /\ Table(t[k + 1], Prefix(q, k + 1)) /\ Dead(t[k + 1]) = {}
                      /\ Cardinality(Prefix(q, k + 1)) = k + 1
    OBVIOUS
  <2> DEFINE x == q[k + 1]
             S == Prefix(q, k)
  <2>1. Table(t[k], S) /\ Dead(t[k]) = {} /\ Cardinality(S) = k BY <1>1, <1>6
  <2>2. k + 1 \in 1 .. Len(q) /\ x \in Ids BY <1>1, ElementOfSeq
  <2>3. t[k + 1] = Insert(t[k], x) BY <1>4, <2>2
  <2>4. x \notin S
    <3>1. \A j \in 1 .. k : q[j] # x BY <1>1, <2>2 DEF IsInjective
    <3> QED BY <3>1 DEF Prefix
  <2>5. Prefix(q, k + 1) = S \cup {x} BY DEF Prefix
  <2> HIDE DEF x, S
  <2>6. Cardinality(S) < Size BY <1>1, <2>1, Sizes
  <2>7. Insertable(t[k], x) BY <2>1, <2>2, <2>4, <2>6, Room
  <2>8. /\ Table(Insert(t[k], x), S \cup {x})
        /\ Dead(Insert(t[k], x)) = Dead(t[k]) \ {FreeSlot(t[k], x)}
        /\ Cardinality(S \cup {x}) = Cardinality(S) + 1
    BY <2>1, <2>2, <2>7, InsertHolds
  <2> QED BY <2>1, <2>3, <2>5, <2>8
<1>7. Nat \subseteq P
  <2> HIDE DEF P
  <2> QED BY <1>5, <1>6, SetInduction
<1>8. Table(t[Len(q)], Prefix(q, Len(q))) /\ Dead(t[Len(q)]) = {} BY <1>1, <1>7
<1>9. Prefix(q, Len(q)) = ToSet(q) BY <1>1 DEF Prefix, ToSet
<1> QED BY <1>2, <1>8, <1>9

----------------------------------------------------------------------------
(* The inductive invariant: the table holds the streams of the queue.      *)

TableInv ==
  /\ Hash /\ streams \in Seq(Ids) /\ IsInjective(streams)
  /\ Len(streams) <= MaxStreams /\ Cardinality(ToSet(streams)) = Len(streams)
  /\ Table(table, ToSet(streams))
  /\ tombstones = Cardinality(Dead(table)) /\ tombstones <= Len(streams)

\* What a table holds depends on the table and the hash function only.
LEMMA Kept ==
  ASSUME Hash, home' = home, Table(table', ToSet(streams'))
  PROVE  Table(table, ToSet(streams))'
<1>1. \A id, n : At(id, n)' = At(id, n) BY DEF At
<1> DEFINE S == ToSet(streams)
<1>2. \A id \in S' : Found(table, id)'
  BY <1>1 DEF Table, Found, FoundAt, Slots
<1>3. Taken(table)' = Taken(table') BY DEF Taken, Slots
<1> QED BY <1>2, <1>3 DEF Table, Slots

LEMMA TableInitInv == TableInit => TableInv
<1> SUFFICES ASSUME TableInit PROVE TableInv OBVIOUS
<1>1. Hash /\ table = NoTable /\ tombstones = 0 /\ streams = <<>> BY DEF TableInit, Hash
<1>2. ToSet(streams) = {} /\ IsInjective(streams) /\ Len(streams) = 0 /\ streams \in Seq(Ids)
  BY <1>1, EmptySeq DEF ToSet, IsInjective
<1>3. Table(table, {}) /\ Dead(table) = {} BY <1>1, NoTableIsEmpty
<1>4. Cardinality({}) = 0 BY FS_EmptySet, Zenon
<1>5. Len(streams) <= MaxStreams /\ tombstones <= Len(streams) BY <1>1, <1>2, Sizes
<1>6. Cardinality(ToSet(streams)) = Len(streams) /\ tombstones = Cardinality(Dead(table))
  BY <1>1, <1>2, <1>3, <1>4, Zenon
<1> QED BY <1>1, <1>2, <1>3, <1>5, <1>6, Zenon DEF TableInv

LEMMA CloseStep ==
  ASSUME TableInv, CloseStreams
  PROVE  TableInv'
<1>1. /\ Hash /\ home' = home
      /\ table' = NoTable /\ tombstones' = 0 /\ streams' = <<>>
  BY DEF TableInv, CloseStreams
<1>2. /\ ToSet(streams') = {} /\ IsInjective(streams') /\ Len(streams') = 0
      /\ streams' \in Seq(Ids)
  BY <1>1, EmptySeq DEF ToSet, IsInjective
<1>3. Table(table', {}) /\ Dead(table') = {} BY <1>1, NoTableIsEmpty
<1>4. Table(table, ToSet(streams))' BY <1>1, <1>2, <1>3, Kept
<1>5. Dead(table)' = {} BY <1>3 DEF Dead, Slots
<1>6. Cardinality({}) = 0 BY FS_EmptySet, Zenon
<1>7. Hash' BY <1>1 DEF Hash, Slots
<1>8. Len(streams') <= MaxStreams /\ tombstones' <= Len(streams') BY <1>1, <1>2, Sizes
<1>9. Cardinality(ToSet(streams')) = Len(streams') /\ tombstones' = Cardinality(Dead(table)')
  BY <1>1, <1>2, <1>5, <1>6, Zenon
<1> QED BY <1>2, <1>4, <1>7, <1>8, <1>9, Zenon DEF TableInv

LEMMA CreateStep ==
  ASSUME TableInv, NEW id \in Ids, CreateStream(id)
  PROVE  TableInv'
<1> DEFINE S == ToSet(streams)
           f == FreeSlot(table, id)
<1>1. /\ Hash /\ streams \in Seq(Ids) /\ IsInjective(streams)
      /\ Len(streams) <= MaxStreams /\ Cardinality(S) = Len(streams)
      /\ Table(table, S)
      /\ tombstones = Cardinality(Dead(table)) /\ tombstones <= Len(streams)
  BY DEF TableInv
<1>2. /\ Len(streams) < MaxStreams /\ Insertable(table, id)
      /\ table' = Insert(table, id) /\ streams' = Append(streams, id)
      /\ tombstones' = IF Reused(id) THEN tombstones - 1 ELSE tombstones
      /\ home' = home
  BY DEF CreateStream
<1>3. /\ id \notin S /\ Table(table', S \cup {id})
      /\ f \in Slots /\ Dead(table') = Dead(table) \ {f}
      /\ Cardinality(S \cup {id}) = Cardinality(S) + 1
  BY <1>1, <1>2, InsertHolds
<1>4. /\ streams' \in Seq(Ids) /\ Len(streams') = Len(streams) + 1
      /\ ToSet(streams') = S \cup {id} /\ IsInjective(streams')
  BY <1>1, <1>2, <1>3, AppendSet
<1>5. tombstones' = Cardinality(Dead(table')) /\ tombstones' <= tombstones
  <2>1. IsFiniteSet(Dead(table)) /\ tombstones \in Nat
    BY <1>1, SlotsFinite, FS_CardinalityType
  <2>2. CASE table[f] = Tombstone
    <3>1. f \in Dead(table) BY <1>3, <2>2 DEF Dead
    <3>2. Cardinality(Dead(table')) = tombstones - 1
      <4>1. Cardinality(Dead(table) \ {f}) = Cardinality(Dead(table)) - 1
        BY <2>1, <3>1, FS_RemoveElement, Zenon
      <4> QED BY <1>1, <1>3, <4>1, Zenon
    <3>3. tombstones # 0 BY <1>1, <2>1, <3>1, FS_EmptySet
    <3>4. Reused(id) BY <2>1, <2>2, <3>3 DEF Reused
    <3> QED BY <1>2, <2>1, <3>2, <3>4
  <2>3. CASE table[f] # Tombstone
    <3>1. f \notin Dead(table) BY <2>3 DEF Dead
    <3>2. Cardinality(Dead(table')) = tombstones
      <4>1. Dead(table) \ {f} = Dead(table) BY <3>1, Zenon
      <4> QED BY <1>1, <1>3, <4>1, Zenon
    <3>3. ~Reused(id) BY <2>3 DEF Reused
    <3> QED BY <1>2, <2>1, <3>2, <3>3
  <2> QED BY <2>2, <2>3
<1> HIDE DEF S, f
<1>6. Table(table, ToSet(streams))' BY <1>1, <1>2, <1>3, <1>4, Kept
<1>7. Dead(table)' = Dead(table') BY DEF Dead, Slots
<1>8. Len(streams) \in Nat /\ tombstones \in Nat
  BY <1>1, LenProperties, SlotsFinite, FS_CardinalityType
<1>9. tombstones' \in Int BY <1>2, <1>8
<1>10. Len(streams') <= MaxStreams /\ tombstones' <= Len(streams')
  BY <1>1, <1>2, <1>4, <1>5, <1>8, <1>9, Sizes
<1>11. Cardinality(ToSet(streams')) = Len(streams') BY <1>1, <1>3, <1>4
<1>12. Hash' BY <1>1, <1>2 DEF Hash, Slots
<1> QED BY <1>4, <1>5, <1>6, <1>7, <1>10, <1>11, <1>12 DEF TableInv

LEMMA RemoveStep ==
  ASSUME TableInv, NEW id \in Ids, RemoveStream(id)
  PROVE  TableInv' /\ id \in ToSet(streams) /\ ToSet(streams') = ToSet(streams) \ {id}
<1> DEFINE S == ToSet(streams)
           rest == Without(streams, id)
           t == Erase(table, id)
           n == IF Found(table, id) THEN tombstones + 1 ELSE tombstones
           keep == Keeps(n, Len(rest))
<1>1. /\ Hash /\ streams \in Seq(Ids) /\ IsInjective(streams)
      /\ Len(streams) <= MaxStreams /\ Cardinality(S) = Len(streams)
      /\ Table(table, S)
      /\ tombstones = Cardinality(Dead(table)) /\ tombstones <= Len(streams)
  BY DEF TableInv
<1>2. /\ Contains(streams, id) /\ streams' = rest /\ home' = home
      /\ table' = IF keep THEN t ELSE Rebuilt(rest)
      /\ tombstones' = IF keep THEN n ELSE 0
  BY DEF RemoveStream
<1>3. id \in S BY <1>1, <1>2, LenProperties DEF Contains, ToSet
<1>4. /\ rest \in Seq(Ids) /\ Len(rest) = Len(streams) - 1
      /\ ToSet(rest) = S \ {id} /\ IsInjective(rest)
  BY <1>1, <1>3, WithoutProperties
<1>5. /\ Table(t, S \ {id}) /\ Cardinality(Dead(t)) = tombstones + 1
      /\ Cardinality(S \ {id}) = Cardinality(S) - 1
  BY <1>1, <1>3, EraseHolds
<1>6. Found(table, id) BY <1>1, <1>3, FoundIsHeld
<1>7. n = tombstones + 1 BY <1>6
<1>8. Len(streams) \in Nat /\ tombstones \in Nat
  BY <1>1, LenProperties, SlotsFinite, FS_CardinalityType
<1> HIDE DEF n, rest, t, S
<1>9. /\ Table(table', S \ {id})
      /\ tombstones' = Cardinality(Dead(table')) /\ tombstones' <= Len(rest)
  <2>1. CASE keep
    <3>1. n <= Len(rest) BY <1>4, <1>7, <1>8, <2>1 DEF Keeps
    <3> QED BY <1>2, <1>5, <1>7, <2>1, <3>1
  <2>2. CASE ~keep
    <3>1. Len(rest) <= Size BY <1>1, <1>4, <1>8, Sizes
    <3>2. Table(Rebuilt(rest), ToSet(rest)) /\ Dead(Rebuilt(rest)) = {}
      BY <1>1, <1>4, <3>1, RebuiltHolds
    <3>3. tombstones' = 0 /\ table' = Rebuilt(rest) BY <1>2, <2>2
    <3>4. Len(rest) \in Nat BY <1>4, LenProperties
    <3>5. Cardinality({}) = 0 BY FS_EmptySet, Zenon
    <3>6. Table(table', S \ {id}) BY <1>4, <3>2, <3>3, Zenon
    <3>7. Dead(table') = {} BY <3>2, <3>3, Zenon
    <3>8. tombstones' = Cardinality(Dead(table')) BY <3>3, <3>5, <3>7, Zenon
    <3>9. tombstones' <= Len(rest) BY <3>3, <3>4
    <3> QED BY <3>6, <3>8, <3>9
  <2> QED BY <2>1, <2>2
<1>10. Table(table, ToSet(streams))' BY <1>1, <1>2, <1>4, <1>9, Kept
<1>11. Dead(table)' = Dead(table') BY DEF Dead, Slots
<1>12. Len(streams') <= MaxStreams BY <1>1, <1>2, <1>4, <1>8, Sizes
<1>13. Cardinality(ToSet(streams')) = Len(streams') BY <1>1, <1>2, <1>4, <1>5
<1>14. Hash' BY <1>1, <1>2 DEF Hash, Slots
<1>15. TableInv' BY <1>2, <1>4, <1>9, <1>10, <1>11, <1>12, <1>13, <1>14 DEF TableInv
<1> QED BY <1>2, <1>3, <1>4, <1>15 DEF S

LEMMA StutterStep ==
  ASSUME TableInv, UNCHANGED tableVars
  PROVE  TableInv'
<1>1. UNCHANGED <<home, table, tombstones, streams>> BY DEF tableVars
<1>2. Table(table', ToSet(streams')) /\ Hash BY <1>1 DEF TableInv
<1>3. Table(table, ToSet(streams))' BY <1>1, <1>2, Kept
<1> QED BY <1>1, <1>3 DEF TableInv, Hash, Dead, Slots

LEMMA TableNextInv == TableInv /\ [TableNext]_tableVars => TableInv'
<1> SUFFICES ASSUME TableInv, [TableNext]_tableVars PROVE TableInv' OBVIOUS
<1>1. CASE CloseStreams BY <1>1, CloseStep
<1>2. ASSUME NEW id \in Ids, CreateStream(id) PROVE TableInv' BY <1>2, CreateStep
<1>3. ASSUME NEW id \in Ids, RemoveStream(id) PROVE TableInv' BY <1>3, RemoveStep
<1>4. CASE UNCHANGED tableVars BY <1>4, StutterStep
<1> QED BY <1>1, <1>2, <1>3, <1>4 DEF TableNext

LEMMA TableInvariance == TableSpec => []TableInv
BY TableInitInv, TableNextInv, PTL DEF TableSpec

\* However many streams came and went, no more slots are in use than twice
\* the streams, and the counter is the number of tombstones.
THEOREM ProbesStayShort == TableSpec => []ProbesEnd
<1>1. TableInv => ProbesEnd
  <2> SUFFICES ASSUME TableInv PROVE ProbesEnd OBVIOUS
  <2>1. /\ Table(table, ToSet(streams)) /\ Cardinality(ToSet(streams)) = Len(streams)
        /\ tombstones = Cardinality(Dead(table)) /\ tombstones <= Len(streams)
        /\ Len(streams) \in Nat
    BY LenProperties DEF TableInv
  <2>2. IsFiniteSet(Taken(table)) /\ IsFiniteSet(Dead(table)) BY SlotsFinite
  <2>3. {i \in Slots : table[i] # Empty} = Taken(table) \cup Dead(table)
    BY <2>1, Sizes DEF Table, Taken, Dead
  <2>4. Taken(table) \cap Dead(table) = {} BY Sizes DEF Taken, Dead
  <2>5. Cardinality(Taken(table) \cup Dead(table))
          = Cardinality(Taken(table)) + Cardinality(Dead(table)) - 0
    BY <2>2, <2>4, FS_Union, FS_EmptySet
  <2>6. Cardinality(Taken(table)) = Len(streams) BY <2>1 DEF Table
  <2>7. tombstones \in Nat BY <2>1, <2>2, FS_CardinalityType
  <2>8. Cardinality({i \in Slots : table[i] # Empty}) = Len(streams) + tombstones
    <3>1. Cardinality(Taken(table) \cup Dead(table)) = Len(streams) + tombstones - 0
      BY <2>1, <2>5, <2>6, Zenon
    <3>2. Len(streams) + tombstones - 0 = Len(streams) + tombstones BY <2>1, <2>7
    <3> QED BY <2>3, <3>1, <3>2, Zenon
  <2>9. Cardinality({i \in Slots : table[i] # Empty}) <= 2 * Len(streams)
    BY <2>1, <2>7, <2>8
  <2>10. Cardinality({i \in Slots : table[i] = Tombstone}) = tombstones BY <2>1 DEF Dead
  <2> QED BY <2>9, <2>10 DEF ProbesEnd
<1> QED BY <1>1, TableInvariance, PTL

----------------------------------------------------------------------------
(* The table implements the directory.                                     *)

Held == {id \in Ids : Found(table, id)}

LEMMA HeldIsQueue == TableInv => Held = ToSet(streams)
BY FoundIsHeld DEF TableInv, Held, Table

LEMMA DirectoryInit == TableInit => Directory!Init
BY TableInitInv, HeldIsQueue, EmptySeq DEF TableInit, Directory!Init, Held, ToSet

LEMMA DirectoryNext == TableInv /\ TableInv' /\ [TableNext]_tableVars => [Directory!Next]_Held
<1> SUFFICES ASSUME TableInv, TableInv', [TableNext]_tableVars PROVE [Directory!Next]_Held OBVIOUS
<1>1. Held = ToSet(streams) BY HeldIsQueue
<1>2. (Held = ToSet(streams))' BY HeldIsQueue, PTL
<1>3. /\ streams \in Seq(Ids) /\ Cardinality(ToSet(streams)) = Len(streams)
      /\ \A id \in Ids : Found(table, id) <=> id \in ToSet(streams)
  BY FoundIsHeld DEF TableInv
<1>4. ASSUME CloseStreams PROVE Directory!Next
  <2>1. Held' = {} BY <1>2, <1>4, EmptySeq DEF CloseStreams, ToSet
  <2> QED BY <2>1 DEF Directory!Next, Directory!Close, Held
<1>5. ASSUME NEW id \in Ids, CreateStream(id) PROVE Directory!Next
  <2>1. id \notin Held /\ Cardinality(Held) < MaxStreams
    BY <1>1, <1>3, <1>5 DEF CreateStream
  <2>2. Held' = Held \cup {id}
    BY <1>1, <1>2, <1>3, <1>5, AppendSet DEF CreateStream
  <2>3. Directory!Cardinality(Held) = Cardinality(Held)
    BY Zenon DEF Directory!Cardinality, Cardinality
  <2>4. Directory!Cardinality(Held) < MaxStreams BY <2>1, <2>3
  <2>5. Directory!Create(id) BY <2>1, <2>2, <2>4 DEF Directory!Create, Held
  <2> QED BY <2>5 DEF Directory!Next
<1>6. ASSUME NEW id \in Ids, RemoveStream(id) PROVE Directory!Next
  <2>1. id \in Held /\ Held' = Held \ {id} BY <1>1, <1>2, <1>6, RemoveStep
  <2>2. Directory!Remove(id) BY <2>1 DEF Directory!Remove, Held
  <2> QED BY <2>2 DEF Directory!Next
<1>7. CASE UNCHANGED tableVars
  <2>1. streams' = streams BY <1>7 DEF tableVars
  <2> QED BY <1>1, <1>2, <2>1
<1> QED BY <1>4, <1>5, <1>6, <1>7 DEF TableNext

\* Whatever the hash function, what lookups find are the streams that were
\* created and not yet removed.
THEOREM TableIsDirectory == TableSpec => ImplementsDirectory
<1>1. TableSpec => Directory!Init BY DirectoryInit DEF TableSpec
<1>2. TableInv /\ TableInv' /\ [TableNext]_tableVars => [Directory!Next]_Held BY DirectoryNext
<1> QED BY <1>1, <1>2, TableInvariance, PTL DEF TableSpec, ImplementsDirectory, Directory!Spec, Held

----------------------------------------------------------------------------
(* One set of a cache of answers.                                          *)

Answers == [valid : {TRUE}, key : Keys, status : {"ok", "negative"}, expire : Nat]

\* The order of use holds each way once.
CacheTypes ==
  /\ now \in Nat /\ entry \in [Way -> Answers \cup {Vacant}]
  /\ order \in Seq(Way) /\ IsInjective(order) /\ ToSet(order) = Way
  /\ age \in [Way -> Nat] /\ left \in [Way -> Int]

\* What a lookup found is the first live answer for its name.
Hits == hit # 0 => /\ hit \in Way /\ entry[hit].valid /\ left[hit] > 0
                   /\ \A i \in Way : Holds(i, entry[hit].key) /\ left[i] > 0 => hit <= i

\* The time that is left in truth is the one the clock tells.
Clocked ==
  \A i \in Way : entry[i].valid =>
    left[i] \in -MaxLag .. MaxTtl /\ entry[i].expire = (now + left[i]) % Wrap

\* Of two answers for one name the newer one is nearer to the front.
Nearer ==
  \A i, j \in Way :
    i < j /\ entry[i].valid /\ entry[j].valid /\ entry[i].key = entry[j].key => age[i] <= age[j]

CacheInv == CacheTypes /\ Hits /\ Clocked /\ Nearer

LEMMA CacheSizes ==
  /\ Ways \in Nat \ {0} /\ MaxTtl \in Nat \ {0} /\ NegTtl \in 1 .. MaxTtl /\ MaxLag \in Nat
  /\ Wrap \in Nat \ {0} /\ 2 * MaxTtl < Wrap /\ 2 * MaxLag < Wrap
  /\ Way \in SUBSET Nat /\ 0 \notin Way
BY CacheConstants DEF Way

LEMMA VacantIs == Vacant.valid = FALSE
BY DEF Vacant

LEMMA EntryType ==
  ASSUME CacheTypes, NEW i \in Way, entry[i].valid
  PROVE  entry[i] \in Answers
BY VacantIs DEF CacheTypes

\* Remainders: of a number, and of a sum with a remainder.
LEMMA Remainder ==
  ASSUME NEW m \in Nat \ {0}, NEW x \in Int
  PROVE  /\ x \div m \in Int /\ x % m \in Nat /\ x % m < m
         /\ x = m * (x \div m) + (x % m)
<1>1. x % m \in 0 .. m - 1 OBVIOUS
<1>2. x \div m \in Int /\ x = m * (x \div m) + (x % m) OBVIOUS
<1> QED BY <1>1, <1>2

LEMMA RemainderSum ==
  ASSUME NEW m \in Nat \ {0}, NEW x \in Int, NEW y \in Int
  PROVE  ((x % m) + y) % m = (x + y) % m
<1> DEFINE k == x \div m
           r == x % m
           l == (x + y) \div m
           s == (x + y) % m
<1>1. k \in Int /\ r \in Int /\ x = m * k + r BY Remainder
<1>2. l \in Int /\ s \in Nat /\ s < m /\ x + y = m * l + s
  <2>1. x + y \in Int OBVIOUS
  <2> QED BY <2>1, Remainder
<1> HIDE DEF k, r, l, s
<1>3. PICK z \in Int, j \in Int : z = r + y /\ j = l - k /\ z = m * j + s BY <1>1, <1>2
<1>4. s \in Int /\ 0 <= s /\ s < m BY <1>2
<1>5. z % m = s BY <1>3, <1>4, ModUnique
<1> QED BY <1>3, <1>5 DEF r, s

\* The signed difference that the code computes is the time that is left.
LEMMA ClockTells ==
  ASSUME CacheTypes, Clocked, NEW i \in Way, entry[i].valid
  PROVE  Remaining(i) = left[i]
<1> DEFINE n == now
           l == left[i]
           e == (n + l) % Wrap
<1>1. n \in Nat /\ l \in -MaxLag .. MaxTtl /\ entry[i].expire = e
  BY DEF CacheTypes, Clocked
<1>2. Remaining(i) = IF 2 * ((e - n) % Wrap) >= Wrap THEN ((e - n) % Wrap) - Wrap
                    ELSE (e - n) % Wrap
  BY <1>1 DEF Remaining
<1>3. (e - n) % Wrap = l % Wrap
  <2>1. 0 - n \in Int /\ n + l \in Int BY <1>1, CacheSizes
  <2>2. (e + (0 - n)) % Wrap = ((n + l) + (0 - n)) % Wrap BY <2>1, CacheSizes, RemainderSum
  <2>3. e \in Int BY <2>1, CacheSizes, Remainder
  <2>4. e + (0 - n) = e - n /\ (n + l) + (0 - n) = l
    <3> HIDE DEF e
    <3> QED BY <1>1, <2>3, CacheSizes
  <2> QED BY <2>2, <2>4
<1> HIDE DEF n, e
<1>4. CASE l >= 0
  <2>1. l = Wrap * 0 + l /\ l \in Int /\ l < Wrap BY <1>1, <1>4, CacheSizes
  <2>2. l % Wrap = l BY <1>4, <2>1, CacheSizes, ModUnique, SMTT(20)
  <2>3. ~(2 * l >= Wrap) BY <1>1, CacheSizes
  <2> QED BY <1>2, <1>3, <2>2, <2>3
<1>5. CASE l < 0
  <2>1. /\ l = Wrap * (-1) + (l + Wrap) /\ l \in Int
        /\ l + Wrap \in Int /\ 0 <= l + Wrap /\ l + Wrap < Wrap
    BY <1>1, <1>5, CacheSizes
  <2>2. l % Wrap = l + Wrap BY <2>1, CacheSizes, ModUnique
  <2>3. 2 * (l + Wrap) >= Wrap /\ (l + Wrap) - Wrap = l BY <1>1, <2>1, CacheSizes
  <2> QED BY <1>2, <1>3, <2>2, <2>3
<1> QED BY <1>1, <1>4, <1>5, CacheSizes

\* An answer is taken for good exactly when it is.
LEMMA LiveIs ==
  ASSUME CacheTypes, Clocked, NEW i \in Way
  PROVE  Live(i) <=> entry[i].valid /\ left[i] > 0
<1>1. CASE ~entry[i].valid BY <1>1 DEF Live
<1>2. CASE entry[i].valid
  <2>1. Remaining(i) = left[i] /\ left[i] \in Int BY <1>2, ClockTells DEF CacheTypes
  <2> QED BY <1>2, <2>1 DEF Live, Expired
<1> QED BY <1>1, <1>2

LEMMA FirstIs ==
  ASSUME NEW S \in SUBSET Way, S # {}
  PROVE  First(S) \in S /\ \A j \in S : First(S) <= j
<1>1. \E i \in S : \A j \in S : i <= j BY CacheSizes, LeastNumber
<1> QED BY <1>1 DEF First

\* The place of a way in the order of use.
LEMMA RankIs ==
  ASSUME CacheTypes, NEW i \in Way
  PROVE  Rank(i) \in Nat /\ Rank(i) \in 1 .. Len(order) /\ order[Rank(i)] = i
<1>1. DOMAIN order = 1 .. Len(order) /\ Len(order) \in Nat
  BY LenProperties, Zenon DEF CacheTypes
<1>2. \E n \in DOMAIN order : order[n] = i BY DEF CacheTypes, ToSet
<1>3. Rank(i) \in DOMAIN order /\ order[Rank(i)] = i BY <1>2, Zenon DEF Rank
<1> QED BY <1>1, <1>3

LEMMA OldestIs ==
  ASSUME CacheTypes, NEW S \in SUBSET Way, S # {}
  PROVE  Oldest(S) \in S /\ \A j \in S : Rank(Oldest(S)) <= Rank(j)
<1> DEFINE R == {Rank(j) : j \in S}
<1>1. R \in SUBSET Nat /\ R # {} BY RankIs
<1>2. PICK n \in R : \A m \in R : n <= m BY <1>1, LeastNumber
<1>3. \E i \in S : \A j \in S : Rank(i) <= Rank(j) BY <1>2
<1> QED BY <1>3, Zenon DEF Oldest

\* The oldest of all is the first in the order of use.
LEMMA OldestOfAll ==
  ASSUME CacheTypes
  PROVE  Oldest(Way) = order[1]
<1> DEFINE o == Oldest(Way)
<1>1. Way # {} BY CacheSizes DEF Way
<1>2. o \in Way /\ \A j \in Way : Rank(o) <= Rank(j) BY <1>1, OldestIs
<1>3. Rank(o) \in Nat /\ Rank(o) \in 1 .. Len(order) /\ order[Rank(o)] = o BY <1>2, RankIs
<1>4. DOMAIN order = 1 .. Len(order) /\ Len(order) \in Nat
  BY LenProperties, Zenon DEF CacheTypes
<1>5. 1 \in DOMAIN order /\ order[1] \in Way BY <1>3, <1>4, ElementOfSeq DEF CacheTypes
<1>6. Rank(order[1]) \in DOMAIN order /\ order[Rank(order[1])] = order[1]
  BY <1>4, <1>5, RankIs
<1>7. Rank(order[1]) = 1 BY <1>5, <1>6 DEF CacheTypes, IsInjective
<1>8. Rank(o) = 1 BY <1>2, <1>3, <1>5, <1>7
<1> QED BY <1>3, <1>8

\* What was used goes to the end of the order.
LEMMA UsedKeeps ==
  ASSUME CacheTypes, NEW i \in Way
  PROVE  Used(i) \in Seq(Way) /\ IsInjective(Used(i)) /\ ToSet(Used(i)) = Way
<1> DEFINE w == Without(order, i)
<1>1. w \in Seq(Way) /\ ToSet(w) = Way \ {i} /\ IsInjective(w)
  BY WithoutProperties DEF CacheTypes
<1> HIDE DEF w
<1>2. /\ Append(w, i) \in Seq(Way) /\ ToSet(Append(w, i)) = ToSet(w) \cup {i}
      /\ IsInjective(Append(w, i))
  BY <1>1, AppendSet
<1> QED BY <1>1, <1>2 DEF Used, w

\* Where a store goes.
Negatives == {i \in Way : entry[i].valid /\ entry[i].status = "negative"}
Place(k)  == IF Slot(k) # 0 THEN Slot(k) ELSE Victim(Negatives)

LEMMA PlaceIs ==
  ASSUME CacheTypes, NEW k
  PROVE  /\ Place(k) \in Way
         /\ \A i \in Way : i < Place(k) => ~Holds(i, k)
         /\ Slot(k) # 0 => ~Live(Place(k)) \/ Holds(Place(k), k)
         /\ Slot(k) = 0 => /\ \A i \in Way : Live(i) /\ ~Holds(i, k)
                           /\ Negatives # {} => Place(k) \in Negatives
                           /\ Negatives = {} => Place(k) = order[1]
<1> DEFINE S == {i \in Way : ~Live(i) \/ Holds(i, k)}
<1>1. Slot(k) = IF S = {} THEN 0 ELSE First(S) BY DEF Slot
<1>2. CASE S # {}
  <2>1. First(S) \in S /\ \A j \in S : First(S) <= j BY <1>2, FirstIs
  <2>2. First(S) # 0 /\ First(S) \in Nat BY <2>1, CacheSizes
  <2>3. Slot(k) = First(S) /\ Place(k) = First(S) BY <1>1, <1>2, <2>2 DEF Place
  <2>4. \A i \in Way : i < First(S) => i \notin S
    <3>1. ASSUME NEW i \in Way, i < First(S), i \in S PROVE FALSE
      BY <2>1, <2>2, <3>1, CacheSizes
    <3> QED BY <3>1
  <2> QED BY <2>1, <2>2, <2>3, <2>4
<1>3. CASE S = {}
  <2>1. Slot(k) = 0 /\ \A i \in Way : Live(i) /\ ~Holds(i, k) BY <1>1, <1>3
  <2>2. Place(k) = IF Negatives # {} THEN Oldest(Negatives) ELSE Oldest(Way)
    BY <2>1 DEF Place, Victim
  <2>3. Negatives \in SUBSET Way /\ Way # {} BY CacheSizes DEF Negatives, Way
  <2>4. Negatives # {} => Oldest(Negatives) \in Negatives BY <2>3, OldestIs
  <2>5. Oldest(Way) \in Way /\ Oldest(Way) = order[1] BY <2>3, OldestIs, OldestOfAll
  <2> QED BY <2>1, <2>2, <2>3, <2>4, <2>5
<1> QED BY <1>2, <1>3

\* A store changes nothing, or the way it goes to.
LEMMA PutIs ==
  ASSUME NEW k, NEW status, NEW ttl, Put(k, status, ttl)
  PROVE  \/ UNCHANGED <<entry, order, age, left>>
         \/ /\ entry' = [entry EXCEPT ![Place(k)] =
                           [valid |-> TRUE, key |-> k, status |-> status,
                            expire |-> (now + ttl) % Wrap]]
            /\ order' = Used(Place(k))
            /\ age' = [j \in Way |-> IF j = Place(k) THEN 0
                                     ELSE IF age[j] < Ways THEN age[j] + 1 ELSE age[j]]
            /\ left' = [left EXCEPT ![Place(k)] = ttl]
BY DEF Put, Place, Negatives

LEMMA PutKeeps ==
  ASSUME CacheInv, NEW k \in Keys, NEW status \in {"ok", "negative"}, NEW ttl \in 1 .. MaxTtl,
         Put(k, status, ttl), now' = now, hit' = 0
  PROVE  CacheInv'
<1> USE DEF CacheInv
<1>w. Way' = Way BY DEF Way
<1>1. CASE UNCHANGED <<entry, order, age, left>>
  <2>1. CacheTypes' /\ Clocked' /\ Nearer' /\ Hits'
    BY <1>1, <1>w DEF CacheTypes, Clocked, Nearer, Hits, Vacant, Answers
  <2> QED BY <2>1
<1>2. CASE ~UNCHANGED <<entry, order, age, left>>
  <2> DEFINE p == Place(k)
             new == [valid |-> TRUE, key |-> k, status |-> status, expire |-> (now + ttl) % Wrap]
  <2>1. p \in Way /\ \A i \in Way : i < p => ~Holds(i, k) BY PlaceIs
  <2>2. /\ entry' = [entry EXCEPT ![p] = new]
        /\ order' = Used(p)
        /\ age' = [j \in Way |-> IF j = p THEN 0
                                 ELSE IF age[j] < Ways THEN age[j] + 1 ELSE age[j]]
        /\ left' = [left EXCEPT ![p] = ttl]
    BY <1>2, PutIs
  <2>3. new \in Answers
    <3>1. now + ttl \in Int /\ Wrap \in Nat \ {0} BY CacheSizes DEF CacheTypes
    <3>2. (now + ttl) % Wrap \in Nat BY <3>1, Remainder
    <3> QED BY <3>2 DEF Answers
  <2>4. new.valid /\ new.key = k /\ new.expire = (now + ttl) % Wrap OBVIOUS
  <2> HIDE DEF p, new
  <2>5. /\ entry'[p] = new /\ left'[p] = ttl /\ age'[p] = 0
        /\ \A i \in Way : i # p => /\ entry'[i] = entry[i] /\ left'[i] = left[i]
                                   /\ age'[i] = IF age[i] < Ways THEN age[i] + 1 ELSE age[i]
    BY <2>1, <2>2 DEF CacheTypes
  <2>6. CacheTypes'
    <3>1. entry' \in [Way -> Answers \cup {Vacant}] BY <2>2, <2>3 DEF CacheTypes
    <3>2. age' \in [Way -> Nat] BY <2>2 DEF CacheTypes
    <3>3. left' \in [Way -> Int]
      <4>1. ttl \in Int /\ left \in [Way -> Int] BY DEF CacheTypes
      <4> QED BY <2>2, <4>1
    <3>4. order' \in Seq(Way) /\ IsInjective(order') /\ ToSet(order') = Way
      BY <2>1, <2>2, UsedKeeps
    <3>5. now' \in Nat BY DEF CacheTypes
    <3> QED BY <1>w, <3>1, <3>2, <3>3, <3>4, <3>5 DEF CacheTypes, Answers, Vacant
  <2>7. Clocked'
    <3> SUFFICES ASSUME NEW i \in Way, entry'[i].valid
                 PROVE  left'[i] \in -MaxLag .. MaxTtl /\ entry'[i].expire = (now + left'[i]) % Wrap
      BY <1>w DEF Clocked
    <3>1. CASE i = p
      <4>1. ttl \in -MaxLag .. MaxTtl BY CacheSizes
      <4> QED BY <2>4, <2>5, <3>1, <4>1
    <3>2. CASE i # p BY <2>5, <3>2 DEF Clocked
    <3> QED BY <3>1, <3>2
  <2>8. Nearer'
    <3> SUFFICES ASSUME NEW i \in Way, NEW j \in Way, i < j, entry'[i].valid, entry'[j].valid,
                        entry'[i].key = entry'[j].key
                 PROVE  age'[i] <= age'[j]
      BY <1>w DEF Nearer
    <3>0. i # j /\ age[i] \in Nat /\ age[j] \in Nat /\ Ways \in Nat
      BY CacheSizes DEF CacheTypes
    <3>1. CASE i = p
      <4>1. age'[j] \in Nat BY <2>5, <3>0, <3>1
      <4> QED BY <2>5, <3>1, <4>1
    <3>2. CASE j = p
      <4>1. entry[i].valid /\ entry[i].key = k BY <2>4, <2>5, <3>0, <3>2
      <4> QED BY <2>1, <3>2, <4>1 DEF Holds
    <3>3. CASE i # p /\ j # p
      <4>1. age[i] <= age[j] BY <2>5, <3>3 DEF Nearer
      <4> QED BY <2>5, <3>0, <3>3, <4>1
    <3> QED BY <3>1, <3>2, <3>3
  <2> QED BY <2>6, <2>7, <2>8 DEF Hits
<1> QED BY <1>1, <1>2

\* A lookup frees what it passes.
LEMMA LookupKeeps ==
  ASSUME CacheInv, NEW k \in Keys, Lookup(k)
  PROVE  CacheInv'
<1> USE DEF CacheInv
<1>w. Way' = Way BY DEF Way
<1> DEFINE F == {i \in Way : Live(i) /\ Holds(i, k)}
           h == First(F)
<1>1. /\ now' = now /\ left' = left /\ age' = age
      /\ hit' = IF F = {} THEN 0 ELSE h
      /\ entry' = [i \in Way |-> IF i \in Passed(k) /\ ~Live(i) THEN Vacant ELSE entry[i]]
      /\ order' = IF F = {} THEN order ELSE Used(h)
  BY DEF Lookup
<1>2. F # {} => h \in F /\ \A j \in F : h <= j BY FirstIs
<1> HIDE DEF h
<1>3. \A i \in Way : entry'[i] = entry[i] \/ entry'[i] = Vacant BY <1>1
<1>4. CacheTypes'
  <2>1. entry' \in [Way -> Answers \cup {Vacant}] BY <1>1 DEF CacheTypes
  <2>2. order' \in Seq(Way) /\ IsInjective(order') /\ ToSet(order') = Way
    <3>1. CASE F = {} BY <1>1, <3>1 DEF CacheTypes
    <3>2. CASE F # {}
      <4>1. h \in Way BY <1>2, <3>2
      <4> QED BY <1>1, <3>2, <4>1, UsedKeeps
    <3> QED BY <3>1, <3>2
  <2> QED BY <1>1, <1>w, <2>1, <2>2 DEF CacheTypes, Answers, Vacant
<1>5. Clocked' BY <1>1, <1>3, <1>w, VacantIs DEF Clocked
<1>6. Nearer' BY <1>1, <1>3, <1>w, VacantIs DEF Nearer
<1>7. Hits'
  <2> SUFFICES ASSUME F # {} PROVE Hits' BY <1>1 DEF Hits
  <2>1. h \in Way /\ Live(h) /\ Holds(h, k) /\ hit' = h BY <1>1, <1>2
  <2>2. entry'[h] = entry[h] /\ entry[h].valid /\ entry[h].key = k /\ left[h] > 0
    BY <1>1, <2>1, LiveIs DEF Holds
  <2>3. ASSUME NEW i \in Way, entry'[i].valid, entry'[i].key = k, left[i] > 0 PROVE h <= i
    <3>1. entry'[i] = entry[i] BY <1>3, <2>3, VacantIs
    <3>2. Live(i) /\ Holds(i, k) BY <2>3, <3>1, LiveIs DEF Holds
    <3> QED BY <1>2, <3>2
  <2> QED BY <1>1, <1>w, <2>1, <2>2, <2>3 DEF Hits, Holds
<1> QED BY <1>4, <1>5, <1>6, <1>7

\* The clock goes on by one for all.
LEMMA TickKeeps ==
  ASSUME CacheInv, Tick
  PROVE  CacheInv'
<1> USE DEF CacheInv
<1>w. Way' = Way BY DEF Way
<1>1. /\ \A i \in Way : entry[i].valid => left[i] > -MaxLag
      /\ now' = (now + 1) % Wrap
      /\ left' = [i \in Way |-> IF entry[i].valid THEN left[i] - 1 ELSE 0]
      /\ hit' = 0 /\ entry' = entry /\ order' = order /\ age' = age
  BY DEF Tick
<1>2. now + 1 \in Int BY DEF CacheTypes
<1>3. now' \in Nat BY <1>1, <1>2, CacheSizes, Remainder
<1>4. CacheTypes'
  <2>1. left' \in [Way -> Int] BY <1>1 DEF CacheTypes
  <2> QED BY <1>1, <1>3, <1>w, <2>1 DEF CacheTypes, Answers, Vacant
<1>5. Clocked'
  <2> SUFFICES ASSUME NEW i \in Way, entry[i].valid
               PROVE  /\ left'[i] \in -MaxLag .. MaxTtl
                      /\ entry[i].expire = (now' + left'[i]) % Wrap
    BY <1>1, <1>w DEF Clocked
  <2>1. left'[i] = left[i] - 1 BY <1>1
  <2>2. /\ left[i] \in -MaxLag .. MaxTtl /\ left[i] > -MaxLag
        /\ entry[i].expire = (now + left[i]) % Wrap
    BY <1>1 DEF Clocked
  <2>3. left'[i] \in -MaxLag .. MaxTtl BY <2>1, <2>2, CacheSizes
  <2>4. (now' + left'[i]) % Wrap = ((now + 1) + left'[i]) % Wrap
    <3>1. left'[i] \in Int /\ Wrap \in Nat \ {0} BY <2>3, CacheSizes
    <3> QED BY <1>1, <1>2, <3>1, RemainderSum
  <2>5. (now + 1) + left'[i] = now + left[i] BY <2>1, <2>2 DEF CacheTypes
  <2> QED BY <2>2, <2>3, <2>4, <2>5
<1>6. Nearer' BY <1>1, <1>w DEF Nearer
<1> QED BY <1>1, <1>4, <1>5, <1>6 DEF Hits

LEMMA CacheInitInv == CacheInit => CacheInv
<1> SUFFICES ASSUME CacheInit PROVE CacheInv OBVIOUS
<1>1. /\ now = 0 /\ hit = 0 /\ entry = [i \in Way |-> Vacant] /\ order = [i \in Way |-> i]
      /\ age = [i \in Way |-> 0] /\ left = [i \in Way |-> 0]
  BY DEF CacheInit
<1>2. \A i \in Way : ~entry[i].valid BY <1>1, VacantIs
<1>3. order \in Seq(Way) /\ IsInjective(order) /\ ToSet(order) = Way
  <2>1. order \in [1 .. Ways -> Way] /\ Ways \in Nat BY <1>1, CacheSizes DEF Way
  <2>2. order \in Seq(Way) BY <2>1, SeqDef
  <2>3. DOMAIN order = Way BY <1>1
  <2> QED BY <1>1, <2>2, <2>3 DEF IsInjective, ToSet
<1>4. CacheTypes BY <1>1, <1>3 DEF CacheTypes
<1> QED BY <1>1, <1>2, <1>4 DEF CacheInv, Hits, Clocked, Nearer

\* What a request on its way does: at most one store.
LEMMA StoreIs ==
  ASSUME NEW k \in Keys, Store(k) \/ UdpStore(k)
  PROVE  /\ now' = now /\ hit' = 0
         /\ \/ UNCHANGED <<entry, order, age, left>>
            \/ \E status \in {"ok", "negative"}, ttl \in 1 .. MaxTtl : Put(k, status, ttl)
<1>1. CASE Store(k) BY <1>1, CacheSizes DEF Store
<1>2. CASE UdpStore(k)
  <2>1. PICK ttl \in 0 .. MaxTtl :
          IF ttl = 0 THEN UNCHANGED <<entry, order, age, left>> ELSE Put(k, "ok", ttl)
    BY <1>2 DEF UdpStore
  <2>2. now' = now /\ hit' = 0 BY <1>2 DEF UdpStore
  <2>3. ttl = 0 \/ ttl \in 1 .. MaxTtl BY CacheSizes
  <2> QED BY <2>1, <2>2, <2>3
<1> QED BY <1>1, <1>2

LEMMA CacheNextInv == CacheInv /\ [CacheNext]_cacheVars => CacheInv'
<1> SUFFICES ASSUME CacheInv, [CacheNext]_cacheVars PROVE CacheInv' OBVIOUS
<1>w. Way' = Way BY DEF Way
<1>1. CASE Tick BY <1>1, TickKeeps
<1>2. ASSUME NEW k \in Keys, Lookup(k) PROVE CacheInv' BY <1>2, LookupKeeps
<1>3. ASSUME NEW k \in Keys, Store(k) \/ UdpStore(k) PROVE CacheInv'
  <2>1. /\ now' = now /\ hit' = 0
        /\ \/ UNCHANGED <<entry, order, age, left>>
           \/ \E status \in {"ok", "negative"}, ttl \in 1 .. MaxTtl : Put(k, status, ttl)
    BY <1>3, StoreIs
  <2>2. CASE UNCHANGED <<entry, order, age, left>>
    BY <1>w, <2>1, <2>2
    DEF CacheInv, CacheTypes, Clocked, Nearer, Hits, Vacant, Answers
  <2>3. CASE \E status \in {"ok", "negative"}, ttl \in 1 .. MaxTtl : Put(k, status, ttl)
    BY <2>1, <2>3, PutKeeps
  <2> QED BY <2>1, <2>2, <2>3
<1>4. CASE UNCHANGED cacheVars
  BY <1>w, <1>4
  DEF cacheVars, CacheInv, CacheTypes, Clocked, Nearer, Hits, Vacant, Answers, Holds
<1> QED BY <1>1, <1>2, <1>3, <1>4 DEF CacheNext

LEMMA CacheAlways == CacheSpec => []CacheInv
BY CacheInitInv, CacheNextInv, PTL DEF CacheSpec

\* A lookup returns an answer that is still good, and of several for one name the
\* one that was stored last, across wraps of the clock.
THEOREM HitsAreNewest == CacheSpec => []HitsNewestLive
<1>1. CacheInv => HitsNewestLive
  <2> SUFFICES ASSUME CacheInv, hit # 0
               PROVE  /\ left[hit] > 0
                      /\ \A i \in Way : Holds(i, entry[hit].key) /\ left[i] > 0 => age[hit] <= age[i]
    BY DEF HitsNewestLive
  <2>1. /\ hit \in Way /\ entry[hit].valid /\ left[hit] > 0
        /\ \A i \in Way : Holds(i, entry[hit].key) /\ left[i] > 0 => hit <= i
    BY DEF CacheInv, Hits
  <2>2. ASSUME NEW i \in Way, Holds(i, entry[hit].key), left[i] > 0 PROVE age[hit] <= age[i]
    <3>1. hit <= i /\ hit \in Nat /\ i \in Nat BY <2>1, <2>2, CacheSizes
    <3>2. CASE hit = i
      <4>1. age[i] \in Nat BY DEF CacheInv, CacheTypes
      <4> QED BY <3>2, <4>1
    <3>3. CASE hit < i BY <2>1, <2>2, <3>3 DEF CacheInv, Nearer, Holds
    <3> QED BY <3>1, <3>2, <3>3
  <2> QED BY <2>1, <2>2
<1> QED BY <1>1, CacheAlways, PTL

\* A positive answer that is still good gives way to another name only when all
\* other ways hold such answers too, used more recently.
THEOREM PositivesAreKept == CacheSpec => PositivesStay
<1> DEFINE Goes(i) == entry'[i] # entry[i] /\ entry'[i].valid /\ entry'[i].key # entry[i].key
           Good(i) == entry[i].valid /\ left[i] > 0 /\ entry[i].status = "ok"
<1>1. CacheInv /\ [CacheNext]_cacheVars =>
        [\A i \in Way :
           LET gone == entry'[i] # entry[i] /\ entry'[i].valid /\ entry'[i].key # entry[i].key
           IN entry[i].valid /\ left[i] > 0 /\ entry[i].status = "ok" /\ gone
                => \A j \in Way : /\ entry[j].valid /\ left[j] > 0 /\ entry[j].status = "ok"
                                  /\ i = order[1]]_cacheVars
  <2> SUFFICES ASSUME CacheInv, CacheNext, NEW i \in Way, Good(i), Goes(i)
               PROVE  (\A j \in Way : Good(j)) /\ i = order[1]
    OBVIOUS
  <2> USE DEF CacheInv
  <2>1. CASE Tick BY <2>1 DEF Tick
  <2>2. ASSUME NEW k \in Keys, Lookup(k) PROVE FALSE
    <3>1. entry'[i] = entry[i] \/ entry'[i] = Vacant BY <2>2 DEF Lookup
    <3> QED BY <3>1, VacantIs
  <2>3. ASSUME NEW k \in Keys, Store(k) \/ UdpStore(k)
        PROVE  (\A j \in Way : Good(j)) /\ i = order[1]
    <3>1. PICK status \in {"ok", "negative"}, ttl \in 1 .. MaxTtl : Put(k, status, ttl)
      BY <2>3, StoreIs
    <3>2. entry' = [entry EXCEPT ![Place(k)] = [valid |-> TRUE, key |-> k, status |-> status,
                                                expire |-> (now + ttl) % Wrap]]
      BY <3>1, PutIs
    <3>3. entry \in [Way -> Answers \cup {Vacant}] BY DEF CacheTypes
    <3>4. i = Place(k) /\ entry'[i].key = k BY <3>2, <3>3
    <3>5. Live(i) /\ ~Holds(i, k) BY <3>4, LiveIs DEF Holds
    <3>6. Slot(k) = 0 BY <3>4, <3>5, PlaceIs
    <3>7. /\ \A j \in Way : Live(j)
          /\ Negatives # {} => i \in Negatives
          /\ Negatives = {} => i = order[1]
      BY <3>4, <3>6, PlaceIs
    <3>8. Negatives = {} /\ i = order[1] BY <3>7 DEF Negatives
    <3>9. ASSUME NEW j \in Way PROVE Good(j)
      <4>1. entry[j].valid /\ left[j] > 0 BY <3>7, LiveIs
      <4>2. entry[j] \in Answers BY <4>1, EntryType
      <4>3. entry[j].status \in {"ok", "negative"} BY <4>2 DEF Answers
      <4> QED BY <3>8, <4>1, <4>3 DEF Negatives
    <3> QED BY <3>8, <3>9
  <2> QED BY <2>1, <2>2, <2>3 DEF CacheNext
<1> QED BY <1>1, CacheAlways, PTL DEF CacheSpec, PositivesStay

----------------------------------------------------------------------------
(* The least element of a set of numbers.                                  *)

\* The order of the library's theorem on well-foundedness, as a set.
LEMMA LessThan == OpToRel(<, Nat) = {p \in Nat \X Nat : p[1] < p[2]}
<1>1. {p \in Nat \X Nat : p[1] < p[2]} = {p \in Nat \X Nat : p[1] < p[2]} OBVIOUS
<1> QED BY ONLY <1>1, Zenon DEF OpToRel

\* Min returns the least element.
LEMMA MinIs ==
  ASSUME NEW S \in SUBSET Nat, S # {}
  PROVE  Min(S) \in S /\ \A y \in S : Min(S) <= y
<1>1. PICK x \in S : \A y \in S : ~(<<y, x>> \in {p \in Nat \X Nat : p[1] < p[2]})
  <2>1. IsWellFoundedOn({p \in Nat \X Nat : p[1] < p[2]}, Nat)
    BY NatLessThanWellFounded, LessThan, Zenon
  <2> QED BY <2>1, WFMin, Zenon
<1>2. ASSUME NEW y \in S PROVE x <= y
  <2>1. ~(y < x)
    <3>1. <<y, x>> \in Nat \X Nat /\ <<y, x>>[1] = y /\ <<y, x>>[2] = x OBVIOUS
    <3>2. y < x => <<y, x>> \in {p \in Nat \X Nat : p[1] < p[2]} BY <3>1, Zenon
    <3> QED BY <1>1, <3>2
  <2> QED BY <2>1
<1> QED BY <1>2 DEF Min

\* An element that is below all others is Min.
LEMMA MinUnique ==
  ASSUME NEW S \in SUBSET Nat, NEW m \in S, \A y \in S : m <= y
  PROVE  Min(S) = m
<1>1. Min(S) \in S /\ \A y \in S : Min(S) <= y BY MinIs
<1>2. Min(S) \in Nat /\ m \in Nat /\ Min(S) <= m /\ m <= Min(S) BY <1>1
<1> QED BY <1>2

----------------------------------------------------------------------------
(* Suffixes of a name.                                                     *)

\* A host without its trailing dot has at least one label.
LEMMA DotlessType ==
  ASSUME NEW h \in Seq(STRING), h # <<>>
  PROVE  Dotless(h) \in Seq(STRING) /\ Dotless(h) # <<>>
<1>1. Len(h) \in Nat \ {0} BY EmptySeq
<1>2. CASE ~(Len(h) > 1 /\ Last(h) = "") BY <1>2, Zenon DEF Dotless
<1>3. CASE Len(h) > 1 /\ Last(h) = ""
  <2>0. PICK n \in Nat : n = Len(h) /\ n > 1 BY <1>1, <1>3, Zenon
  <2>1. Dotless(h) = SubSeq(h, 1, n - 1) BY <1>3, <2>0, Zenon DEF Dotless, Front
  <2>2. \A i \in 1 .. n - 1 : h[i] \in STRING BY <2>0, ElementOfSeq
  <2>3. SubSeq(h, 1, n - 1) \in Seq(STRING) /\ Len(SubSeq(h, 1, n - 1)) = n - 1
    BY <2>0, <2>2
  <2>4. Len(<<>>) = 0 /\ n - 1 # 0 BY <2>0, EmptySeq
  <2> QED BY <2>1, <2>3, <2>4, Zenon
<1> QED BY <1>2, <1>3

\* The suffixes of a name are what remains of it from some label on.
LEMMA SuffixIsTail ==
  ASSUME NEW L, NEW d \in Seq(L), d # <<>>, NEW h \in Seq(L)
  PROVE  IsSuffix(d, h) <=> \E i \in 1 .. Len(h) : SubSeq(h, i, Len(h)) = d
<1> DEFINE n == Len(d)
           k == Len(h)
<1>0. n \in Nat \ {0} /\ k \in Nat /\ d \in [1 .. n -> L] /\ h \in [1 .. k -> L]
  BY EmptySeq, LenProperties
<1>1. /\ Reverse(d) \in Seq(L) /\ Len(Reverse(d)) = n
      /\ \A i \in 1 .. n : Reverse(d)[i] = d[n - i + 1]
  BY <1>0 DEF Reverse
<1>2. /\ Reverse(h) \in Seq(L) /\ Len(Reverse(h)) = k
      /\ \A i \in 1 .. k : Reverse(h)[i] = h[k - i + 1]
  BY <1>0 DEF Reverse
<1>3. IsSuffix(d, h) <=> n <= k /\ \A i \in 1 .. n : d[n - i + 1] = h[k - i + 1]
  <2>1. IsSuffix(d, h)
          <=> n <= k /\ SubSeq(Reverse(d), 1, n) = SubSeq(Reverse(h), 1, n)
    BY <1>1, <1>2 DEF IsSuffix, IsPrefix
  <2>2. ASSUME n <= k
        PROVE  SubSeq(Reverse(d), 1, n) = SubSeq(Reverse(h), 1, n)
                 <=> \A i \in 1 .. n : d[n - i + 1] = h[k - i + 1]
    BY <1>0, <1>1, <1>2, <2>2
  <2> QED BY <2>1, <2>2
<1>4. (\A i \in 1 .. n : d[n - i + 1] = h[k - i + 1]) <=> \A j \in 1 .. n : d[j] = h[k - n + j]
  <2>1. ASSUME \A i \in 1 .. n : d[n - i + 1] = h[k - i + 1], NEW j \in 1 .. n
        PROVE  d[j] = h[k - n + j]
    <3>1. n - j + 1 \in 1 .. n /\ n - (n - j + 1) + 1 = j /\ k - (n - j + 1) + 1 = k - n + j
      BY <1>0
    <3> QED BY <2>1, <3>1
  <2>2. ASSUME \A j \in 1 .. n : d[j] = h[k - n + j], NEW i \in 1 .. n
        PROVE  d[n - i + 1] = h[k - i + 1]
    <3>1. n - i + 1 \in 1 .. n /\ k - n + (n - i + 1) = k - i + 1
      BY <1>0
    <3> QED BY <2>2, <3>1
  <2> QED BY <2>1, <2>2
<1>5. ASSUME NEW i \in 1 .. k
      PROVE  /\ SubSeq(h, i, k) \in Seq(L) /\ Len(SubSeq(h, i, k)) = k - i + 1
             /\ \A j \in 1 .. k - i + 1 : SubSeq(h, i, k)[j] = h[i + j - 1]
  BY <1>0, <1>5
<1>6. ASSUME n <= k, \A j \in 1 .. n : d[j] = h[k - n + j]
      PROVE  \E i \in 1 .. k : SubSeq(h, i, k) = d
  <2>1. k - n + 1 \in 1 .. k /\ k - (k - n + 1) + 1 = n BY <1>0, <1>6
  <2>2. \A j \in 1 .. n : SubSeq(h, k - n + 1, k)[j] = d[j]
    BY <1>0, <1>5, <1>6, <2>1
  <2>3. SubSeq(h, k - n + 1, k) = d
    BY <1>5, <2>1, <2>2, SeqEqual
  <2> QED BY <2>1, <2>3
<1>7. ASSUME NEW i \in 1 .. k, SubSeq(h, i, k) = d
      PROVE  n <= k /\ \A j \in 1 .. n : d[j] = h[k - n + j]
  <2>1. n = k - i + 1 BY <1>5, <1>7
  <2> QED BY <1>0, <1>5, <1>7, <2>1
<1> QED BY <1>3, <1>4, <1>6, <1>7

----------------------------------------------------------------------------
(* The search.                                                             *)

RoutesOK == routes \in Seq(SUBSET Rules) /\ Len(routes) <= MaxRoutes

\* The routes that a domain rule decides for.
DomainHits(t) == {r \in DOMAIN routes : \E x \in DomainRules(r) : RuleMatch(x, t)}

\* The routes that name a domain.
Naming(d) == {r \in DOMAIN routes : \E x \in DomainRules(r) : x.domain = d}

LEMMA RoutesType ==
  ASSUME RoutesOK
  PROVE  /\ DOMAIN routes = 1 .. Len(routes) /\ Len(routes) \in Nat
         /\ DOMAIN routes \in SUBSET Nat /\ 0 \notin DOMAIN routes
         /\ \A r \in DOMAIN routes : routes[r] \subseteq Rules
<1>1. DOMAIN routes = 1 .. Len(routes) /\ Len(routes) \in Nat
  BY LenProperties, Zenon DEF RoutesOK
<1>2. \A r \in 1 .. Len(routes) : routes[r] \in SUBSET Rules
  BY ElementOfSeq, Zenon DEF RoutesOK
<1> QED BY <1>1, <1>2

\* A domain rule matches exactly when it names a suffix of the host.
LEMMA DomainMatch ==
  ASSUME NEW t \in Targets, IsDomain(t), NEW x \in Rules, x.type = "domain"
  PROVE  RuleMatch(x, t) <=> \E i \in DOMAIN Dotless(t.host) :
                               x.domain = SubSeq(Dotless(t.host), i, Len(Dotless(t.host)))
<1> DEFINE H == Dotless(t.host)
<1>1. H \in Seq(STRING) BY DotlessType, ConstantsAssumption DEF IsDomain
<1>2. x.domain \in Seq(STRING) /\ x.domain # <<>> BY ConstantsAssumption
<1>3. RuleMatch(x, t) <=> IsSuffix(x.domain, H) BY DEF RuleMatch
<1>4. DOMAIN H = 1 .. Len(H) BY <1>1, LenProperties, Zenon
<1> HIDE DEF H
<1>5. IsSuffix(x.domain, H) <=> \E i \in 1 .. Len(H) : SubSeq(H, i, Len(H)) = x.domain
  BY <1>1, <1>2, SuffixIsTail, Zenon
<1> QED BY <1>3, <1>4, <1>5, Zenon DEF H

\* The index gives the first route that names a domain.
LEMMA IndexIs ==
  ASSUME RoutesOK, NEW d
  PROVE  IF Naming(d) = {} THEN Index(d) = 0
         ELSE Index(d) \in Naming(d) /\ \A r \in Naming(d) : Index(d) <= r
<1>1. Naming(d) \in SUBSET Nat BY RoutesType DEF Naming
<1>2. Index(d) = IF Naming(d) = {} THEN 0 ELSE Min(Naming(d)) BY Zenon DEF Index, Naming
<1> QED BY <1>1, <1>2, MinIs

\* The index finds the first route with a domain rule for the host.
LEMMA CandidateIs ==
  ASSUME RoutesOK, NEW t \in Targets, Indexed(t)
  PROVE  Candidate(t) = IF DomainHits(t) = {} THEN 0 ELSE Min(DomainHits(t))
<1> DEFINE H == Dotless(t.host)
           Tail_(i) == SubSeq(H, i, Len(H))
           found == {Index(Tail_(i)) : i \in DOMAIN H} \ {0}
<1>1. Candidate(t) = IF found = {} THEN 0 ELSE Min(found) BY Zenon DEF Candidate
<1>2. IsDomain(t) BY DEF Indexed
<1>3. \A r \in DOMAIN routes : \A x \in DomainRules(r) : x \in Rules /\ x.type = "domain"
  BY RoutesType DEF DomainRules
<1>4. \A r : r \in DomainHits(t) <=> \E i \in DOMAIN H : r \in Naming(Tail_(i))
  BY <1>2, <1>3, DomainMatch, Zenon DEF DomainHits, Naming
<1>5. DomainHits(t) \in SUBSET Nat BY RoutesType DEF DomainHits
<1> HIDE DEF H
<1>6. \A m \in found : m \in DomainHits(t)
  <2> SUFFICES ASSUME NEW i \in DOMAIN H, Index(Tail_(i)) # 0
               PROVE  Index(Tail_(i)) \in DomainHits(t)
    BY Zenon
  <2> QED BY <1>4, IndexIs, Zenon
<1>7. \A r \in DomainHits(t) : \E m \in found : m <= r
  <2> SUFFICES ASSUME NEW r \in DomainHits(t) PROVE \E m \in found : m <= r
    OBVIOUS
  <2>1. PICK i \in DOMAIN H : r \in Naming(Tail_(i)) BY <1>4, Zenon
  <2>2. Index(Tail_(i)) \in Naming(Tail_(i)) /\ Index(Tail_(i)) <= r BY <2>1, IndexIs, Zenon
  <2>3. Index(Tail_(i)) # 0 BY <2>2, RoutesType, Zenon DEF Naming
  <2> QED BY <2>2, <2>3, Zenon
<1>8. CASE DomainHits(t) = {} BY <1>1, <1>6, <1>8, Zenon
<1>9. CASE DomainHits(t) # {}
  <2> HIDE DEF found
  <2>1. /\ Min(DomainHits(t)) \in DomainHits(t)
        /\ \A y \in DomainHits(t) : Min(DomainHits(t)) <= y
    BY <1>5, <1>9, MinIs, Zenon
  <2>2. PICK m \in found : m <= Min(DomainHits(t)) BY <1>7, <2>1, Zenon
  <2>3. m = Min(DomainHits(t)) BY <1>5, <1>6, <2>1, <2>2
  <2>4. found \in SUBSET Nat /\ \A y \in found : m <= y BY <1>5, <1>6, <2>1, <2>3
  <2>5. Min(found) = m BY <2>4, MinUnique
  <2> QED BY <1>1, <1>9, <2>3, <2>5, Zenon
<1> QED BY <1>8, <1>9

\* A route matches by a domain rule or by another one.
LEMMA MatchSplit ==
  ASSUME NEW t, NEW r \in DOMAIN routes
  PROVE  Match(r, t, FALSE) <=> Match(r, t, TRUE) \/ r \in DomainHits(t)
<1>1. Match(r, t, FALSE) <=> \E x \in routes[r] : RuleMatch(x, t) BY Zenon DEF Match
<1>2. Match(r, t, TRUE) <=> \E x \in OtherRules(r) : RuleMatch(x, t) BY Zenon DEF Match
<1>3. \A x : x \in routes[r] <=> x \in OtherRules(r) \/ x \in DomainRules(r)
  BY Zenon DEF OtherRules, DomainRules
<1> QED BY <1>1, <1>2, <1>3, Zenon DEF DomainHits

Least(M) == IF M = {} THEN 0 ELSE Min(M)

LeastOfParts(before, others, c) ==
  IF before # {} THEN Min(before) ELSE IF others # {} THEN Min(others) ELSE c

\* The least element of a set is in the part up to L, or else in the part
\* between L and c, or else it is c, when c is 0 or an element above L.
LEMMA FirstOfParts ==
  ASSUME NEW n \in Nat, NEW M \in SUBSET (1 .. n), NEW L \in Nat, NEW c \in 0 .. n,
         c # 0 => c \in M /\ c > L,
         NEW before, \A r : r \in before <=> r \in M /\ r <= L,
         NEW others, \A r : r \in others <=> r \in M /\ r > L /\ (c = 0 \/ r < c)
  PROVE  LeastOfParts(before, others, c) = Least(M)
<1> USE DEF Least, LeastOfParts
<1>1. M \in SUBSET Nat /\ before \in SUBSET Nat /\ others \in SUBSET Nat
  <2>1. M \subseteq Nat OBVIOUS
  <2>2. before \subseteq M /\ others \subseteq M BY Zenon
  <2> QED BY <2>1, <2>2, Zenon
<1>2. CASE before # {}
  <2>1. PICK m \in before : m = Min(before) /\ \A y \in before : m <= y BY <1>1, <1>2, MinIs
  <2>2. m \in M /\ m <= L BY <2>1
  <2>3. \A y \in M : m <= y
    <3> SUFFICES ASSUME NEW y \in M PROVE m <= y OBVIOUS
    <3>1. CASE y <= L BY <2>1, <3>1
    <3>2. CASE ~(y <= L) BY <1>1, <2>2, <3>2
    <3> QED BY <3>1, <3>2
  <2>4. Min(M) = m BY <1>1, <2>2, <2>3, MinUnique
  <2> QED BY <1>2, <2>1, <2>2, <2>4, Zenon
<1>3. CASE before = {} /\ others # {}
  <2>1. PICK m \in others : m = Min(others) /\ \A y \in others : m <= y BY <1>1, <1>3, MinIs
  <2>2. m \in M /\ (c = 0 \/ m < c) BY <2>1
  <2>3. \A y \in M : m <= y
    <3> SUFFICES ASSUME NEW y \in M PROVE m <= y OBVIOUS
    <3>1. y > L BY <1>1, <1>3
    <3>2. CASE c = 0 \/ y < c BY <2>1, <3>1, <3>2
    <3>3. CASE ~(c = 0 \/ y < c) BY <1>1, <2>2, <3>3
    <3> QED BY <3>2, <3>3
  <2>4. Min(M) = m BY <1>1, <2>2, <2>3, MinUnique
  <2> QED BY <1>3, <2>1, <2>2, <2>4, Zenon
<1>4. CASE before = {} /\ others = {}
  <2>1. \A y \in M : c # 0 /\ c <= y BY <1>1, <1>4
  <2>2. CASE c = 0 BY <1>4, <2>1, <2>2, Zenon
  <2>3. CASE c # 0
    <3>1. Min(M) = c BY <1>1, <2>1, <2>3, MinUnique
    <3> QED BY <1>4, <2>3, <3>1, Zenon
  <2> QED BY <2>2, <2>3
<1> QED BY <1>2, <1>3, <1>4, Zenon

\* The search of select_outbound, index and short cuts included, finds the
\* first route that matches.
THEOREM SearchIsFirstMatch ==
  ASSUME RoutesOK, NEW t \in Targets
  PROVE  Search(t) = FirstMatch(t)
<1> DEFINE n == Len(routes)
           M == {r \in DOMAIN routes : Match(r, t, FALSE)}
           L == Leading(t)
           c == Candidate(t)
           before == {r \in 1 .. L : Match(r, t, TRUE)}
           limit  == IF c = 0 THEN n ELSE c - 1
           others == {r \in L + 1 .. limit : Match(r, t, Indexed(t))}
           named  == {r \in DOMAIN routes : DomainRules(r) # {}}
<1>1. FirstMatch(t) = Least(M) BY Zenon DEF FirstMatch, Least
<1>2. Search(t) = LeastOfParts(before, others, c) BY Zenon DEF Search, LeastOfParts
<1>3. DOMAIN routes = 1 .. n /\ n \in Nat BY RoutesType, Zenon
<1>4. \A r : r \in M <=> r \in 1 .. n /\ Match(r, t, FALSE) BY <1>3, Zenon
<1>5. \A r : r \in before <=> r \in 1 .. L /\ Match(r, t, TRUE) BY Zenon
<1>6. \A r : r \in others <=> r \in L + 1 .. limit /\ Match(r, t, Indexed(t)) BY Zenon
<1>7. limit = IF c = 0 THEN n ELSE c - 1 BY Zenon
<1>8. (L = 0 /\ c = 0) \/ Indexed(t)
  BY Zenon DEF Leading, Candidate
<1> HIDE DEF n, M, before, others, limit
<1>9. CASE ~Indexed(t)
  <2>1. L = 0 /\ c = 0 BY <1>8, <1>9, Zenon
  <2>2. Indexed(t) = FALSE BY <1>9 DEF Indexed
  <2>3. \A r : r \in before <=> r \in M /\ r <= L
    <3>1. \A r : r \notin 1 .. L BY <2>1
    <3>2. \A r \in 1 .. n : ~(r <= L) BY <1>3, <2>1
    <3> QED BY <1>4, <1>5, <3>1, <3>2, Zenon
  <2>4. \A r : r \in others <=> r \in 1 .. n /\ Match(r, t, FALSE)
    <3>1. L + 1 = 1 /\ limit = n BY <1>7, <2>1
    <3> QED BY <1>6, <2>2, <3>1, Zenon
  <2>5. \A r \in 1 .. n : r > L BY <1>3, <2>1
  <2>6. \A r : r \in others <=> r \in M /\ r > L /\ (c = 0 \/ r < c)
    BY <1>4, <2>1, <2>4, <2>5, Zenon
  <2>7. M \in SUBSET (1 .. n) BY <1>4, Zenon
  <2>8. L \in Nat /\ c \in 0 .. n BY <1>3, <2>1
  <2>9. c # 0 => c \in M /\ c > L BY <2>1, Zenon
  <2> HIDE DEF L, c
  <2>10. LeastOfParts(before, others, c) = Least(M)
    BY <1>3, <2>3, <2>6, <2>7, <2>8, <2>9, FirstOfParts, SMTT(20)
  <2> QED BY <1>1, <1>2, <2>10, Zenon
<1>10. CASE Indexed(t)
  <2>1. Indexed(t) = TRUE BY <1>10 DEF Indexed
  <2>2. named \in SUBSET Nat /\ named # {} BY <1>3, <1>10 DEF Indexed
  <2>3. Min(named) \in named /\ \A r \in named : Min(named) <= r BY <2>2, MinIs
  <2>4. L = Min(named) - 1 BY <1>10, Zenon DEF Leading
  <2>5. L \in Nat /\ L < n /\ \A r \in named : r > L
    <3> HIDE DEF L
    <3>1. Min(named) \in 1 .. n BY <1>3, <2>3
    <3>2. \A r \in named : r \in 1 .. n BY <1>3
    <3> HIDE DEF named
    <3> QED BY <1>3, <2>3, <2>4, <3>1, <3>2
  <2>6. c = IF DomainHits(t) = {} THEN 0 ELSE Min(DomainHits(t)) BY <1>10, CandidateIs
  <2>7. DomainHits(t) \in SUBSET (1 .. n) BY <1>3 DEF DomainHits
  <2>8. /\ c = 0 => DomainHits(t) = {}
        /\ c # 0 => c \in DomainHits(t) /\ \A r \in DomainHits(t) : c <= r
    <3> HIDE DEF c
    <3>1. DomainHits(t) \in SUBSET Nat /\ 0 \notin DomainHits(t) BY <1>3, <2>7
    <3> QED BY <2>6, <3>1, MinIs
  <2>9. \A r \in DomainHits(t) : r > L
    <3>1. DomainHits(t) \subseteq named BY Zenon DEF DomainHits
    <3> QED BY <2>5, <3>1, Zenon
  <2>10. \A r \in 1 .. n : r \in M <=> Match(r, t, TRUE) \/ r \in DomainHits(t)
    BY <1>3, <1>4, MatchSplit, Zenon
  <2> HIDE DEF L, c, named
  <2>11. M \in SUBSET (1 .. n) /\ c \in 0 .. n
    <3>1. M \in SUBSET (1 .. n) BY <1>4, Zenon
    <3> QED BY <1>3, <2>7, <2>8, <3>1
  <2>12. \A r : r \in before <=> r \in M /\ r <= L
    <3>1. ASSUME NEW r \in before PROVE r \in M /\ r <= L
      <4>0. r \in 1 .. L BY <1>5, <3>1, Zenon
      <4>1. r \in 1 .. n /\ r <= L BY <1>3, <2>5, <4>0
      <4> QED BY <1>5, <2>10, <4>1, Zenon
    <3>2. ASSUME NEW r \in M, r <= L PROVE r \in before
      <4>1. r \in 1 .. n /\ r \in 1 .. L /\ ~(r > L) BY <1>3, <2>5, <2>11, <3>2
      <4> QED BY <1>5, <2>9, <2>10, <4>1, Zenon
    <3> QED BY <3>1, <3>2, Zenon
  <2>13. \A r : r \in others <=> r \in M /\ r > L /\ (c = 0 \/ r < c)
    <3>1. ASSUME NEW r \in others PROVE r \in M /\ r > L /\ (c = 0 \/ r < c)
      <4>0. r \in L + 1 .. limit BY <1>6, <3>1, Zenon
      <4>1. r \in 1 .. n /\ r > L /\ (c = 0 \/ r < c) BY <1>3, <1>7, <2>5, <2>11, <4>0
      <4>2. Match(r, t, TRUE) BY <1>6, <2>1, Zenon
      <4> QED BY <2>10, <4>1, <4>2, Zenon
    <3>2. ASSUME NEW r \in M, r > L, c = 0 \/ r < c PROVE r \in others
      <4>1. r \in 1 .. n /\ r \in L + 1 .. limit
        BY <1>3, <1>7, <2>5, <2>11, <3>2
      <4>2. r \notin DomainHits(t) BY <2>7, <2>8, <2>11, <3>2, <4>1
      <4> QED BY <1>6, <2>1, <2>10, <4>1, <4>2, Zenon
    <3> QED BY <3>1, <3>2, Zenon
  <2>14. c # 0 => c \in M /\ c > L BY <2>7, <2>8, <2>9, <2>10, Zenon
  <2>15. LeastOfParts(before, others, c) = Least(M)
    BY <1>3, <2>5, <2>11, <2>12, <2>13, <2>14, FirstOfParts, SMTT(20)
  <2> QED BY <1>1, <1>2, <2>15, Zenon
<1> QED BY <1>9, <1>10

----------------------------------------------------------------------------
(* The inductive invariant.                                                *)

\* What the cache of routes may hold.
Good == {e \in [target : Targets, route : Nat] : e.route = FirstMatch(e.target)}

\* What is promised of a decision.
Promised(t, command, out, before) ==
  IF Allowed(command, t) = {} THEN out = None
  ELSE /\ out \in Allowed(command, t)
       /\ before \in Allowed(command, t) => out = before

\* The session's last decision is one of the first matching route, and the
\* outbound in use is that of the decision, if there is one.
RecentOK ==
  recent.target # None =>
    IF Allowed(recent.command, recent.target) = {} THEN recent.outbound = None
    ELSE /\ recent.outbound \in Allowed(recent.command, recent.target)
         /\ outbound = None \/ outbound = recent.outbound

\* Only datagrams make an association.
AssocOK == AssociationMatches /\ (assoc # None => recent.command = "associate")

IInv == RoutesOK /\ cache \in Seq(Good) /\ RecentOK /\ AssocOK /\ RoutedByFirstMatch

LEMMA FirstMatchType ==
  ASSUME RoutesOK, NEW t
  PROVE  FirstMatch(t) \in Nat /\ (FirstMatch(t) # 0 => FirstMatch(t) \in 1 .. MaxRoutes)
<1> DEFINE M == {r \in DOMAIN routes : Match(r, t, FALSE)}
<1>1. FirstMatch(t) = IF M = {} THEN 0 ELSE Min(M) BY Zenon DEF FirstMatch
<1>2. M \in SUBSET (1 .. Len(routes)) /\ Len(routes) \in Nat BY RoutesType
<1>3. Len(routes) <= MaxRoutes /\ MaxRoutes \in Nat BY ConstantsAssumption DEF RoutesOK
<1> HIDE DEF M
<1>4. M \in SUBSET Nat BY <1>2
<1>5. M # {} => Min(M) \in 1 .. Len(routes) BY <1>2, <1>4, MinIs
<1> QED BY <1>1, <1>2, <1>3, <1>5

\* No outbound is none of those a route offers.
LEMMA AllowedType ==
  ASSUME RoutesOK, NEW command, NEW t
  PROVE  None \notin Allowed(command, t)
<1>1. FirstMatch(t) # 0 => OutboundsOf[FirstMatch(t)] \subseteq Outbounds
  BY FirstMatchType, ConstantsAssumption
<1>2. None \notin Outbounds BY ConstantsAssumption
<1> QED BY <1>1, <1>2, Zenon DEF Allowed, Usable

\* select_route_outbound keeps the promise for the first matching route.
LEMMA OfferedIsPromised ==
  ASSUME NEW command, NEW t, NEW out \in Offered(FirstMatch(t), command, t)
  PROVE  Promised(t, command, out, outbound)
BY Zenon DEF Offered, Promised, Allowed

\* What a route decides does not change while a server runs.
LEMMA RoutesStay ==
  ASSUME routes' = routes
  PROVE  /\ RoutesOK' <=> RoutesOK
         /\ Good' = Good
         /\ \A t, command : Allowed(command, t)' = Allowed(command, t)
<1>1. \A r : DomainRules(r)' = DomainRules(r) /\ OtherRules(r)' = OtherRules(r)
  BY Zenon DEF DomainRules, OtherRules
<1>2. ASSUME NEW t PROVE FirstMatch(t)' = FirstMatch(t)
  BY <1>1, Zenon DEF FirstMatch, Match
<1> QED BY <1>2, Zenon DEF RoutesOK, Good, Allowed

\* Using an entry again keeps the entries.
LEMMA TouchedType ==
  ASSUME NEW G, cache \in Seq(G), NEW t, Entry(t) # {}
  PROVE  /\ Touched(t) \in Seq(G)
         /\ Min(Entry(t)) \in DOMAIN cache /\ cache[Min(Entry(t))].target = t
         /\ cache[Min(Entry(t))] \in G
<1> DEFINE i == Min(Entry(t))
<1>1. DOMAIN cache = 1 .. Len(cache) /\ Len(cache) \in Nat BY LenProperties, Zenon
<1>2. Entry(t) \in SUBSET Nat BY <1>1 DEF Entry
<1>3. i \in Entry(t) BY <1>2, MinIs
<1>4. i \in 1 .. Len(cache) /\ cache[i].target = t BY <1>1, <1>3, Zenon DEF Entry
<1>5. cache[i] \in G BY <1>4, ElementOfSeq, Zenon
<1>6. Touched(t) = Append(SubSeq(cache, 1, i - 1) \o SubSeq(cache, i + 1, Len(cache)), cache[i])
  BY Zenon DEF Touched, RemoveAt
<1> HIDE DEF i
<1>7. /\ SubSeq(cache, 1, i - 1) \in Seq(G)
      /\ SubSeq(cache, i + 1, Len(cache)) \in Seq(G)
  <2>1. \A j \in 1 .. i - 1 : cache[j] \in G BY <1>1, <1>4, ElementOfSeq
  <2>2. \A j \in i + 1 .. Len(cache) : cache[j] \in G BY <1>1, <1>4, ElementOfSeq
  <2>3. 1 \in Int /\ i - 1 \in Int /\ i + 1 \in Int /\ Len(cache) \in Int BY <1>1, <1>4
  <2> QED BY <2>1, <2>2, <2>3, SubSeqProperties, Zenon
<1>8. Append(SubSeq(cache, 1, i - 1) \o SubSeq(cache, i + 1, Len(cache)), cache[i]) \in Seq(G)
  BY <1>5, <1>7
<1> QED BY <1>1, <1>4, <1>5, <1>6, <1>8, Zenon DEF i

LEMMA StoredType ==
  ASSUME NEW G, cache \in Seq(G), NEW t, NEW r, [target |-> t, route |-> r] \in G
  PROVE  Stored(t, r) \in Seq(G)
<1>1. RouteWays \in Nat \ {0} BY ConstantsAssumption
<1>2. Len(cache) = RouteWays => Tail(cache) \in Seq(G) BY <1>1
<1> QED BY <1>2 DEF Stored

\* A decision is the promised one wherever it comes from, and becomes the
\* last decision of the session.
LEMMA SelectDecides ==
  ASSUME IInv, NEW t \in Targets, NEW command, NEW out, Select(t, command, out)
  PROVE  /\ Promised(t, command, out, outbound)
         /\ cache' \in Seq(Good)
         /\ recent'.target = t /\ recent'.command = command /\ recent'.outbound = out
         /\ chosen' = [target |-> t, command |-> command, outbound |-> out,
                       before |-> outbound]
         /\ routes' = routes
<1> USE DEF IInv
<1>1. t # None BY ConstantsAssumption
<1>2. chosen' = [target |-> t, command |-> command, outbound |-> out, before |-> outbound]
  BY Zenon DEF Select
<1>3. routes' = routes BY Zenon DEF Select
<1>4. CASE recent.target = t /\ recent.command = command
  <2>1. out = recent.outbound /\ cache' = cache /\ recent' = recent
    BY <1>4, Zenon DEF Select
  <2>2. None \notin Allowed(command, t) BY AllowedType
  <2>3. Promised(t, command, out, outbound)
    BY <1>1, <1>4, <2>1, <2>2, Zenon DEF RecentOK, Promised
  <2> QED BY <1>2, <1>3, <1>4, <2>1, <2>3, Zenon
<1>5. CASE ~(recent.target = t /\ recent.command = command)
  <2>1. recent' = [target |-> t, command |-> command, outbound |-> out]
    BY <1>5, Zenon DEF Select
  <2>2. recent'.target = t /\ recent'.command = command /\ recent'.outbound = out BY <2>1
  <2>3. out \in Offered(FirstMatch(t), command, t) /\ cache' \in Seq(Good)
    <3>1. CASE Entry(t) # {}
      <4>1. /\ out \in Offered(cache[Min(Entry(t))].route, command, t)
            /\ cache' = Touched(t)
        BY <1>5, <3>1, Zenon DEF Select
      <4>2. /\ Touched(t) \in Seq(Good) /\ cache[Min(Entry(t))].target = t
            /\ cache[Min(Entry(t))] \in Good
        BY <3>1, TouchedType, Zenon
      <4>3. cache[Min(Entry(t))].route = FirstMatch(t) BY <4>2, Zenon DEF Good
      <4> QED BY <4>1, <4>2, <4>3, Zenon
    <3>2. CASE Entry(t) = {}
      <4>1. out \in Offered(Search(t), command, t) /\ cache' = Stored(t, Search(t))
        BY <1>5, <3>2, Zenon DEF Select
      <4>2. Search(t) = FirstMatch(t) BY SearchIsFirstMatch, Zenon
      <4>3. [target |-> t, route |-> FirstMatch(t)] \in Good BY FirstMatchType DEF Good
      <4>4. Stored(t, FirstMatch(t)) \in Seq(Good) BY <4>3, StoredType, Zenon
      <4> QED BY <4>1, <4>2, <4>4, Zenon
    <3> QED BY <3>1, <3>2
  <2>4. Promised(t, command, out, outbound) BY <2>3, OfferedIsPromised, Zenon
  <2> QED BY <1>2, <1>3, <2>2, <2>3, <2>4, Zenon
<1> QED BY <1>4, <1>5

----------------------------------------------------------------------------
(* The theorems.                                                           *)

LEMMA InitInv == Init => IInv
<1> SUFFICES ASSUME Init PROVE IInv OBVIOUS
<1>1. PICK k \in 1 .. MaxRoutes : routes \in [1 .. k -> SUBSET Rules]
  <2>1. PICK k \in 1 .. MaxRoutes :
          routes \in [1 .. k -> UNION {kSubset(j, Rules) : j \in 1 .. MaxRules}]
    BY Zenon DEF Init
  <2>2. UNION {kSubset(j, Rules) : j \in 1 .. MaxRules} \subseteq SUBSET Rules
    BY Zenon DEF kSubset
  <2> QED BY <2>1, <2>2
<1>2. RoutesOK
  <2>1. MaxRoutes \in Nat BY ConstantsAssumption
  <2> QED BY <1>1, <2>1 DEF RoutesOK
<1>3. cache \in Seq(Good) BY EmptySeq, Zenon DEF Init
<1>4. recent = NoDecision /\ recent.target = None /\ assoc = None /\ chosen.target = None
  BY DEF Init, NoDecision
<1> QED BY <1>2, <1>3, <1>4, Zenon
        DEF IInv, RecentOK, AssocOK, AssociationMatches, RoutedByFirstMatch

LEMMA StepInv == IInv /\ [Next]_vars => IInv'
<1> SUFFICES ASSUME IInv, [Next]_vars PROVE IInv' OBVIOUS
<1> USE DEF IInv
\* What a decision does to the parts about decisions, if the outbound in use
\* is then the decided one, or none, or stays when there is no outbound.
<1>1. ASSUME NEW t \in Targets, NEW command, NEW out, Select(t, command, out),
             out # None => outbound' \in {None, out}
      PROVE  RoutesOK' /\ (cache \in Seq(Good))' /\ RecentOK' /\ RoutedByFirstMatch'
  <2>1. /\ Promised(t, command, out, outbound) /\ cache' \in Seq(Good)
        /\ recent'.target = t /\ recent'.command = command /\ recent'.outbound = out
        /\ chosen' = [target |-> t, command |-> command, outbound |-> out,
                      before |-> outbound]
        /\ routes' = routes
    BY <1>1, SelectDecides, Zenon
  <2>2. /\ RoutesOK' <=> RoutesOK
        /\ Good' = Good
        /\ \A u, w : Allowed(w, u)' = Allowed(w, u)
    BY <2>1, RoutesStay, Zenon
  <2>3. /\ chosen'.target = t /\ chosen'.command = command
        /\ chosen'.outbound = out /\ chosen'.before = outbound
    BY <2>1
  <2>4. None \notin Allowed(command, t) BY AllowedType
  <2>5. RoutedByFirstMatch' BY <2>1, <2>2, <2>3, Zenon DEF RoutedByFirstMatch, Promised, Allowed
  <2>6. RecentOK' BY <1>1, <2>1, <2>2, <2>4, Zenon DEF RecentOK, Promised
  <2> QED BY <2>1, <2>2, <2>5, <2>6, Zenon
<1>2. CASE UNCHANGED vars
  BY <1>2, Zenon DEF vars, RoutesOK, Good, RecentOK, AssocOK, AssociationMatches,
       RoutedByFirstMatch, Allowed, FirstMatch, Match, DomainRules, OtherRules
<1>3. CASE NewSession
  <2>1. /\ routes' = routes /\ cache' = cache /\ recent' = NoDecision
        /\ assoc' = None /\ chosen' = [target |-> None]
    BY <1>3, Zenon DEF NewSession
  <2>2. recent'.target = None /\ chosen'.target = None BY <2>1 DEF NoDecision
  <2>3. RoutesOK' /\ Good' = Good BY <2>1, RoutesStay, Zenon
  <2> QED BY <2>1, <2>2, <2>3, Zenon
          DEF RecentOK, AssocOK, AssociationMatches, RoutedByFirstMatch
<1>4. ASSUME NEW t \in Targets, Connects(t) PROVE IInv'
  <2>1. PICK out \in Outbounds \cup {None} :
          Select(t, "connect", out) /\ outbound' = out /\ assoc' = assoc
    BY <1>4, Zenon DEF Connects
  <2>2. RoutesOK' /\ (cache \in Seq(Good))' /\ RecentOK' /\ RoutedByFirstMatch'
    BY <1>1, <2>1, Zenon
  <2>3. recent.command # "associate" BY <1>4 DEF Connects, NoDecision
  <2>4. assoc' = None BY <2>1, <2>3, Zenon DEF AssocOK
  <2> QED BY <2>2, <2>4, Zenon DEF AssocOK, AssociationMatches
<1>5. ASSUME NEW t \in Targets, StreamOpens(t) PROVE IInv'
  <2>1. PICK out \in Outbounds \cup {None} : Select(t, "connect", out)
    BY <1>5, Zenon DEF StreamOpens
  <2>2. outbound' = None /\ assoc' = assoc BY <1>5, Zenon DEF StreamOpens
  <2>3. RoutesOK' /\ (cache \in Seq(Good))' /\ RecentOK' /\ RoutedByFirstMatch'
    BY <1>1, <2>1, <2>2, Zenon
  <2>4. recent.command # "associate" BY <1>5 DEF StreamOpens
  <2>5. assoc' = None BY <2>2, <2>4, Zenon DEF AssocOK
  <2> QED BY <2>3, <2>5, Zenon DEF AssocOK, AssociationMatches
<1>6. ASSUME NEW t \in Targets, Datagram(t) PROVE IInv'
  <2>1. PICK out \in Outbounds \cup {None} :
          /\ Select(t, "associate", out)
          /\ IF out = None THEN outbound' = outbound /\ assoc' = assoc
             ELSE /\ outbound' = out
                  /\ assoc' = IF Resets(out) = None /\ out \in Socks5 THEN out
                              ELSE Resets(out)
    BY <1>6, Zenon DEF Datagram
  <2>2. RoutesOK' /\ (cache \in Seq(Good))' /\ RecentOK' /\ RoutedByFirstMatch'
    BY <1>1, <2>1, Zenon
  <2>3. recent'.command = "associate" BY <2>1, SelectDecides, Zenon
  <2>4. AssociationMatches'
    BY <2>1, Zenon DEF AssocOK, AssociationMatches, Resets
  <2> QED BY <2>2, <2>3, <2>4, Zenon DEF AssocOK
<1> QED BY <1>2, <1>3, <1>4, <1>5, <1>6, Zenon DEF Next

\* Every decision, from the index, the shared cache or the session's last
\* one, is that of the first matching route of the list.
THEOREM RoutingByFirstMatch == Spec => []RoutedByFirstMatch
<1>1. IInv => RoutedByFirstMatch BY DEF IInv
<1> QED BY InitInv, StepInv, <1>1, PTL DEF Spec

\* Datagrams meant for a SOCKS5 server use the association with that server.
THEOREM AssociationIsCurrent == Spec => []AssociationMatches
<1>1. IInv => AssociationMatches BY DEF IInv, AssocOK
<1> QED BY InitInv, StepInv, <1>1, PTL DEF Spec

----------------------------------------------------------------------------
(* Names, and what they end with.                                          *)

Hosts == Seq(Letters)

\* m is what s ends with.
Ends(m, s) == Len(m) <= Len(s) /\ \A i \in 1 .. Len(m) : m[i] = s[Len(s) - Len(m) + i]

LEMMA HostFacts ==
  /\ <<>> \in Hosts /\ Len(<<>>) = 0
  /\ \A s \in Hosts : /\ Len(s) \in Nat /\ DOMAIN s = 1 .. Len(s)
                      /\ \A i \in 1 .. Len(s) : s[i] \in Letters
                      /\ (s = <<>> <=> Len(s) = 0)
  /\ \A s, t \in Hosts : Len(s) = Len(t) /\ (\A i \in 1 .. Len(s) : s[i] = t[i]) => s = t
<1>1. \A s \in Hosts : /\ Len(s) \in Nat /\ DOMAIN s = 1 .. Len(s)
                       /\ \A i \in 1 .. Len(s) : s[i] \in Letters
  BY LenProperties, ElementOfSeq, Zenon DEF Hosts
<1>2. \A s, t \in Hosts : Len(s) = Len(t) /\ (\A i \in 1 .. Len(s) : s[i] = t[i]) => s = t
  BY SeqEqual, Zenon DEF Hosts
<1>3. \A s \in Hosts : s = <<>> <=> Len(s) = 0 BY EmptySeq, Zenon DEF Hosts
<1>4. <<>> \in Hosts /\ Len(<<>>) = 0 BY EmptySeq, Zenon DEF Hosts
<1> QED BY <1>1, <1>2, <1>3, <1>4

LEMMA Appended ==
  ASSUME NEW s \in Hosts, NEW c \in Letters
  PROVE  /\ Append(s, c) \in Hosts /\ Len(Append(s, c)) = Len(s) + 1
         /\ Append(s, c)[Len(s) + 1] = c
         /\ \A i \in 1 .. Len(s) : Append(s, c)[i] = s[i]
BY AppendProperties DEF Hosts

LEMMA FrontFacts ==
  ASSUME NEW s \in Hosts, s # <<>>
  PROVE  /\ Front(s) \in Hosts /\ Len(Front(s)) = Len(s) - 1 /\ Last(s) \in Letters
         /\ Last(s) = s[Len(s)]
         /\ \A i \in 1 .. Len(s) - 1 : Front(s)[i] = s[i]
         /\ Append(Front(s), Last(s)) = s
<1> DEFINE n == Len(s)
<1>1. n \in Nat \ {0} /\ \A i \in 1 .. n : s[i] \in Letters BY HostFacts
<1>2. Front(s) = SubSeq(s, 1, n - 1) /\ Last(s) = s[n] BY DEF Front, Last
<1>3. /\ SubSeq(s, 1, n - 1) \in Hosts /\ Len(SubSeq(s, 1, n - 1)) = n - 1
      /\ \A i \in 1 .. n - 1 : SubSeq(s, 1, n - 1)[i] = s[i]
  <2>1. s \in [1 .. n -> Letters] BY LenProperties DEF Hosts
  <2> QED BY <1>1, <2>1 DEF Hosts
<1>4. Last(s) \in Letters BY <1>1, <1>2
<1>5. PICK f \in Hosts : f = Front(s) /\ Len(f) = n - 1 /\ \A i \in 1 .. n - 1 : f[i] = s[i]
  BY <1>2, <1>3
<1>6. PICK a \in Hosts : /\ a = Append(f, Last(s)) /\ Len(a) = n /\ a[n] = s[n]
                         /\ \A i \in 1 .. n - 1 : a[i] = f[i]
  <2>1. /\ Append(f, Last(s)) \in Hosts /\ Len(Append(f, Last(s))) = Len(f) + 1
        /\ Append(f, Last(s))[Len(f) + 1] = Last(s)
        /\ \A i \in 1 .. Len(f) : Append(f, Last(s))[i] = f[i]
    BY <1>4, Appended
  <2>2. Len(f) + 1 = n /\ Len(f) = n - 1 BY <1>1, <1>5
  <2> QED BY <1>2, <2>1, <2>2
<1>7. \A i \in 1 .. n : a[i] = s[i] BY <1>1, <1>5, <1>6
<1>8. a = s BY <1>6, <1>7, HostFacts
<1> QED BY <1>2, <1>4, <1>5, <1>6, <1>8

LEMMA PartFacts ==
  ASSUME NEW s \in Hosts, NEW i \in 1 .. Len(s) + 1, NEW j \in i - 1 .. Len(s)
  PROVE  /\ SubSeq(s, i, j) \in Hosts /\ Len(SubSeq(s, i, j)) = j - i + 1
         /\ \A x \in 1 .. j - i + 1 : SubSeq(s, i, j)[x] = s[i + x - 1]
<1>1. Len(s) \in Nat /\ i \in Nat /\ j \in Int /\ i - 1 <= j /\ j <= Len(s) BY HostFacts
<1> QED BY <1>1 DEF Hosts

LEMMA EndsBasic ==
  ASSUME NEW a \in Hosts, NEW b \in Hosts, NEW s \in Hosts
  PROVE  /\ Ends(s, s) /\ Ends(<<>>, s)
         /\ Ends(a, b) /\ Ends(b, s) => Ends(a, s)
         /\ Ends(a, s) /\ Ends(b, s) /\ Len(a) <= Len(b) => Ends(a, b)
         /\ Ends(a, b) /\ Len(a) = Len(b) => a = b
<1>0. Len(a) \in Nat /\ Len(b) \in Nat /\ Len(s) \in Nat /\ Len(<<>>) = 0 BY HostFacts
<1>1. Ends(s, s) /\ Ends(<<>>, s) BY <1>0 DEF Ends
<1>2. ASSUME Ends(a, b), Ends(b, s) PROVE Ends(a, s)
  <2>1. ASSUME NEW i \in 1 .. Len(a) PROVE a[i] = s[Len(s) - Len(a) + i]
    <3>1. PICK j \in 1 .. Len(b) : j = Len(b) - Len(a) + i BY <1>0, <1>2 DEF Ends
    <3>2. a[i] = b[j] /\ b[j] = s[Len(s) - Len(b) + j] BY <1>2, <3>1 DEF Ends
    <3>3. Len(s) - Len(b) + j = Len(s) - Len(a) + i BY <1>0, <3>1
    <3> QED BY <3>2, <3>3
  <2> QED BY <1>0, <1>2, <2>1 DEF Ends
<1>3. ASSUME Ends(a, s), Ends(b, s), Len(a) <= Len(b) PROVE Ends(a, b)
  <2>1. ASSUME NEW i \in 1 .. Len(a) PROVE a[i] = b[Len(b) - Len(a) + i]
    <3>1. PICK j \in 1 .. Len(b) : j = Len(b) - Len(a) + i BY <1>0, <1>3
    <3>2. a[i] = s[Len(s) - Len(a) + i] /\ b[j] = s[Len(s) - Len(b) + j] BY <1>3 DEF Ends
    <3>3. Len(s) - Len(b) + j = Len(s) - Len(a) + i BY <1>0, <3>1
    <3> QED BY <3>1, <3>2, <3>3
  <2> QED BY <1>3, <2>1 DEF Ends
<1>4. ASSUME Ends(a, b), Len(a) = Len(b) PROVE a = b
  <2>1. \A i \in 1 .. Len(a) : a[i] = b[i] BY <1>0, <1>4 DEF Ends
  <2> QED BY <1>4, <2>1, HostFacts
<1> QED BY <1>1, <1>2, <1>3, <1>4

\* One character more.
LEMMA EndsMore ==
  ASSUME NEW m \in Hosts, NEW s \in Hosts, NEW c \in Letters, Ends(m, s)
  PROVE  Ends(Append(m, c), Append(s, c))
<1>1. PICK a \in Hosts : /\ a = Append(m, c) /\ Len(a) = Len(m) + 1 /\ a[Len(m) + 1] = c
                         /\ \A i \in 1 .. Len(m) : a[i] = m[i]
  BY Appended
<1>2. PICK b \in Hosts : /\ b = Append(s, c) /\ Len(b) = Len(s) + 1 /\ b[Len(s) + 1] = c
                         /\ \A i \in 1 .. Len(s) : b[i] = s[i]
  BY Appended
<1>3. Len(m) \in Nat /\ Len(s) \in Nat /\ Len(m) <= Len(s) BY HostFacts DEF Ends
<1>4. ASSUME NEW i \in 1 .. Len(m) + 1 PROVE a[i] = b[Len(s) - Len(m) + i]
  <2>1. CASE i = Len(m) + 1
    <3>1. Len(s) - Len(m) + i = Len(s) + 1 BY <1>3, <2>1
    <3> QED BY <1>1, <1>2, <2>1, <3>1
  <2>2. CASE i \in 1 .. Len(m)
    <3>1. PICK j \in 1 .. Len(s) : j = Len(s) - Len(m) + i BY <1>3, <2>2
    <3>2. m[i] = s[j] BY <2>2, <3>1 DEF Ends
    <3> QED BY <1>1, <1>2, <2>2, <3>1, <3>2
  <2> QED BY <1>3, <2>1, <2>2
<1>5. Len(b) - Len(a) = Len(s) - Len(m) /\ Len(a) <= Len(b) BY <1>1, <1>2, <1>3
<1>6. Ends(a, b) BY <1>1, <1>4, <1>5 DEF Ends
<1> QED BY <1>1, <1>2, <1>6

\* One character less.
LEMMA EndsLess ==
  ASSUME NEW p \in Hosts, p # <<>>, NEW s \in Hosts, NEW c \in Letters, Ends(p, Append(s, c))
  PROVE  Last(p) = c /\ Ends(Front(p), s) /\ p = Append(Front(p), c)
<1>1. PICK f \in Hosts : /\ f = Front(p) /\ Len(f) = Len(p) - 1 /\ Append(f, Last(p)) = p
                         /\ Last(p) = p[Len(p)]
                         /\ \A i \in 1 .. Len(p) - 1 : f[i] = p[i]
  BY FrontFacts
<1>2. PICK b \in Hosts : /\ b = Append(s, c) /\ Len(b) = Len(s) + 1 /\ b[Len(s) + 1] = c
                         /\ \A i \in 1 .. Len(s) : b[i] = s[i]
  BY Appended
<1>3. Len(p) \in Nat \ {0} /\ Len(s) \in Nat BY HostFacts
<1>4. Len(p) <= Len(s) + 1 /\ \A i \in 1 .. Len(p) : p[i] = b[Len(s) + 1 - Len(p) + i]
  <2>1. Ends(p, b) BY <1>2
  <2>2. Len(p) <= Len(b) /\ \A i \in 1 .. Len(p) : p[i] = b[Len(b) - Len(p) + i]
    BY <2>1 DEF Ends
  <2>3. PICK k \in Nat : k = Len(b) /\ k = Len(s) + 1 BY <1>2, <1>3
  <2>4. Len(p) <= k /\ \A i \in 1 .. Len(p) : p[i] = b[k - Len(p) + i] BY <2>2, <2>3
  <2> QED BY <2>3, <2>4
<1>5. Last(p) = c
  <2>1. PICK n \in 1 .. Len(p) : n = Len(p) BY <1>3
  <2>2. p[n] = b[Len(s) + 1 - Len(p) + n] /\ Len(s) + 1 - Len(p) + n = Len(s) + 1 BY <1>3, <1>4, <2>1
  <2> QED BY <1>1, <1>2, <2>1, <2>2
<1>6. ASSUME NEW i \in 1 .. Len(f) PROVE f[i] = s[Len(s) - Len(f) + i]
  <2>0. Len(f) \in Nat /\ Len(f) <= Len(s) BY <1>1, <1>3, <1>4
  <2>1. PICK j \in 1 .. Len(s) : j = Len(s) - Len(f) + i
    <3>1. Len(s) - Len(f) + i \in 1 .. Len(s) BY <1>3, <2>0
    <3> QED BY <3>1
  <2>2. i \in 1 .. Len(p) /\ Len(s) + 1 - Len(p) + i = j BY <1>1, <1>3, <2>1
  <2>3. f[i] = p[i] /\ p[i] = b[j] /\ b[j] = s[j] BY <1>1, <1>2, <1>3, <1>4, <2>1, <2>2
  <2> QED BY <2>1, <2>3
<1>7. Len(f) <= Len(s) BY <1>1, <1>3, <1>4
<1> QED BY <1>1, <1>5, <1>6, <1>7 DEF Ends

----------------------------------------------------------------------------
(* The trie of keywords.                                                   *)

\* What the reader of the file lets in.
ListOK == ListIsRead(domains)

LEMMA NodeFacts ==
  ASSUME ListOK
  PROVE  /\ \A n \in Nodes : n \in Hosts /\ <<>> \in Nodes
         /\ \A n \in Nodes : n # <<>> => Front(n) \in Nodes
         /\ \A d \in OfType("plain") : d.value \in Nodes /\ d.value \in Hosts \ {<<>>}
<1>1. \A d \in OfType("plain") : d.value \in Hosts \ {<<>>} BY DEF ListOK, ListIsRead, OfType, Hosts
<1>2. \A n : n \in Nodes <=> \E d \in OfType("plain") : \E k \in 0 .. Len(d.value) :
                               n = SubSeq(d.value, 1, k)
  <2> DEFINE row(d) == {SubSeq(d.value, 1, k) : k \in 0 .. Len(d.value)}
  <2>1. Nodes = UNION {row(d) : d \in OfType("plain")} BY DEF Nodes
  <2>2. \A n, d : n \in row(d) <=> \E k \in 0 .. Len(d.value) : n = SubSeq(d.value, 1, k) OBVIOUS
  <2> HIDE DEF row
  <2>3. \A n : n \in Nodes <=> \E d \in OfType("plain") : n \in row(d) BY <2>1
  <2> QED BY <2>2, <2>3
<1>3. ASSUME NEW d \in OfType("plain"), NEW k \in 0 .. Len(d.value)
      PROVE  /\ SubSeq(d.value, 1, k) \in Hosts /\ Len(SubSeq(d.value, 1, k)) = k
             /\ \A x \in 1 .. k : SubSeq(d.value, 1, k)[x] = d.value[x]
  <2>1. PICK v \in Hosts : v = d.value BY <1>1
  <2>2. Len(v) \in Nat BY HostFacts
  <2>3. PICK i \in 1 .. Len(v) + 1 : i = 1 BY <2>2
  <2>4. k \in i - 1 .. Len(v) /\ k - i + 1 = k BY <2>1, <2>2, <2>3
  <2>5. /\ SubSeq(v, i, k) \in Hosts /\ Len(SubSeq(v, i, k)) = k - i + 1
        /\ \A x \in 1 .. k - i + 1 : SubSeq(v, i, k)[x] = v[i + x - 1]
    BY <2>4, PartFacts
  <2>6. \A x \in 1 .. k : i + x - 1 = x BY <2>3
  <2> QED BY <2>1, <2>3, <2>4, <2>5, <2>6
<1>4. ASSUME NEW n \in Nodes PROVE n \in Hosts /\ <<>> \in Nodes
  <2>0. PICK d \in OfType("plain") : \E k \in 0 .. Len(d.value) : n = SubSeq(d.value, 1, k) BY <1>2
  <2>1. PICK k \in 0 .. Len(d.value) : n = SubSeq(d.value, 1, k) BY <2>0
  <2>2. PICK v \in Hosts : v = d.value BY <1>1
  <2>3. Len(v) \in Nat BY HostFacts
  <2>4. PICK z \in 0 .. Len(d.value) : z = 0 BY <2>2, <2>3
  <2>5. SubSeq(d.value, 1, z) \in Hosts /\ Len(SubSeq(d.value, 1, z)) = 0 BY <1>3, <2>4
  <2>6. SubSeq(d.value, 1, z) = <<>> BY <2>5, HostFacts
  <2> QED BY <1>2, <1>3, <2>1, <2>6
<1>5. ASSUME NEW n \in Nodes, n # <<>> PROVE Front(n) \in Nodes
  <2>0. PICK d \in OfType("plain") : \E k \in 0 .. Len(d.value) : n = SubSeq(d.value, 1, k) BY <1>2
  <2>1. PICK k \in 0 .. Len(d.value) : n = SubSeq(d.value, 1, k) BY <2>0
  <2>2. n \in Hosts /\ Len(n) = k /\ \A x \in 1 .. k : n[x] = d.value[x] BY <1>3, <2>1
  <2>3. k # 0 BY <1>5, <2>2, HostFacts
  <2>4. PICK l \in 0 .. Len(d.value) : l = k - 1
    <3>1. PICK v \in Hosts : v = d.value BY <1>1
    <3>2. Len(v) \in Nat BY HostFacts
    <3>3. k - 1 \in 0 .. Len(d.value) BY <2>3, <3>1, <3>2
    <3> QED BY <3>3
  <2>5. PICK f : f = SubSeq(d.value, 1, l) /\ f \in Hosts /\ Len(f) = l
                 /\ \A x \in 1 .. l : f[x] = d.value[x]
    <3>1. /\ SubSeq(d.value, 1, l) \in Hosts /\ Len(SubSeq(d.value, 1, l)) = l
          /\ \A x \in 1 .. l : SubSeq(d.value, 1, l)[x] = d.value[x]
      BY <1>3
    <3> QED BY <3>1, Zenon
  <2>6. Front(n) \in Hosts /\ Len(Front(n)) = l /\ \A x \in 1 .. l : Front(n)[x] = n[x]
    BY <1>5, <2>2, <2>4, FrontFacts
  <2>7. \A x \in 1 .. l : x \in 1 .. k BY <2>4
  <2>8. Front(n) = f BY <2>2, <2>5, <2>6, <2>7, HostFacts
  <2> QED BY <1>2, <2>5, <2>8
<1>6. ASSUME NEW d \in OfType("plain") PROVE d.value \in Nodes
  <2>1. PICK v \in Hosts : v = d.value BY <1>1
  <2>2. Len(v) \in Nat BY HostFacts
  <2>3. PICK k \in 0 .. Len(d.value) : k = Len(v) BY <2>1, <2>2
  <2>4. PICK f : f = SubSeq(d.value, 1, k) /\ f \in Hosts /\ Len(f) = k
                 /\ \A x \in 1 .. k : f[x] = d.value[x]
    <3>1. /\ SubSeq(d.value, 1, k) \in Hosts /\ Len(SubSeq(d.value, 1, k)) = k
          /\ \A x \in 1 .. k : SubSeq(d.value, 1, k)[x] = d.value[x]
      BY <1>3
    <3> QED BY <3>1, Zenon
  <2>5. f = v BY <2>1, <2>3, <2>4, HostFacts
  <2> QED BY <1>2, <2>1, <2>4, <2>5
<1> QED BY <1>1, <1>4, <1>5, <1>6

\* The longest node of at most k characters that s ends with.
Best(s, k, m) ==
  /\ m \in Nodes /\ Ends(m, s) /\ Len(m) <= k
  /\ \A p \in Nodes : Ends(p, s) /\ Len(p) <= k => Len(p) <= Len(m)

LEMMA BestIsOne ==
  ASSUME ListOK, NEW s \in Hosts, NEW k, NEW m, Best(s, k, m), NEW r, Best(s, k, r)
  PROVE  m = r
<1>1. /\ m \in Hosts /\ r \in Hosts /\ Ends(m, s) /\ Ends(r, s)
      /\ Len(m) <= Len(r) /\ Len(r) <= Len(m)
  BY NodeFacts DEF Best
<1>2. Len(m) \in Nat /\ Len(r) \in Nat BY <1>1, HostFacts
<1>3. Len(m) = Len(r) BY <1>1, <1>2
<1> QED BY <1>1, <1>3, EndsBasic

LEMMA BestThere ==
  ASSUME ListOK, <<>> \in Nodes, NEW s \in Hosts, NEW k \in Nat
  PROVE  \E m : Best(s, k, m)
<1> DEFINE P == {p \in Nodes : Ends(p, s) /\ Len(p) <= k}
           S == {k - Len(p) : p \in P}
<1>1. \A p \in P : p \in Nodes /\ p \in Hosts /\ Len(p) \in Nat /\ Len(p) <= k
  BY NodeFacts, HostFacts
<1>2. S \in SUBSET Nat
  <2>1. \A p \in P : k - Len(p) \in Nat BY <1>1
  <2> QED BY <2>1
<1>3. <<>> \in P BY EndsBasic, HostFacts
<1>4. S # {} BY <1>3
<1>5. PICK n \in S : \A x \in S : n <= x BY <1>2, <1>4, LeastNumber
<1>6. PICK m \in P : n = k - Len(m) BY <1>5
<1>7. ASSUME NEW p \in P PROVE Len(p) <= Len(m)
  <2>1. k - Len(p) \in S BY <1>7
  <2>2. k - Len(m) <= k - Len(p) BY <1>5, <1>6, <2>1
  <2> QED BY <1>1, <1>6, <2>2
<1>8. Best(s, k, m) BY <1>1, <1>6, <1>7 DEF Best
<1> QED BY <1>8

\* To go on from a longest node with one character is to go on from it alone.
LEMMA BestExtends ==
  ASSUME ListOK, NEW s \in Hosts, NEW c \in Letters, NEW k \in Nat, NEW m, Best(s, k, m),
         NEW r, Best(Append(m, c), Len(m) + 1, r)
  PROVE  Best(Append(s, c), k + 1, r)
<1>1. m \in Nodes /\ m \in Hosts /\ Ends(m, s) /\ Len(m) <= k BY NodeFacts DEF Best
<1>2. r \in Nodes /\ r \in Hosts /\ Ends(r, Append(m, c)) /\ Len(r) <= Len(m) + 1
  BY NodeFacts DEF Best
<1>3. Append(m, c) \in Hosts /\ Append(s, c) \in Hosts BY <1>1, Appended
<1>4. Ends(Append(m, c), Append(s, c)) BY <1>1, EndsMore
<1>5. Ends(r, Append(s, c)) BY <1>2, <1>3, <1>4, EndsBasic
<1>6. Len(r) \in Nat /\ Len(m) \in Nat BY <1>1, <1>2, HostFacts
<1>7. Len(r) <= k + 1 BY <1>1, <1>2, <1>6
<1>8. ASSUME NEW p \in Nodes, Ends(p, Append(s, c)), Len(p) <= k + 1 PROVE Len(p) <= Len(r)
  <2>1. p \in Hosts BY NodeFacts
  <2>2. CASE p = <<>> BY <1>6, <2>2, HostFacts
  <2>3. CASE p # <<>>
    <3>1. Front(p) \in Nodes /\ Front(p) \in Hosts BY <2>3, NodeFacts
    <3>2. Ends(Front(p), s) /\ p = Append(Front(p), c) BY <1>8, <2>1, <2>3, EndsLess
    <3>3. Len(Front(p)) = Len(p) - 1 /\ Len(p) \in Nat BY <2>1, <2>3, FrontFacts, HostFacts
    <3>4. Len(Front(p)) <= Len(m) BY <1>8, <3>1, <3>2, <3>3 DEF Best
    <3>5. Ends(Front(p), m) BY <1>1, <3>1, <3>2, <3>4, EndsBasic
    <3>6. Ends(p, Append(m, c)) BY <1>1, <3>1, <3>2, <3>5, EndsMore
    <3>7. Len(p) <= Len(m) + 1 BY <1>6, <3>3, <3>4
    <3> QED BY <3>6, <3>7 DEF Best
  <2> QED BY <2>2, <2>3
<1> QED BY <1>2, <1>5, <1>7, <1>8 DEF Best

\* The links of the nodes of at most k characters lead to the longest nodes
\* that they end with.
Linked(fail, k) == \A n \in Nodes : n # <<>> /\ Len(n) <= k => Best(n, Len(n) - 1, fail[n])

\* A step along an edge, or along the edge of a node that links lead to, goes to
\* the longest node that the string ends with.
LEMMA StepIs ==
  ASSUME ListOK, NEW fail, NEW node \in Nodes, NEW ch \in Letters, Linked(fail, Len(node))
  PROVE  Best(Append(node, ch), Len(node) + 1, Step(fail, node, ch))
<1> DEFINE D == {m \in Nodes : Len(m) <= Len(node)}
           Solves(f) ==
             f = [n \in D |-> IF Append(n, ch) \in Nodes THEN Append(n, ch)
                              ELSE IF n = <<>> THEN <<>> ELSE f[fail[n]]]
           Goes(n) == CHOOSE r : Best(Append(n, ch), Len(n) + 1, r)
           g == [n \in D |-> Goes(n)]
           f == CHOOSE h : Solves(h)
<1>0. /\ <<>> \in Nodes /\ Len(node) \in Nat
      /\ \A n \in D : n \in Nodes /\ n \in Hosts /\ Len(n) \in Nat /\ Len(n) <= Len(node)
  BY NodeFacts, HostFacts
<1>1. ASSUME NEW n \in D PROVE Best(Append(n, ch), Len(n) + 1, Goes(n))
  <2>1. PICK k \in Nat : k = Len(n) + 1 BY <1>0
  <2>2. Append(n, ch) \in Hosts BY <1>0, Appended
  <2>3. \E r : Best(Append(n, ch), k, r) BY <1>0, <2>1, <2>2, BestThere
  <2> QED BY <2>1, <2>3, Zenon
<1>2. ASSUME NEW n \in D, n # <<>>
      PROVE  fail[n] \in D /\ Len(fail[n]) < Len(n) /\ Best(n, Len(n) - 1, fail[n])
  <2>1. Best(n, Len(n) - 1, fail[n]) BY <1>0, <1>2 DEF Linked
  <2>2. fail[n] \in Nodes /\ Len(fail[n]) <= Len(n) - 1 BY <2>1 DEF Best
  <2>3. Len(fail[n]) \in Nat BY <2>2, NodeFacts, HostFacts
  <2> QED BY <1>0, <2>1, <2>2, <2>3
<1> HIDE DEF D, Goes
<1>3. ASSUME NEW n \in D, Append(n, ch) \in Nodes PROVE Goes(n) = Append(n, ch)
  <2>1. PICK s \in Hosts : s = Append(n, ch) /\ Len(s) = Len(n) + 1 BY <1>0, Appended
  <2>2. PICK k \in Nat : k = Len(s) BY <2>1, HostFacts
  <2>3. Ends(s, s) BY <2>1, EndsBasic
  <2>4. s \in Nodes /\ Len(s) <= k BY <1>3, <2>1, <2>2
  <2>5. Best(s, k, s) BY <2>2, <2>3, <2>4 DEF Best
  <2>6. Best(s, k, Goes(n)) BY <1>1, <2>1, <2>2
  <2> QED BY <2>1, <2>5, <2>6, BestIsOne
<1>4. ASSUME NEW n \in D, Append(n, ch) \notin Nodes, n = <<>> PROVE Goes(n) = <<>>
  <2>1. PICK r : r = Goes(n) /\ r \in Nodes /\ r \in Hosts /\ Ends(r, Append(n, ch))
    BY <1>1, NodeFacts DEF Best
  <2>2. CASE r # <<>>
    <3>1. Front(r) \in Hosts /\ r = Append(Front(r), ch) /\ Ends(Front(r), n)
      BY <1>0, <2>1, <2>2, EndsLess, FrontFacts
    <3>2. Len(Front(r)) <= 0 /\ Len(Front(r)) \in Nat BY <1>4, <3>1, HostFacts DEF Ends
    <3>3. Front(r) = <<>> BY <3>1, <3>2, HostFacts
    <3> QED BY <1>4, <2>1, <3>1, <3>3
  <2> QED BY <2>1, <2>2
<1>5. ASSUME NEW n \in D, Append(n, ch) \notin Nodes, n # <<>> PROVE Goes(n) = Goes(fail[n])
  <2>1. PICK m : m = fail[n] /\ m \in D /\ Best(n, Len(n) - 1, m) BY <1>2, <1>5
  <2>2. PICK r : r = Goes(m) /\ Best(Append(m, ch), Len(m) + 1, r) BY <1>1, <2>1
  <2>3. PICK k \in Nat : k = Len(n) - 1
    <3>1. n \in Hosts /\ Len(n) \in Nat BY <1>0
    <3>2. Len(n) # 0 BY <1>5, <3>1, HostFacts
    <3>3. Len(n) - 1 \in Nat BY <3>1, <3>2
    <3> QED BY <3>3
  <2>4. Best(Append(n, ch), k + 1, r) BY <1>0, <2>1, <2>2, <2>3, BestExtends
  <2>5. PICK q : q = Goes(n) /\ Best(Append(n, ch), Len(n) + 1, q) BY <1>1
  <2>6. PICK s \in Hosts : s = Append(n, ch) /\ Len(s) = Len(n) + 1 BY <1>0, Appended
  <2>7. q \in Nodes /\ q \in Hosts /\ Ends(q, s) /\ Len(q) <= Len(n) + 1
    BY <2>5, <2>6, NodeFacts DEF Best
  <2>8. Len(q) # Len(n) + 1
    <3>1. Len(q) = Len(s) => q = s BY <2>6, <2>7, EndsBasic
    <3> QED BY <1>5, <2>6, <2>7, <3>1
  <2>9. Len(q) <= k + 1 BY <1>0, <2>3, <2>7, <2>8, HostFacts
  <2>10. r \in Nodes /\ Ends(r, s) /\ Len(r) <= k + 1 BY <2>4, <2>6 DEF Best
  <2>11. \A p \in Nodes : Ends(p, s) /\ Len(p) <= k + 1 => Len(p) <= Len(q)
    <3>1. \A p \in Nodes : Len(p) <= k + 1 => Len(p) <= Len(n) + 1
      <4>1. \A p \in Nodes : Len(p) \in Nat BY NodeFacts, HostFacts
      <4> QED BY <1>0, <2>3, <4>1
    <3> QED BY <2>5, <2>6, <3>1 DEF Best
  <2>12. Best(s, k + 1, q) BY <2>7, <2>9, <2>11 DEF Best
  <2>13. r = q BY <2>4, <2>6, <2>12, BestIsOne
  <2> QED BY <2>1, <2>2, <2>5, <2>13
<1>6. Solves(g)
  <2>1. \A n \in D : n # <<>> => g[fail[n]] = Goes(fail[n]) BY <1>2
  <2> QED BY <1>3, <1>4, <1>5, <2>1
<1>7. Solves(f) BY <1>6, Zenon
<1> HIDE DEF f, g
<1>8. \A n \in D : f[n] = IF Append(n, ch) \in Nodes THEN Append(n, ch)
                          ELSE IF n = <<>> THEN <<>> ELSE f[fail[n]]
  BY <1>7
<1> DEFINE P == {k \in Nat : \A n \in D : Len(n) <= k => f[n] = Goes(n)}
<1>9. ASSUME NEW n \in D, n # <<>> => f[fail[n]] = Goes(fail[n]) PROVE f[n] = Goes(n)
  BY <1>3, <1>4, <1>5, <1>8, <1>9
<1>10. 0 \in P
  <2>1. ASSUME NEW n \in D, Len(n) <= 0 PROVE f[n] = Goes(n)
    <3>1. n = <<>> BY <1>0, <2>1, HostFacts
    <3> QED BY <1>9, <3>1
  <2> QED BY <2>1
<1>11. ASSUME NEW k \in Nat, k \in P PROVE k + 1 \in P
  <2>1. ASSUME NEW n \in D, Len(n) <= k + 1 PROVE f[n] = Goes(n)
    <3>1. n # <<>> => fail[n] \in D /\ Len(fail[n]) <= k
      <4>1. n # <<>> => fail[n] \in D /\ Len(fail[n]) < Len(n) BY <1>2
      <4> QED BY <1>0, <2>1, <4>1
    <3>2. n # <<>> => f[fail[n]] = Goes(fail[n]) BY <1>11, <3>1
    <3> QED BY <1>9, <3>2
  <2> QED BY <2>1
<1>12. Nat \subseteq P
  <2> HIDE DEF P
  <2> QED BY <1>10, <1>11, SetInduction
<1>13. node \in D BY <1>0 DEF D
<1>14. f[node] = Goes(node) BY <1>0, <1>12, <1>13
<1>15. Step(fail, node, ch) = f[node] BY DEF Step, f, D
<1> QED BY <1>1, <1>13, <1>14, <1>15

LEMMA NodesAre ==
  ASSUME ListOK, NEW n \in Nodes
  PROVE  /\ n \in Hosts /\ Len(n) \in Nat /\ <<>> \in Nodes
         /\ n # <<>> => /\ Len(n) # 0 /\ Len(n) - 1 \in Nat
                        /\ Front(n) \in Nodes /\ Front(n) \in Hosts
                        /\ Len(Front(n)) = Len(n) - 1
                        /\ Last(n) \in Letters /\ Append(Front(n), Last(n)) = n
<1>1. n \in Hosts /\ Len(n) \in Nat /\ <<>> \in Nodes BY NodeFacts, HostFacts
<1>2. ASSUME n # <<>> PROVE Len(n) # 0 /\ Len(n) - 1 \in Nat
  <2>1. Len(n) # 0 BY <1>1, <1>2, HostFacts
  <2> QED BY <1>1, <2>1
<1>3. n # <<>> => /\ Front(n) \in Nodes /\ Front(n) \in Hosts
                  /\ Len(Front(n)) = Len(n) - 1
                  /\ Last(n) \in Letters /\ Append(Front(n), Last(n)) = n
  BY <1>1, NodeFacts, FrontFacts
<1> QED BY <1>1, <1>2, <1>3

LEMMA LinkedBelow ==
  ASSUME ListOK, NEW fail, NEW k \in Nat, NEW l \in Nat, l <= k, Linked(fail, k)
  PROVE  Linked(fail, l)
<1>1. \A n \in Nodes : Len(n) \in Nat BY NodesAre
<1>2. \A n \in Nodes : Len(n) <= l => Len(n) <= k BY <1>1
<1> QED BY <1>2 DEF Linked

\* What plain_build_fail gives a node, from the links of the nodes above it.
LEMMA LinkOn ==
  ASSUME ListOK, NEW fail, NEW k \in Nat, Linked(fail, k), NEW n \in Nodes,
         ~ (Len(n) < 2), Len(n) <= k + 1
  PROVE  Best(n, Len(n) - 1, Step(fail, fail[Front(n)], Last(n)))
<1>1. n # <<>> BY HostFacts
<1>2. PICK f : /\ f = Front(n) /\ f \in Nodes /\ f \in Hosts /\ Len(f) \in Nat
               /\ Len(f) = Len(n) - 1 /\ Append(f, Last(n)) = n
               /\ Last(n) \in Letters
  BY <1>1, NodesAre
<1>3. Len(n) \in Nat BY NodesAre
<1>4. f # <<>> /\ Len(f) <= k /\ Len(f) - 1 \in Nat BY <1>2, <1>3, HostFacts
<1>5. PICK m : m = fail[f] /\ Best(f, Len(f) - 1, m) BY <1>2, <1>4 DEF Linked
<1>6. m \in Nodes /\ Len(m) \in Nat /\ Len(m) <= Len(f) - 1 BY <1>5, NodesAre DEF Best
<1>7. Len(m) <= k BY <1>2, <1>4, <1>6
<1>8. Linked(fail, Len(m)) BY <1>6, <1>7, LinkedBelow
<1>9. PICK r : r = Step(fail, m, Last(n)) /\ Best(Append(m, Last(n)), Len(m) + 1, r)
  BY <1>2, <1>6, <1>8, StepIs
<1>10. PICK j \in Nat : j = Len(f) - 1 BY <1>4
<1>11. Best(Append(f, Last(n)), j + 1, r) BY <1>2, <1>5, <1>9, <1>10, BestExtends
<1>12. j + 1 = Len(n) - 1 BY <1>2, <1>3, <1>10
<1> QED BY <1>2, <1>5, <1>9, <1>11, <1>12

LEMMA LinkShort ==
  ASSUME ListOK, NEW n \in Nodes, n # <<>>, Len(n) < 2
  PROVE  Best(n, Len(n) - 1, <<>>)
<1>1. Len(n) \in Nat /\ Len(n) # 0 /\ <<>> \in Nodes /\ n \in Hosts BY NodesAre
<1>2. Len(n) - 1 = 0
  <2>1. PICK k \in Nat : k = Len(n) /\ k # 0 /\ k < 2 BY <1>1
  <2>2. k - 1 = 0 BY <2>1
  <2> QED BY <2>1, <2>2
<1>3. Ends(<<>>, n) /\ Len(<<>>) = 0 BY <1>1, EndsBasic, HostFacts
<1>4. \A p \in Nodes : Len(p) <= 0 => Len(p) <= Len(<<>>) BY <1>3
<1> QED BY <1>1, <1>2, <1>3, <1>4 DEF Best

\* The fail links lead to the longest nodes.
LEMMA FailIs ==
  ASSUME ListOK
  PROVE  \A k \in Nat : Linked(Fail, k)
<1> DEFINE Solves(f) ==
             f = [n \in Nodes |-> IF Len(n) < 2 THEN <<>> ELSE Step(f, f[Front(n)], Last(n))]
           Link(n) == IF Len(n) < 2 THEN <<>> ELSE CHOOSE m : Best(n, Len(n) - 1, m)
           g == [n \in Nodes |-> Link(n)]
<1>1. ASSUME NEW n \in Nodes, n # <<>> PROVE Best(n, Len(n) - 1, Link(n))
  <2>1. CASE Len(n) < 2 BY <1>1, <2>1, LinkShort
  <2>2. CASE ~ (Len(n) < 2)
    <3>1. PICK k \in Nat : k = Len(n) - 1 BY <1>1, NodesAre
    <3>2. n \in Hosts /\ <<>> \in Nodes BY NodesAre
    <3>3. \E m : Best(n, k, m) BY <3>2, BestThere
    <3> QED BY <2>2, <3>1, <3>3, Zenon
  <2> QED BY <2>1, <2>2
<1> HIDE DEF Link
<1>2. ASSUME NEW k \in Nat PROVE Linked(g, k) BY <1>1 DEF Linked
<1>3. ASSUME NEW n \in Nodes
      PROVE  Link(n) = IF Len(n) < 2 THEN <<>> ELSE Step(g, g[Front(n)], Last(n))
  <2> HIDE DEF g
  <2>1. CASE Len(n) < 2 BY <2>1 DEF Link
  <2>2. CASE ~ (Len(n) < 2)
    <3>1. PICK k \in Nat : k = Len(n) BY NodesAre
    <3>2. n # <<>> /\ Len(n) <= k + 1 BY <2>2, <3>1, HostFacts
    <3>3. Best(n, Len(n) - 1, Step(g, g[Front(n)], Last(n))) BY <1>2, <2>2, <3>2, LinkOn
    <3>4. Best(n, Len(n) - 1, Link(n)) /\ n \in Hosts BY <1>1, <3>2, NodesAre
    <3>5. Link(n) = Step(g, g[Front(n)], Last(n)) BY <3>3, <3>4, BestIsOne
    <3> QED BY <2>2, <3>5
  <2> QED BY <2>1, <2>2
<1>4. Solves(g)
  <2> DEFINE h == g
  <2>1. \A n \in Nodes : Link(n) = IF Len(n) < 2 THEN <<>> ELSE Step(h, h[Front(n)], Last(n))
    BY <1>3
  <2>2. h = [n \in Nodes |-> Link(n)] OBVIOUS
  <2> HIDE DEF g, h
  <2>3. [n \in Nodes |-> Link(n)]
          = [n \in Nodes |-> IF Len(n) < 2 THEN <<>> ELSE Step(h, h[Front(n)], Last(n))]
    BY <2>1
  <2>4. Solves(h) BY <2>2, <2>3
  <2> QED BY <2>4 DEF h
<1>5. Fail = CHOOSE f : Solves(f) BY DEF Fail
<1>6. Solves(Fail) BY <1>4, <1>5, Zenon
<1>7. \A n \in Nodes : Fail[n] = IF Len(n) < 2 THEN <<>> ELSE Step(Fail, Fail[Front(n)], Last(n))
  <2> DEFINE to(n) == IF Len(n) < 2 THEN <<>> ELSE Step(Fail, Fail[Front(n)], Last(n))
  <2>1. Fail = [n \in Nodes |-> to(n)] BY <1>6
  <2> HIDE DEF to
  <2>2. \A n \in Nodes : Fail[n] = to(n) BY <2>1
  <2> QED BY <2>2 DEF to
<1> DEFINE P == {k \in Nat : Linked(Fail, k)}
<1>8. 0 \in P
  <2>1. ASSUME NEW n \in Nodes, n # <<>> PROVE ~ (Len(n) <= 0) BY <2>1, NodesAre
  <2> QED BY <2>1 DEF Linked
<1>9. ASSUME NEW k \in Nat, k \in P PROVE k + 1 \in P
  <2>1. ASSUME NEW n \in Nodes, n # <<>>, Len(n) <= k + 1 PROVE Best(n, Len(n) - 1, Fail[n])
    <3>1. CASE Len(n) < 2 BY <1>7, <2>1, <3>1, LinkShort
    <3>2. CASE ~ (Len(n) < 2) BY <1>7, <1>9, <2>1, <3>2, LinkOn
    <3> QED BY <3>1, <3>2
  <2> QED BY <2>1 DEF Linked
<1>10. Nat \subseteq P
  <2> HIDE DEF P
  <2> QED BY <1>8, <1>9, SetInduction
<1> QED BY <1>10

\* The keywords that end at a node are those its string ends with.
LEMMA EndingIs ==
  ASSUME ListOK, NEW fail, \A k \in Nat : Linked(fail, k)
  PROVE  \A n \in Nodes : Ending(fail)[n] = {d \in OfType("plain") : Ends(d.value, n)}
<1> DEFINE Own(n) == {d \in OfType("plain") : d.value = n}
           E(n) == {d \in OfType("plain") : Ends(d.value, n)}
           Solves(f) == f = [n \in Nodes |-> IF n = <<>> THEN {} ELSE Own(n) \cup f[fail[n]]]
           g == [n \in Nodes |-> E(n)]
<1>0. \A d \in OfType("plain") : /\ d.value \in Nodes /\ d.value \in Hosts /\ d.value # <<>>
                                 /\ Len(d.value) \in Nat /\ Len(d.value) # 0
  BY NodeFacts, NodesAre
<1>1. ASSUME NEW n \in Nodes, n # <<>>
      PROVE  /\ fail[n] \in Nodes /\ Len(fail[n]) < Len(n) /\ Best(n, Len(n) - 1, fail[n])
             /\ Len(fail[n]) \in Nat
  <2>1. PICK k \in Nat : k = Len(n) BY NodesAre
  <2>2. Linked(fail, k) BY <2>1
  <2>3. Best(n, Len(n) - 1, fail[n]) BY <1>1, <2>1, <2>2 DEF Linked
  <2>4. fail[n] \in Nodes /\ Len(fail[n]) <= Len(n) - 1 BY <2>3 DEF Best
  <2>5. Len(fail[n]) \in Nat BY <2>4, NodesAre
  <2> QED BY <2>1, <2>3, <2>4, <2>5
<1>2. ASSUME NEW n \in Nodes, n = <<>> PROVE E(n) = {}
  <2>1. ASSUME NEW d \in OfType("plain") PROVE ~ Ends(d.value, n)
    BY <1>0, <1>2, HostFacts DEF Ends
  <2> QED BY <2>1
<1>3. ASSUME NEW n \in Nodes, n # <<>> PROVE E(n) = Own(n) \cup E(fail[n])
  <2>1. PICK m : m = fail[n] /\ m \in Nodes /\ Best(n, Len(n) - 1, m) /\ m \in Hosts BY <1>1, <1>3, NodesAre
  <2>2. n \in Hosts /\ Len(n) \in Nat BY NodesAre
  <2>3. ASSUME NEW d \in OfType("plain")
        PROVE  Ends(d.value, n) <=> d.value = n \/ Ends(d.value, m)
    <3>1. PICK v : v = d.value /\ v \in Nodes /\ v \in Hosts /\ Len(v) \in Nat BY <1>0
    <3>2. ASSUME Ends(v, n), v # n PROVE Ends(v, m)
      <4>0. Ends(v, n) /\ Len(v) = Len(n) => v = n BY <2>2, <3>1, EndsBasic, Zenon
      <4>1. Len(v) <= Len(n) /\ Len(v) # Len(n)
        <5>1. Len(v) <= Len(n) BY <3>2 DEF Ends
        <5> QED BY <3>2, <4>0, <5>1, Zenon
      <4>2. Len(v) <= Len(n) - 1 BY <2>2, <3>1, <4>1
      <4>3. Len(v) <= Len(m) /\ Ends(m, n) BY <2>1, <3>1, <3>2, <4>2 DEF Best
      <4> QED BY <2>1, <2>2, <3>1, <3>2, <4>3, EndsBasic
    <3>3. Ends(v, m) => Ends(v, n)
      <4>1. Ends(m, n) BY <2>1 DEF Best
      <4> QED BY <2>1, <2>2, <3>1, <4>1, EndsBasic
    <3>4. v = n => Ends(v, n) BY <2>2, EndsBasic
    <3> QED BY <3>1, <3>2, <3>3, <3>4
  <2>4. E(n) = Own(n) \cup E(m) BY <2>3
  <2> QED BY <2>1, <2>4
<1> HIDE DEF E, Own
<1>4. Solves(g)
  <2>1. \A n \in Nodes : n # <<>> => g[fail[n]] = E(fail[n]) BY <1>1
  <2> QED BY <1>2, <1>3, <2>1
<1>5. PICK f : f = Ending(fail) /\ Solves(f)
  <2>1. Ending(fail) = CHOOSE f : Solves(f) BY DEF Ending, Own
  <2>2. Solves(CHOOSE f : Solves(f)) BY <1>4, Zenon
  <2> QED BY <2>1, <2>2
<1> HIDE DEF g
<1>6. \A n \in Nodes : f[n] = IF n = <<>> THEN {} ELSE Own(n) \cup f[fail[n]] BY <1>5
<1> DEFINE P == {k \in Nat : \A n \in Nodes : Len(n) <= k => f[n] = E(n)}
<1>7. ASSUME NEW n \in Nodes, n # <<>> => f[fail[n]] = E(fail[n]) PROVE f[n] = E(n)
  BY <1>2, <1>3, <1>6, <1>7
<1>8. 0 \in P
  <2>1. ASSUME NEW n \in Nodes, Len(n) <= 0 PROVE f[n] = E(n)
    <3>1. n = <<>> BY <2>1, NodesAre
    <3> QED BY <1>7, <3>1
  <2> QED BY <2>1
<1>9. ASSUME NEW k \in Nat, k \in P PROVE k + 1 \in P
  <2>1. ASSUME NEW n \in Nodes, Len(n) <= k + 1 PROVE f[n] = E(n)
    <3>1. n # <<>> => fail[n] \in Nodes /\ Len(fail[n]) <= k
      <4>1. n # <<>> => /\ fail[n] \in Nodes /\ Len(fail[n]) < Len(n) /\ Len(fail[n]) \in Nat
                        /\ Len(n) \in Nat
        BY <1>1, NodesAre
      <4> QED BY <2>1, <4>1
    <3>2. n # <<>> => f[fail[n]] = E(fail[n]) BY <1>9, <3>1
    <3> QED BY <1>7, <3>2
  <2> QED BY <2>1
<1>10. Nat \subseteq P
  <2> HIDE DEF P
  <2> QED BY <1>8, <1>9, SetInduction
<1>11. ASSUME NEW n \in Nodes PROVE f[n] = E(n)
  <2>1. PICK k \in Nat : k = Len(n) BY NodesAre
  <2> QED BY <1>10, <2>1
<1> QED BY <1>5, <1>11 DEF E

\* The part of a host from its start, or to its end.
LEMMA StartFacts ==
  ASSUME NEW s \in Hosts, NEW j \in 0 .. Len(s)
  PROVE  /\ SubSeq(s, 1, j) \in Hosts /\ Len(SubSeq(s, 1, j)) = j
         /\ \A x \in 1 .. j : SubSeq(s, 1, j)[x] = s[x]
<1>1. PICK n \in Nat : n = Len(s) /\ j \in 0 .. n BY HostFacts
<1>2. PICK i \in 1 .. Len(s) + 1 : i = 1 BY <1>1
<1>3. j \in i - 1 .. Len(s) /\ j - i + 1 = j /\ \A x \in 1 .. j : i + x - 1 = x BY <1>1, <1>2
<1>4. /\ SubSeq(s, i, j) \in Hosts /\ Len(SubSeq(s, i, j)) = j - i + 1
      /\ \A x \in 1 .. j - i + 1 : SubSeq(s, i, j)[x] = s[i + x - 1]
  BY <1>3, PartFacts
<1> QED BY <1>2, <1>3, <1>4

LEMMA RestFacts ==
  ASSUME NEW s \in Hosts, NEW i \in 1 .. Len(s)
  PROVE  /\ SubSeq(s, i, Len(s)) \in Hosts /\ Len(SubSeq(s, i, Len(s))) = Len(s) - i + 1
         /\ \A x \in 1 .. Len(s) - i + 1 : SubSeq(s, i, Len(s))[x] = s[i + x - 1]
<1>1. PICK n \in Nat : n = Len(s) /\ i \in 1 .. n BY HostFacts
<1>2. i \in 1 .. Len(s) + 1 /\ n \in i - 1 .. Len(s) BY <1>1
<1>4. /\ SubSeq(s, i, n) \in Hosts /\ Len(SubSeq(s, i, n)) = n - i + 1
      /\ \A x \in 1 .. n - i + 1 : SubSeq(s, i, n)[x] = s[i + x - 1]
  BY <1>2, PartFacts
<1> QED BY <1>1, <1>4

\* A word is in a host when the start of the host up to somewhere ends with it.
LEMMA PlainIs ==
  ASSUME NEW host \in Hosts, NEW word \in Hosts, word # <<>>
  PROVE  MatchPlain(host, word) <=> \E j \in 1 .. Len(host) : Ends(word, SubSeq(host, 1, j))
<1> DEFINE n == Len(host)
           w == Len(word)
<1>0. n \in Nat /\ w \in Nat /\ w # 0 /\ DOMAIN host = 1 .. n BY HostFacts
<1>1. ASSUME NEW i \in 1 .. n
      PROVE  IsPrefix(word, SubSeq(host, i, n))
               <=> w <= n - i + 1 /\ \A x \in 1 .. w : word[x] = host[i + x - 1]
  <2>1. PICK t \in Hosts : /\ t = SubSeq(host, i, n) /\ Len(t) = n - i + 1
                           /\ \A x \in 1 .. n - i + 1 : t[x] = host[i + x - 1]
    BY RestFacts
  <2>2. IsPrefix(word, t) <=> w <= n - i + 1 /\ SubSeq(word, 1, w) = SubSeq(t, 1, w)
    BY <2>1 DEF IsPrefix
  <2>3. ASSUME w <= n - i + 1
        PROVE  SubSeq(word, 1, w) = SubSeq(t, 1, w) <=> \A x \in 1 .. w : word[x] = host[i + x - 1]
    <3>1. PICK a \in Hosts : /\ a = SubSeq(word, 1, w) /\ Len(a) = w
                             /\ \A x \in 1 .. w : a[x] = word[x]
      <4>1. w \in 0 .. Len(word) BY <1>0
      <4> QED BY <4>1, StartFacts
    <3>2. PICK b \in Hosts : b = SubSeq(t, 1, w) /\ Len(b) = w /\ \A x \in 1 .. w : b[x] = t[x]
      <4>1. w \in 0 .. Len(t) BY <1>0, <2>1, <2>3
      <4> QED BY <4>1, StartFacts
    <3>3. \A x \in 1 .. w : t[x] = host[i + x - 1] BY <1>0, <2>1, <2>3
    <3>4. a = b <=> \A x \in 1 .. w : a[x] = b[x] BY <3>1, <3>2, HostFacts
    <3> QED BY <3>1, <3>2, <3>3, <3>4
  <2> QED BY <2>1, <2>2, <2>3
<1>2. ASSUME NEW j \in 1 .. n
      PROVE  Ends(word, SubSeq(host, 1, j))
               <=> w <= j /\ \A x \in 1 .. w : word[x] = host[j - w + x]
  <2>1. j \in 0 .. n BY <1>0
  <2>2. PICK t \in Hosts : /\ t = SubSeq(host, 1, j) /\ Len(t) = j
                           /\ \A x \in 1 .. j : t[x] = host[x]
    BY <2>1, StartFacts
  <2>3. ASSUME w <= j, NEW x \in 1 .. w PROVE t[j - w + x] = host[j - w + x]
    <3>1. j - w + x \in 1 .. j BY <1>0, <2>3
    <3> QED BY <2>2, <3>1
  <2> QED BY <2>2, <2>3 DEF Ends
<1>3. ASSUME NEW i \in 1 .. n, IsPrefix(word, SubSeq(host, i, n))
      PROVE  \E j \in 1 .. n : Ends(word, SubSeq(host, 1, j))
  <2>1. w <= n - i + 1 /\ \A x \in 1 .. w : word[x] = host[i + x - 1] BY <1>1, <1>3
  <2>2. PICK j \in 1 .. n : j = i + w - 1
    <3>1. i + w - 1 \in 1 .. n BY <1>0, <2>1
    <3> QED BY <3>1
  <2>3. w <= j /\ \A x \in 1 .. w : j - w + x = i + x - 1 BY <1>0, <2>2
  <2>4. \A x \in 1 .. w : word[x] = host[j - w + x] BY <2>1, <2>3
  <2>5. Ends(word, SubSeq(host, 1, j)) BY <1>2, <2>3, <2>4
  <2> QED BY <2>5
<1>4. ASSUME NEW j \in 1 .. n, Ends(word, SubSeq(host, 1, j))
      PROVE  \E i \in 1 .. n : IsPrefix(word, SubSeq(host, i, n))
  <2>1. w <= j /\ \A x \in 1 .. w : word[x] = host[j - w + x] BY <1>2, <1>4
  <2>2. PICK i \in 1 .. n : i = j - w + 1
    <3>1. j - w + 1 \in 1 .. n BY <1>0, <2>1
    <3> QED BY <3>1
  <2>3. w <= n - i + 1 /\ \A x \in 1 .. w : j - w + x = i + x - 1 BY <1>0, <2>1, <2>2
  <2>4. \A x \in 1 .. w : word[x] = host[i + x - 1] BY <2>1, <2>3
  <2>5. IsPrefix(word, SubSeq(host, i, n)) BY <1>1, <2>3, <2>4
  <2> QED BY <2>5
<1>5. MatchPlain(host, word) <=> \E i \in 1 .. n : IsPrefix(word, SubSeq(host, i, n))
  BY <1>0 DEF MatchPlain
<1> QED BY <1>3, <1>4, <1>5

\* One walk along the host, by the edges and the fail and output links of the
\* trie, finds the keywords that are in it, and no other (match_plain_indexed,
\* plain_build_fail).
THEOREM WalkFindsKeywords ==
  ASSUME ListOK, OfType("plain") # {}, NEW host \in Hosts
  PROVE  Walk(host) = {d \in OfType("plain") : MatchPlain(host, d.value)}
<1> DEFINE l == Len(host)
           Part(i) == SubSeq(host, 1, i)
           Nd(i)  == CHOOSE m : Best(Part(i), i, m)
           Met(i) == {d \in OfType("plain") : \E j \in 1 .. i : Ends(d.value, Part(j))}
           End    == Ending(Fail)
           Go(b, c) == [node |-> Step(Fail, b.node, c),
                        met  |-> b.met \cup End[Step(Fail, b.node, c)]]
           A0    == [node |-> <<>>, met |-> {}]
           Solves(f) == f = [i \in 0 .. l |-> IF i = 0 THEN A0 ELSE Go(f[i - 1], host[i])]
           A(i)  == [node |-> Nd(i), met |-> Met(i)]
           g     == [i \in 0 .. l |-> A(i)]
<1>0. /\ l \in Nat /\ <<>> \in Nodes
      /\ \A i \in 1 .. l : host[i] \in Letters
      /\ \A d \in OfType("plain") : d.value \in Nodes /\ d.value \in Hosts /\ d.value # <<>>
  BY NodeFacts, HostFacts
<1>1. \A i \in 0 .. l : Part(i) \in Hosts /\ Len(Part(i)) = i /\ \A x \in 1 .. i : Part(i)[x] = host[x]
  BY StartFacts
<1>2. ASSUME NEW i \in 0 .. l PROVE Best(Part(i), i, Nd(i))
  <2>1. i \in Nat /\ Part(i) \in Hosts BY <1>1
  <2>2. \E m : Best(Part(i), i, m) BY <1>0, <2>1, BestThere
  <2> QED BY <2>2, Zenon
<1>3. Part(0) = <<>>
  <2>1. 0 \in 0 .. l BY <1>0
  <2> QED BY <1>1, <2>1, HostFacts
<1>4. ASSUME NEW i \in 1 .. l PROVE i - 1 \in 0 .. l /\ i \in 0 .. l /\ Part(i) = Append(Part(i - 1), host[i])
  <2>1. PICK j \in 0 .. l : j = i - 1
    <3>1. i - 1 \in 0 .. l BY <1>0
    <3> QED BY <3>1
  <2>2. i \in 0 .. l /\ j + 1 = i BY <1>0, <2>1
  <2>3. PICK p \in Hosts : p = Part(j) /\ Len(p) = j /\ \A x \in 1 .. j : p[x] = host[x] BY <1>1
  <2>4. PICK a \in Hosts : /\ a = Append(p, host[i]) /\ Len(a) = j + 1 /\ a[j + 1] = host[i]
                           /\ \A x \in 1 .. j : a[x] = p[x]
    <3>1. host[i] \in Letters BY <1>0
    <3>2. /\ Append(p, host[i]) \in Hosts /\ Len(Append(p, host[i])) = Len(p) + 1
          /\ Append(p, host[i])[Len(p) + 1] = host[i]
          /\ \A x \in 1 .. Len(p) : Append(p, host[i])[x] = p[x]
      BY <2>3, <3>1, Appended
    <3> QED BY <2>3, <3>2
  <2>5. PICK q \in Hosts : q = Part(i) /\ Len(q) = i /\ \A x \in 1 .. i : q[x] = host[x] BY <1>1, <2>2
  <2>6. \A x \in 1 .. i : x = i \/ x \in 1 .. j BY <2>1
  <2>7. \A x \in 1 .. i : q[x] = a[x] BY <2>2, <2>3, <2>4, <2>5, <2>6
  <2>8. q = a BY <2>2, <2>4, <2>5, <2>7, HostFacts
  <2> QED BY <2>1, <2>2, <2>3, <2>4, <2>5, <2>8
<1> HIDE DEF Part, Nd
<1>5. Nd(0) = <<>>
  <2>1. 0 \in 0 .. l BY <1>0
  <2>2. PICK m : m = Nd(0) /\ m \in Nodes /\ m \in Hosts /\ Len(m) \in Nat /\ Len(m) <= 0
    BY <1>2, <2>1, NodesAre DEF Best
  <2> QED BY <2>2, HostFacts
<1>6. ASSUME NEW i \in 1 .. l PROVE Nd(i) = Step(Fail, Nd(i - 1), host[i])
  <2>1. PICK j \in 0 .. l : j = i - 1 BY <1>4
  <2>2. PICK m : m = Nd(j) /\ Best(Part(j), j, m) BY <1>2
  <2>3. m \in Nodes /\ Len(m) \in Nat BY <2>2, NodesAre DEF Best
  <2>4. Linked(Fail, Len(m)) BY <2>3, FailIs
  <2>5. PICK r : r = Step(Fail, m, host[i]) /\ Best(Append(m, host[i]), Len(m) + 1, r)
    BY <1>0, <2>3, <2>4, StepIs
  <2>6. j \in Nat /\ Part(j) \in Hosts BY <1>1
  <2>7. Best(Append(Part(j), host[i]), j + 1, r) BY <1>0, <2>2, <2>5, <2>6, BestExtends
  <2>8. i \in 0 .. l /\ Part(i) = Append(Part(j), host[i]) /\ j + 1 = i BY <1>4, <2>1
  <2>9. Best(Part(i), i, r) /\ Best(Part(i), i, Nd(i)) /\ Part(i) \in Hosts BY <1>1, <1>2, <2>7, <2>8
  <2>10. Nd(i) = r BY <2>9, BestIsOne
  <2> QED BY <2>1, <2>2, <2>5, <2>10
<1>7. ASSUME NEW i \in 1 .. l PROVE Met(i) = Met(i - 1) \cup End[Nd(i)]
  <2>1. i \in 0 .. l BY <1>0
  <2>2. PICK m : m = Nd(i) /\ Best(Part(i), i, m) BY <1>2, <2>1
  <2>3. m \in Nodes /\ m \in Hosts /\ Ends(m, Part(i)) BY <2>2, NodesAre DEF Best
  <2>4. End[m] = {d \in OfType("plain") : Ends(d.value, m)} BY <2>3, FailIs, EndingIs
  <2>5. Part(i) \in Hosts /\ Len(Part(i)) = i BY <1>1, <2>1
  <2>6. ASSUME NEW d \in OfType("plain") PROVE Ends(d.value, m) <=> Ends(d.value, Part(i))
    <3>1. PICK v : v = d.value /\ v \in Nodes /\ v \in Hosts BY <1>0
    <3>2. Ends(v, m) => Ends(v, Part(i)) BY <2>3, <2>5, <3>1, EndsBasic
    <3>3. ASSUME Ends(v, Part(i)) PROVE Ends(v, m)
      <4>1. Len(v) <= i BY <2>5, <3>3 DEF Ends
      <4>2. Len(v) <= Len(m) BY <2>2, <3>1, <3>3, <4>1 DEF Best
      <4> QED BY <2>3, <2>5, <3>1, <3>3, <4>2, EndsBasic
    <3> QED BY <3>1, <3>2, <3>3
  <2>7. \A j \in 1 .. i : j = i \/ j \in 1 .. i - 1 BY <1>0
  <2>8. i \in 1 .. i /\ \A j \in 1 .. i - 1 : j \in 1 .. i BY <1>0
  <2> HIDE DEF End
  <2>9. Met(i) = Met(i - 1) \cup End[m]
    <3>1. ASSUME NEW d \in OfType("plain")
          PROVE  (\E j \in 1 .. i : Ends(d.value, Part(j)))
                   <=> (\E j \in 1 .. i - 1 : Ends(d.value, Part(j))) \/ Ends(d.value, Part(i))
      BY <2>7, <2>8
    <3> QED BY <2>4, <2>6, <3>1
  <2> QED BY <2>2, <2>9
<1>8. Met(0) = {}
  <2>1. ~ \E j \in 1 .. 0 : TRUE OBVIOUS
  <2> QED BY <2>1
<1> HIDE DEF Met, End
<1>9. \A i \in 0 .. l : A(i) = IF i = 0 THEN A0 ELSE Go(A(i - 1), host[i])
  <2>1. A(0) = A0 BY <1>5, <1>8
  <2>2. \A i \in 1 .. l : A(i) = Go(A(i - 1), host[i]) BY <1>6, <1>7
  <2>3. \A i \in 0 .. l : i = 0 \/ i \in 1 .. l BY <1>0
  <2>4. \A i \in 1 .. l : i # 0 BY <1>0
  <2> HIDE DEF A, A0, Go
  <2> QED BY <2>1, <2>2, <2>3, <2>4
<1>10. Walk(host) = (CHOOSE f : Solves(f))[l].met BY DEF Walk, End
<1> HIDE DEF A, A0, Go
<1>11. Solves(g)
  <2>1. \A i \in 0 .. l : i # 0 => g[i - 1] = A(i - 1)
    <3>1. \A i \in 0 .. l : i # 0 => i - 1 \in 0 .. l BY <1>0
    <3> QED BY <3>1
  <2> QED BY <1>9, <2>1
<1>12. PICK f : f = (CHOOSE h : Solves(h)) /\ Solves(f) BY <1>11, Zenon
<1> HIDE DEF g
<1>13. \A i \in 0 .. l : f[i] = IF i = 0 THEN A0 ELSE Go(f[i - 1], host[i]) BY <1>12
<1> DEFINE P == {k \in Nat : k \in 0 .. l => f[k] = A(k)}
<1>14. 0 \in P
  <2>1. 0 \in 0 .. l BY <1>0
  <2> QED BY <1>9, <1>13, <2>1
<1>15. ASSUME NEW k \in Nat, k \in P PROVE k + 1 \in P
  <2>1. ASSUME k + 1 \in 0 .. l PROVE f[k + 1] = A(k + 1)
    <3>1. PICK i \in 1 .. l : i = k + 1 BY <1>0, <2>1
    <3>2. i \in 0 .. l /\ i # 0 /\ i - 1 = k /\ k \in 0 .. l BY <1>0, <3>1
    <3>3. f[k] = A(k) BY <1>15, <3>2
    <3>4. f[i] = Go(f[k], host[i]) /\ A(i) = Go(A(k), host[i]) BY <1>9, <1>13, <3>2
    <3> QED BY <3>1, <3>3, <3>4
  <2> QED BY <2>1
<1>16. Nat \subseteq P
  <2> HIDE DEF P
  <2> QED BY <1>14, <1>15, SetInduction
<1>17. f[l] = A(l)
  <2>1. l \in 0 .. l BY <1>0
  <2> QED BY <1>0, <1>16, <2>1
<1>18. Walk(host) = Met(l) BY <1>10, <1>12, <1>17 DEF A
<1>19. \A d \in OfType("plain") :
         MatchPlain(host, d.value) <=> \E j \in 1 .. l : Ends(d.value, Part(j))
  BY <1>0, PlainIs DEF Part
<1> QED BY <1>18, <1>19 DEF Met

\* Either index of keywords finds those that are in the host.
LEMMA KeywordsAre ==
  ASSUME ListOK, NEW host \in Hosts
  PROVE  Keywords(host) = {d \in OfType("plain") : MatchPlain(host, d.value)}
<1>1. ASSUME NEW d \in OfType("plain"), MatchPlain(host, d.value)
      PROVE  Head(d.value) \in ToSet(host)
  <2>1. PICK v : v = d.value /\ v \in Hosts /\ v # <<>> BY NodeFacts
  <2>2. PICK j \in 1 .. Len(host) : Ends(v, SubSeq(host, 1, j)) BY <1>1, <2>1, PlainIs
  <2>3. j \in 0 .. Len(host) /\ Len(v) \in Nat /\ Len(v) # 0 /\ DOMAIN host = 1 .. Len(host)
    BY <2>1, HostFacts
  <2>4. PICK p \in Hosts : /\ p = SubSeq(host, 1, j) /\ Len(p) = j
                           /\ \A x \in 1 .. j : p[x] = host[x]
    BY <2>3, StartFacts
  <2>5. Len(v) <= j /\ v[1] = p[j - Len(v) + 1] BY <2>2, <2>3, <2>4 DEF Ends
  <2>6. PICK x \in 1 .. j : x = j - Len(v) + 1
    <3>1. j - Len(v) + 1 \in 1 .. j BY <2>3, <2>5
    <3> QED BY <3>1
  <2>7. v[1] = host[x] /\ x \in DOMAIN host BY <2>3, <2>4, <2>5, <2>6
  <2>8. Head(v) = v[1] BY <2>1 DEF Hosts
  <2> QED BY <2>1, <2>7, <2>8 DEF ToSet
<1>2. Keyed(host) = {d \in OfType("plain") : MatchPlain(host, d.value)}
  BY <1>1 DEF Keyed
<1>3. OfType("plain") # {} => Walk(host) = {d \in OfType("plain") : MatchPlain(host, d.value)}
  BY WalkFindsKeywords
<1>4. Keywords(host) = {} \/ (OfType("plain") # {} /\ Keywords(host) \in {Walk(host), Keyed(host)})
  BY DEF Keywords
<1>5. OfType("plain") = {} => Keywords(host) = {} BY DEF Keywords
<1>6. OfType("plain") # {} => Keywords(host) \in {Walk(host), Keyed(host)} BY DEF Keywords
<1> QED BY <1>2, <1>3, <1>5, <1>6

LEMMA OneIs ==
  ASSUME NEW c \in Letters
  PROVE  <<c>> \in Hosts /\ Len(<<c>>) = 1 /\ <<c>>[1] = c
BY DEF Hosts

\* A name and what is in front of it.
LEMMA DottedIs ==
  ASSUME NEW host \in Hosts, NEW name \in Hosts, NEW i \in 1 .. Len(host)
  PROVE  SubSeq(host, i, Len(host)) = <<".">> \o name
           <=> host[i] = "." /\ SubSeq(host, i + 1, Len(host)) = name
<1> DEFINE n == Len(host)
           d == <<".">> \o name
<1>0. n \in Nat /\ Len(name) \in Nat BY HostFacts
<1>1. d \in Hosts /\ Len(d) = Len(name) + 1 /\ d[1] = "."
      /\ \A x \in 1 .. Len(name) : d[x + 1] = name[x]
  <2>0. "." \in Letters BY SiteConstants
  <2>1. <<".">> \in Hosts /\ Len(<<".">>) = 1 /\ <<".">>[1] = "." BY <2>0, OneIs
  <2>2. /\ d \in Hosts /\ Len(d) = Len(<<".">>) + Len(name)
        /\ \A x \in 1 .. Len(<<".">>) + Len(name) :
             d[x] = IF x <= Len(<<".">>) THEN <<".">>[x] ELSE name[x - Len(<<".">>)]
    BY <2>1, ConcatProperties DEF Hosts
  <2>3. Len(d) = Len(name) + 1 BY <1>0, <2>1, <2>2
  <2>4. \A x \in 1 .. 1 + Len(name) : d[x] = IF x <= 1 THEN <<".">>[x] ELSE name[x - 1]
    BY <2>1, <2>2
  <2>5. 1 \in 1 .. 1 + Len(name) BY <1>0
  <2>6. d[1] = "." BY <2>1, <2>4, <2>5
  <2>7. ASSUME NEW x \in 1 .. Len(name) PROVE d[x + 1] = name[x]
    <3>1. PICK y \in 1 .. 1 + Len(name) : y = x + 1 /\ ~ (y <= 1) /\ y - 1 = x
      <4>1. x + 1 \in 1 .. 1 + Len(name) /\ ~ (x + 1 <= 1) /\ x + 1 - 1 = x BY <1>0
      <4> QED BY <4>1
    <3> QED BY <2>4, <3>1
  <2> QED BY <2>2, <2>3, <2>6, <2>7
<1>2. PICK t \in Hosts : /\ t = SubSeq(host, i, n) /\ Len(t) = n - i + 1
                         /\ \A x \in 1 .. n - i + 1 : t[x] = host[i + x - 1]
  BY RestFacts
<1>3. PICK u \in Hosts : /\ u = SubSeq(host, i + 1, n) /\ Len(u) = n - i
                         /\ \A x \in 1 .. n - i : u[x] = host[i + x]
  <2>1. PICK k \in 1 .. Len(host) + 1 : k = i + 1
    <3>1. i + 1 \in 1 .. Len(host) + 1 BY <1>0
    <3> QED BY <3>1
  <2>2. PICK m \in k - 1 .. Len(host) : m = n
    <3>1. n \in k - 1 .. Len(host) BY <1>0, <2>1
    <3> QED BY <3>1
  <2>3. /\ SubSeq(host, k, m) \in Hosts /\ Len(SubSeq(host, k, m)) = m - k + 1
        /\ \A x \in 1 .. m - k + 1 : SubSeq(host, k, m)[x] = host[k + x - 1]
    BY PartFacts
  <2>4. m - k + 1 = n - i /\ \A x \in 1 .. n - i : k + x - 1 = i + x BY <1>0, <2>1, <2>2
  <2>5. PICK u \in Hosts : /\ u = SubSeq(host, k, m) /\ Len(u) = m - k + 1
                           /\ \A x \in 1 .. m - k + 1 : u[x] = host[k + x - 1]
    BY <2>3
  <2>6. \A x \in 1 .. n - i : u[x] = host[i + x] BY <2>4, <2>5
  <2>7. u = SubSeq(host, i + 1, n) /\ Len(u) = n - i BY <2>1, <2>2, <2>4, <2>5
  <2> QED BY <2>6, <2>7
<1>4. ASSUME t = d PROVE host[i] = "." /\ u = name
  <2>1. n - i = Len(name) BY <1>0, <1>1, <1>2, <1>4
  <2>2. t[1] = host[i]
    <3>1. 1 \in 1 .. n - i + 1 /\ i + 1 - 1 = i BY <1>0
    <3> QED BY <1>2, <3>1
  <2>3. ASSUME NEW x \in 1 .. Len(name) PROVE u[x] = name[x]
    <3>1. x + 1 \in 1 .. n - i + 1 /\ i + (x + 1) - 1 = i + x /\ x \in 1 .. n - i BY <1>0, <2>1
    <3>2. t[x + 1] = host[i + x] BY <1>2, <3>1
    <3> QED BY <1>1, <1>3, <1>4, <3>1, <3>2
  <2>4. u = name BY <1>3, <2>1, <2>3, HostFacts
  <2> QED BY <1>1, <1>4, <2>2, <2>4
<1>5. ASSUME host[i] = ".", u = name PROVE t = d
  <2>1. n - i = Len(name) /\ n - i + 1 = Len(name) + 1 BY <1>0, <1>3, <1>5
  <2>2. ASSUME NEW x \in 1 .. Len(t) PROVE t[x] = d[x]
    <3>1. x \in 1 .. n - i + 1 BY <1>2
    <3>2. CASE x = 1
      <4>1. i + x - 1 = i BY <1>0, <3>2
      <4> QED BY <1>1, <1>2, <1>5, <3>1, <3>2, <4>1
    <3>3. CASE x # 1
      <4>1. PICK y \in 1 .. Len(name) : x = y + 1 /\ i + x - 1 = i + y
        <5>1. x - 1 \in 1 .. Len(name) /\ x = x - 1 + 1 /\ i + x - 1 = i + (x - 1)
          BY <1>0, <2>1, <3>1, <3>3
        <5> QED BY <5>1
      <4>2. t[x] = host[i + y] BY <1>2, <3>1, <4>1
      <4>3. u[y] = host[i + y] BY <1>3, <2>1, <4>1
      <4> QED BY <1>1, <1>5, <4>1, <4>2, <4>3
    <3> QED BY <3>2, <3>3
  <2>3. Len(t) = Len(d) BY <1>1, <1>2, <2>1
  <2> HIDE DEF d
  <2> QED BY <1>1, <1>2, <2>2, <2>3, HostFacts
<1> QED BY <1>2, <1>3, <1>4, <1>5

\* A host is in the domain of a name when the name is one of its endings.
LEMMA EndingsAre ==
  ASSUME NEW host \in Hosts, NEW name \in Hosts, name # <<>>
  PROVE  MatchDomain(host, name) <=> name \in Endings(host)
<1>1. <<".">> \o name \in Seq(Letters) /\ <<".">> \o name # <<>>
  <2>0. "." \in Letters BY SiteConstants
  <2>1. <<".">> \in Hosts /\ Len(<<".">>) = 1 BY <2>0, OneIs
  <2>2. <<".">> \o name \in Hosts /\ Len(<<".">> \o name) = Len(<<".">>) + Len(name)
    BY <2>1, ConcatProperties DEF Hosts
  <2>3. Len(name) \in Nat BY HostFacts
  <2>4. Len(<<".">> \o name) # 0 BY <2>1, <2>2, <2>3
  <2> QED BY <2>2, <2>4, HostFacts DEF Hosts
<1>2. host \in Seq(Letters) BY DEF Hosts
<1>3. IsSuffix(<<".">> \o name, host)
        <=> \E i \in 1 .. Len(host) : SubSeq(host, i, Len(host)) = <<".">> \o name
  BY <1>1, <1>2, SuffixIsTail
<1>4. IsSuffix(<<".">> \o name, host)
        <=> \E i \in 1 .. Len(host) : host[i] = "." /\ SubSeq(host, i + 1, Len(host)) = name
  BY <1>3, DottedIs
<1>5. DOMAIN host = 1 .. Len(host) BY HostFacts
<1>6. name \in Endings(host)
        <=> host = name \/ \E i \in 1 .. Len(host) : host[i] = "." /\ SubSeq(host, i + 1, Len(host)) = name
  BY <1>5 DEF Endings
<1> QED BY <1>4, <1>6 DEF MatchDomain

\* The indexes find what the list holds.
LEMMA IndexedIsListed ==
  ASSUME ListOK, NEW host \in Hosts, host # <<>>, NEW attr, NEW negated
  PROVE  MatchIndexed(host, attr, negated) = Listed(host, attr, negated)
<1> DEFINE F == {f \in OfType("full") : f.value = host}
           D == {f \in OfType("domain") : f.value \in Endings(host)}
           K == Keywords(host)
           R == {r \in OfType("regex") : host \in r.hosts}
<1>1. ASSUME NEW d \in domains PROVE d \in F \cup D \cup K \cup R <=> Meets(d, host)
  <2>1. /\ d.type \in {"full", "domain", "plain", "regex"}
        /\ d.type # "regex" => d.value \in Hosts /\ d.value # <<>>
    BY DEF ListOK, ListIsRead, Hosts
  <2>2. K = {f \in OfType("plain") : MatchPlain(host, f.value)} BY KeywordsAre
  <2>3. CASE d.type = "full"
    <3>1. Meets(d, host) <=> host = d.value BY <2>3 DEF Meets
    <3>2. d \in OfType("full") /\ d \notin OfType("domain") /\ d \notin OfType("plain")
          /\ d \notin OfType("regex")
      BY <2>3 DEF OfType
    <3> QED BY <2>2, <3>1, <3>2
  <2>4. CASE d.type = "domain"
    <3>1. Meets(d, host) <=> MatchDomain(host, d.value) BY <2>4 DEF Meets
    <3>2. d \in OfType("domain") /\ d \notin OfType("full") /\ d \notin OfType("plain")
          /\ d \notin OfType("regex")
      BY <2>4 DEF OfType
    <3>3. MatchDomain(host, d.value) <=> d.value \in Endings(host) BY <2>1, <2>4, EndingsAre
    <3> QED BY <2>2, <3>1, <3>2, <3>3
  <2>5. CASE d.type = "plain"
    <3>1. Meets(d, host) <=> MatchPlain(host, d.value) BY <2>5 DEF Meets
    <3>2. d \in OfType("plain") /\ d \notin OfType("full") /\ d \notin OfType("domain")
          /\ d \notin OfType("regex")
      BY <2>5 DEF OfType
    <3> QED BY <2>2, <3>1, <3>2
  <2>6. CASE d.type = "regex"
    <3>1. Meets(d, host) <=> host \in d.hosts BY <2>6 DEF Meets
    <3>2. d \in OfType("regex") /\ d \notin OfType("full") /\ d \notin OfType("domain")
          /\ d \notin OfType("plain")
      BY <2>6 DEF OfType
    <3> QED BY <2>2, <3>1, <3>2
  <2> QED BY <2>1, <2>3, <2>4, <2>5, <2>6
<1>2. F \cup D \cup K \cup R \subseteq domains
  <2>1. K \subseteq domains BY KeywordsAre DEF OfType
  <2> QED BY <2>1 DEF OfType
<1>3. MatchIndexed(host, attr, negated) = \E d \in F \cup D \cup K \cup R : Chosen(d, attr, negated)
  BY DEF MatchIndexed
<1>4. Listed(host, attr, negated) = \E d \in domains : Chosen(d, attr, negated) /\ Meets(d, host)
  BY DEF Listed
<1> HIDE DEF F, D, K, R
<1>5. (\E d \in F \cup D \cup K \cup R : Chosen(d, attr, negated))
        = \E d \in domains : Chosen(d, attr, negated) /\ Meets(d, host)
  BY <1>1, <1>2
<1> QED BY <1>3, <1>4, <1>5

----------------------------------------------------------------------------
(* The caches of both searches.                                            *)

\* Using an entry again, and adding one, keeps the entries.
LEMMA RecalledType ==
  ASSUME NEW G, NEW c \in Seq(G), NEW h, Hit(c, h) # {}
  PROVE  /\ Recalled(c, h) \in Seq(G)
         /\ c[Min(Hit(c, h))] \in G /\ c[Min(Hit(c, h))].host = h
<1> DEFINE i == Min(Hit(c, h))
<1>1. DOMAIN c = 1 .. Len(c) /\ Len(c) \in Nat BY LenProperties, Zenon
<1>2. Hit(c, h) \in SUBSET Nat BY <1>1 DEF Hit
<1>3. i \in Hit(c, h) BY <1>2, MinIs
<1>4. i \in 1 .. Len(c) /\ c[i].host = h BY <1>1, <1>3, Zenon DEF Hit
<1>5. c[i] \in G BY <1>4, ElementOfSeq, Zenon
<1>6. Recalled(c, h) = Append(RemoveAt(c, i), c[i]) BY Zenon DEF Recalled
<1> HIDE DEF i
<1>7. RemoveAt(c, i) \in Seq(G) BY <1>4, Removed
<1>8. Append(RemoveAt(c, i), c[i]) \in Seq(G) BY <1>5, <1>7
<1> QED BY <1>4, <1>5, <1>6, <1>8, Zenon DEF i

LEMMA RememberType ==
  ASSUME NEW G, NEW c \in Seq(G), NEW w \in Nat \ {0}, NEW e \in G
  PROVE  Remember(c, w, e) \in Seq(G)
<1>1. Len(c) = w => Tail(c) \in Seq(G) OBVIOUS
<1> QED BY <1>1 DEF Remember

\* The answers that the cache of the list may hold.
SiteGood == {e \in [host : Hosts, result : BOOLEAN] : e.result = Listed(e.host, "", FALSE)}

\* The answer of the list, cached or not, is that of reading it.
LEMMA SiteMatchIs ==
  ASSUME ListOK, NEW c \in Seq(SiteGood), NEW h \in Hosts, NEW attr, NEW negated
  PROVE  /\ SiteMatch(c, h, attr, negated) \in [result : BOOLEAN, cache : Seq(SiteGood)]
         /\ SiteMatch(c, h, attr, negated).result = Listed(h, attr, negated)
<1>0. \A a, n : Listed(h, a, n) \in BOOLEAN /\ Listed(h, "", n) = Listed(h, "", FALSE)
  <2>1. \A a, n : Listed(h, a, n) \in BOOLEAN BY DEF Listed
  <2>2. \A n, d : Chosen(d, "", n) = Chosen(d, "", FALSE) BY DEF Chosen
  <2> QED BY <2>1, <2>2 DEF Listed
<1> DEFINE b == Listed(h, attr, negated)
<1>b. b \in BOOLEAN BY <1>0
<1>e. CASE h = <<>>
  <2>1. SiteMatch(c, h, attr, negated) = [result |-> FALSE, cache |-> c] BY <1>e DEF SiteMatch
  <2>2. b = FALSE BY <1>e DEF Listed
  <2> HIDE DEF b
  <2>3. SiteMatch(c, h, attr, negated) = [result |-> b, cache |-> c] BY <2>1, <2>2, Zenon
  <2>4. SiteMatch(c, h, attr, negated) \in [result : BOOLEAN, cache : Seq(SiteGood)]
        /\ SiteMatch(c, h, attr, negated).result = b
    BY <1>b, <2>3
  <2> QED BY <2>4 DEF b
<1>1. CASE h # <<>> /\ attr # ""
  <2>1. SiteMatch(c, h, attr, negated) = [result |-> b, cache |-> c]
    BY <1>1, IndexedIsListed DEF SiteMatch
  <2> HIDE DEF b
  <2>2. SiteMatch(c, h, attr, negated) \in [result : BOOLEAN, cache : Seq(SiteGood)]
        /\ SiteMatch(c, h, attr, negated).result = b
    BY <1>b, <2>1
  <2> QED BY <2>2 DEF b
<1>2. CASE h # <<>> /\ attr = "" /\ Hit(c, h) # {}
  <2>0. /\ Recalled(c, h) \in Seq(SiteGood)
        /\ c[Min(Hit(c, h))] \in SiteGood /\ c[Min(Hit(c, h))].host = h
    BY <1>2, RecalledType, Zenon
  <2>1. PICK e \in SiteGood : e = c[Min(Hit(c, h))] /\ e.host = h BY <2>0
  <2>2. PICK r \in Seq(SiteGood) : r = Recalled(c, h) BY <2>0
  <2>3. SiteMatch(c, h, attr, negated) = [result |-> e.result, cache |-> r]
    BY <1>2, <2>1, <2>2 DEF SiteMatch
  <2>4. e.result = b BY <1>0, <1>2, <2>1 DEF SiteGood
  <2> HIDE DEF b
  <2>5. SiteMatch(c, h, attr, negated) \in [result : BOOLEAN, cache : Seq(SiteGood)]
        /\ SiteMatch(c, h, attr, negated).result = b
    BY <1>b, <2>3, <2>4
  <2> QED BY <2>5 DEF b
<1>3. CASE h # <<>> /\ attr = "" /\ Hit(c, h) = {}
  <2> DEFINE e == [host |-> h, result |-> Listed(h, "", FALSE)]
  <2>1. e \in SiteGood BY <1>0 DEF SiteGood
  <2>2. MatchIndexed(h, "", FALSE) = Listed(h, "", FALSE) BY <1>3, IndexedIsListed
  <2> HIDE DEF e
  <2>3. PICK r \in Seq(SiteGood) : r = Remember(c, SiteWays, e)
    <3>1. SiteWays \in Nat \ {0} BY SiteConstants
    <3> QED BY <2>1, <3>1, RememberType
  <2>4. SiteMatch(c, h, attr, negated) = [result |-> Listed(h, "", FALSE), cache |-> r]
    BY <1>3, <2>2, <2>3 DEF SiteMatch, e
  <2>5. b = Listed(h, "", FALSE) BY <1>0, <1>3
  <2>6. SiteMatch(c, h, attr, negated) = [result |-> b, cache |-> r] BY <2>4, <2>5
  <2> HIDE DEF b
  <2>7. SiteMatch(c, h, attr, negated) \in [result : BOOLEAN, cache : Seq(SiteGood)]
        /\ SiteMatch(c, h, attr, negated).result = b
    BY <1>b, <2>6
  <2> QED BY <2>7 DEF b
<1> QED BY <1>e, <1>1, <1>2, <1>3

----------------------------------------------------------------------------
(* A group of servers, and the first one that matches.                     *)

GroupsOK == GroupsAreRead(groups)

\* Results, with the cache they leave.
Results == [result : BOOLEAN, cache : Seq(SiteGood)]

LEMMA RuleAnswerIs ==
  ASSUME ListOK, NEW c \in Seq(SiteGood), NEW h \in Hosts, NEW rule, RuleIsRead(rule)
  PROVE  RuleAnswer(rule, h, c) \in Results /\ RuleAnswer(rule, h, c).result = Matches(rule, h)
<1>1. CASE rule.type = "domain"
  <2>1. RuleAnswer(rule, h, c) = [result |-> MatchDomain(h, rule.value), cache |-> c]
    BY <1>1 DEF RuleAnswer
  <2>2. Matches(rule, h) = MatchDomain(h, rule.value) BY <1>1 DEF Matches
  <2>3. MatchDomain(h, rule.value) \in BOOLEAN BY DEF MatchDomain
  <2> QED BY <2>1, <2>2, <2>3 DEF Results
<1>2. CASE rule.type = "geosite"
  <2>1. RuleAnswer(rule, h, c) = SiteMatch(c, h, rule.attr, rule.negated)
    BY <1>2 DEF RuleAnswer
  <2>2. Matches(rule, h) = Listed(h, rule.attr, rule.negated) BY <1>2 DEF Matches
  <2> QED BY <2>1, <2>2, SiteMatchIs DEF Results
<1>3. CASE rule.type = "regexp"
  <2>1. RuleAnswer(rule, h, c) = [result |-> h \in rule.hosts, cache |-> c]
    BY <1>3 DEF RuleAnswer
  <2>2. Matches(rule, h) = (h \in rule.hosts) BY <1>3 DEF Matches
  <2> QED BY <2>1, <2>2 DEF Results
<1> QED BY <1>1, <1>2, <1>3 DEF RuleIsRead

\* f is the run of a step F, from a, for 1 to n.
RunOf(f, X, a, n, F) ==
  f \in [0 .. n -> X] /\ f[0] = a /\ \A j \in 1 .. n : f[j] = F[<<f[j - 1], j>>]

LEMMA Repeated ==
  ASSUME NEW X, NEW a \in X, NEW n \in Nat, NEW F \in [X \X (1 .. n) -> X]
  PROVE  \E f : RunOf(f, X, a, n, F)
<1> DEFINE Runs(k, f) == f[0] = a /\ \A j \in 1 .. k : f[j] = F[<<f[j - 1], j>>]
           P == {k \in Nat : k <= n => \E f \in [0 .. k -> X] : Runs(k, f)}
<1>1. 0 \in P
  <2> DEFINE f == [j \in 0 .. 0 |-> a]
  <2>1. f \in [0 .. 0 -> X] /\ f[0] = a OBVIOUS
  <2>2. Runs(0, f) BY <2>1
  <2> QED BY <2>1, <2>2
<1>2. ASSUME NEW k \in Nat, k \in P PROVE k + 1 \in P
  <2>1. ASSUME k + 1 <= n PROVE \E f \in [0 .. k + 1 -> X] : Runs(k + 1, f)
    <3>1. PICK f \in [0 .. k -> X] : Runs(k, f) BY <1>2, <2>1
    <3>2. k + 1 \in 1 .. n /\ k \in 0 .. k BY <2>1
    <3>3. PICK b \in X : b = F[<<f[k], k + 1>>] BY <3>2
    <3> DEFINE h == [j \in 0 .. k + 1 |-> IF j <= k THEN f[j] ELSE b]
    <3>4. h \in [0 .. k + 1 -> X]
      <4>1. \A j \in 0 .. k + 1 : j <= k => j \in 0 .. k OBVIOUS
      <4> QED BY <4>1
    <3>5. h[0] = a BY <3>1
    <3>6. ASSUME NEW j \in 1 .. k + 1 PROVE h[j] = F[<<h[j - 1], j>>]
      <4>1. j \in 0 .. k + 1 /\ j - 1 \in 0 .. k + 1 /\ j - 1 <= k OBVIOUS
      <4>2. h[j - 1] = f[j - 1] BY <4>1
      <4>3. CASE j <= k
        <5>1. h[j] = f[j] /\ j \in 1 .. k BY <4>1, <4>3
        <5> QED BY <3>1, <4>2, <5>1
      <4>4. CASE ~ (j <= k)
        <5>1. h[j] = b /\ j = k + 1 /\ j - 1 = k BY <4>1, <4>4
        <5> QED BY <3>3, <4>2, <5>1
      <4> QED BY <4>3, <4>4
    <3> QED BY <3>4, <3>5, <3>6
  <2> QED BY <2>1
<1>3. Nat \subseteq P
  <2> HIDE DEF P
  <2> QED BY <1>1, <1>2, SetInduction
<1>4. n \in P
  <2> HIDE DEF P
  <2> QED BY <1>3
<1> HIDE DEF Runs
<1>5. \E f \in [0 .. n -> X] : Runs(n, f) BY <1>4
<1> QED BY <1>5 DEF Runs, RunOf

\* A rule of the group that is not one of domains, and matches.
OtherMatch(g, h) ==
  \E i \in DOMAIN groups[g] : groups[g][i].type # "domain" /\ Matches(groups[g][i], h)

LEMMA GroupAnswerIs ==
  ASSUME ListOK, GroupsOK, NEW g \in DOMAIN groups, NEW h \in Hosts, NEW c \in Seq(SiteGood)
  PROVE  /\ GroupAnswer(g, h, c) \in Results
         /\ GroupAnswer(g, h, c).result <=> OtherMatch(g, h)
<1> DEFINE n == Len(groups[g])
           A0 == [result |-> FALSE, cache |-> c]
           Go(got, j) == IF got.result \/ groups[g][j].type = "domain" THEN got
                         ELSE RuleAnswer(groups[g][j], h, got.cache)
           Solves(f) == f = [j \in 0 .. n |-> IF j = 0 THEN A0 ELSE Go(f[j - 1], j)]
           F == [p \in Results \X (1 .. n) |-> Go(p[1], p[2])]
           Seen(j) == \E i \in 1 .. j : groups[g][i].type # "domain" /\ Matches(groups[g][i], h)
<1>0. n \in Nat /\ DOMAIN groups[g] = 1 .. n /\ \A i \in 1 .. n : RuleIsRead(groups[g][i])
  BY DEF GroupsOK, GroupsAreRead, IsList
<1>1. A0 \in Results BY DEF Results
<1>2. ASSUME NEW got \in Results, NEW j \in 1 .. n
      PROVE  /\ Go(got, j) \in Results
             /\ Go(got, j).result <=> \/ got.result
                                      \/ groups[g][j].type # "domain" /\ Matches(groups[g][j], h)
  <2>1. got.result \in BOOLEAN /\ got.cache \in Seq(SiteGood) BY DEF Results
  <2>2. CASE got.result \/ groups[g][j].type = "domain" BY <2>2, Zenon
  <2>3. CASE ~ (got.result \/ groups[g][j].type = "domain")
    <3>1. RuleAnswer(groups[g][j], h, got.cache) \in Results
          /\ RuleAnswer(groups[g][j], h, got.cache).result = Matches(groups[g][j], h)
      BY <1>0, <2>1, RuleAnswerIs
    <3> QED BY <2>3, <3>1, Zenon
  <2> QED BY <2>2, <2>3
<1> HIDE DEF Go, A0
<1>3. F \in [Results \X (1 .. n) -> Results] BY <1>2
<1>4. PICK e \in [0 .. n -> Results] : e[0] = A0 /\ \A j \in 1 .. n : e[j] = F[<<e[j - 1], j>>]
  <2>1. n \in Nat BY <1>0
  <2> HIDE DEF F, n
  <2>2. \E e : RunOf(e, Results, A0, n, F) BY <1>1, <1>3, <2>1, Repeated
  <2> QED BY <2>2 DEF RunOf
<1>5. Solves(e)
  <2>1. \A j \in 0 .. n : j # 0 => j \in 1 .. n /\ j - 1 \in 0 .. n BY <1>0
  <2>2. \A j \in 1 .. n : e[j - 1] \in Results
    <3>1. \A j \in 1 .. n : j - 1 \in 0 .. n BY <1>0
    <3> QED BY <1>4, <3>1
  <2>3. \A j \in 1 .. n : e[j] = Go(e[j - 1], j) BY <1>4, <2>2
  <2>4. \A j \in 0 .. n : e[j] = IF j = 0 THEN A0 ELSE Go(e[j - 1], j) BY <1>4, <2>1, <2>3
  <2> QED BY <2>4
<1>6. PICK f : f = (CHOOSE z : Solves(z)) /\ Solves(f) BY <1>5, Zenon
<1>7. GroupAnswer(g, h, c) = f[n] BY <1>6 DEF GroupAnswer, Go, A0
<1> HIDE DEF F
<1>8. \A j \in 0 .. n : f[j] = IF j = 0 THEN A0 ELSE Go(f[j - 1], j) BY <1>6
<1> DEFINE P == {k \in Nat : k <= n => f[k] \in Results /\ (f[k].result <=> Seen(k))}
<1>9. 0 \in P
  <2>1. f[0] = A0 /\ A0.result = FALSE
    <3>1. 0 \in 0 .. n BY <1>0
    <3> QED BY <1>8, <3>1 DEF A0
  <2>2. ~ Seen(0) OBVIOUS
  <2> QED BY <1>1, <2>1, <2>2
<1>10. ASSUME NEW k \in Nat, k \in P PROVE k + 1 \in P
  <2>1. ASSUME k + 1 <= n
        PROVE  f[k + 1] \in Results /\ (f[k + 1].result <=> Seen(k + 1))
    <3>1. PICK j \in 1 .. n : j = k + 1 BY <1>0, <2>1
    <3>2. j \in 0 .. n /\ j # 0 /\ j - 1 = k /\ k <= n BY <1>0, <3>1
    <3>3. f[k] \in Results /\ (f[k].result <=> Seen(k)) BY <1>10, <3>2
    <3>4. f[j] = Go(f[k], j) BY <1>8, <3>2
    <3>5. Seen(k + 1) <=> Seen(k) \/ (groups[g][j].type # "domain" /\ Matches(groups[g][j], h))
      <4>1. \A i \in 1 .. k + 1 : i = j \/ i \in 1 .. k BY <3>1
      <4>2. j \in 1 .. k + 1 /\ \A i \in 1 .. k : i \in 1 .. k + 1 BY <3>1
      <4> QED BY <4>1, <4>2
    <3> HIDE DEF Seen
    <3> QED BY <1>2, <3>1, <3>3, <3>4, <3>5
  <2> QED BY <2>1
<1>11. Nat \subseteq P
  <2> HIDE DEF P
  <2> QED BY <1>9, <1>10, SetInduction
<1>12. f[n] \in Results /\ (f[n].result <=> Seen(n)) BY <1>0, <1>11
<1>13. OtherMatch(g, h) <=> Seen(n) BY <1>0 DEF OtherMatch
<1> QED BY <1>7, <1>12, <1>13

\* A rule of domains of the group that matches, and any rule that does.
DomainMatches(g, h) ==
  \E i \in DOMAIN groups[g] : groups[g][i].type = "domain" /\ Matches(groups[g][i], h)

Matching(h) == {g \in DOMAIN groups : \E i \in DOMAIN groups[g] : Matches(groups[g][i], h)}
FirstGroup(h) == Least(Matching(h))

LEMMA GroupsAre ==
  ASSUME GroupsOK
  PROVE  Len(groups) \in Nat /\ DOMAIN groups = 1 .. Len(groups)
BY DEF GroupsOK, GroupsAreRead, IsList

LEMMA MatchingSplits ==
  ASSUME NEW h, NEW g \in DOMAIN groups
  PROVE  g \in Matching(h) <=> DomainMatches(g, h) \/ OtherMatch(g, h)
BY DEF Matching, DomainMatches, OtherMatch

\* The index of domains finds the first group that names the host.
LEMMA NamedFirstIs ==
  ASSUME GroupsOK, NEW h \in Hosts
  PROVE  NamedFirst(h) = Least({g \in DOMAIN groups : DomainMatches(g, h)})
<1>1. ASSUME NEW g \in DOMAIN groups
      PROVE  DomainsOf(g) \cap Endings(h) # {} <=> DomainMatches(g, h)
  <2>1. ASSUME NEW i \in DOMAIN groups[g], groups[g][i].type = "domain"
        PROVE  groups[g][i].value \in Endings(h) <=> Matches(groups[g][i], h)
    <3>1. groups[g][i].value \in Hosts /\ groups[g][i].value # <<>>
      BY <2>1 DEF GroupsOK, GroupsAreRead, RuleIsRead, Hosts
    <3>2. Matches(groups[g][i], h) = MatchDomain(h, groups[g][i].value) BY <2>1 DEF Matches
    <3> QED BY <3>1, <3>2, EndingsAre
  <2>2. \A v : v \in DomainsOf(g) <=> \E i \in DOMAIN groups[g] : groups[g][i].type = "domain"
                                                                 /\ v = groups[g][i].value
    BY DEF DomainsOf
  <2> QED BY <2>1, <2>2 DEF DomainMatches
<1>2. {g \in DOMAIN groups : DomainsOf(g) \cap Endings(h) # {}}
        = {g \in DOMAIN groups : DomainMatches(g, h)}
  BY <1>1
<1> QED BY <1>2 DEF NamedFirst, Least

LEMMA LeastIs ==
  ASSUME NEW S \in SUBSET Nat
  PROVE  /\ S = {} => Least(S) = 0
         /\ S # {} => Least(S) \in S /\ \A y \in S : Least(S) <= y
BY MinIs DEF Least

\* The search, group by group, finds the first group with a rule that matches.
LEMMA GroupSearchIs ==
  ASSUME ListOK, GroupsOK, siteCache \in Seq(SiteGood), NEW h \in Hosts
  PROVE  GroupSearch(h).group = FirstGroup(h) /\ GroupSearch(h).cache \in Seq(SiteGood)
<1> DEFINE N == Len(groups)
           nf == NamedFirst(h)
           limit == IF nf = 0 THEN N ELSE nf - 1
           Scans == [group : 0 .. N, cache : Seq(SiteGood)]
           A0 == [group |-> 0, cache |-> siteCache]
           Go(at, g) == IF at.group # 0 THEN at
                        ELSE [group |-> IF GroupAnswer(g, h, at.cache).result THEN g ELSE 0,
                              cache |-> GroupAnswer(g, h, at.cache).cache]
           Solves(f) == f = [g \in 0 .. limit |-> IF g = 0 THEN A0 ELSE Go(f[g - 1], g)]
           F == [p \in Scans \X (1 .. limit) |-> Go(p[1], p[2])]
           Others(k) == {g \in 1 .. k : OtherMatch(g, h)}
           Named == {g \in DOMAIN groups : DomainMatches(g, h)}
<1>0. N \in Nat /\ DOMAIN groups = 1 .. N BY GroupsAre
<1>1. nf = Least(Named) /\ Named \in SUBSET Nat BY <1>0, NamedFirstIs
<1>2. /\ nf \in 0 .. N
      /\ nf # 0 => nf \in Named /\ \A g \in Named : nf <= g
      /\ nf = 0 => Named = {}
  <2>1. \A g \in Named : g \in 1 .. N BY <1>0
  <2> HIDE DEF Named
  <2>2. CASE Named = {} BY <1>0, <1>1, <2>2, LeastIs
  <2>3. CASE Named # {}
    <3>1. nf \in Named /\ \A g \in Named : nf <= g BY <1>1, <2>3, LeastIs
    <3> QED BY <1>0, <2>1, <3>1
  <2> QED BY <2>2, <2>3
<1> HIDE DEF nf, Named
<1>3. limit \in 0 .. N /\ limit \in Nat
  <2>1. PICK k \in 0 .. N : k = nf BY <1>2
  <2> QED BY <1>0, <2>1
<1> HIDE DEF limit
<1>4. A0 \in Scans BY <1>0 DEF Scans
<1>5. ASSUME NEW at \in Scans, NEW g \in 1 .. limit
      PROVE  /\ Go(at, g) \in Scans
             /\ Go(at, g).group = IF at.group # 0 THEN at.group
                                  ELSE IF OtherMatch(g, h) THEN g ELSE 0
  <2>1. at.group \in 0 .. N /\ at.cache \in Seq(SiteGood) OBVIOUS
  <2>2. g \in 1 .. N /\ g \in DOMAIN groups BY <1>0, <1>3
  <2>3. PICK r \in Results : r = GroupAnswer(g, h, at.cache) /\ (r.result <=> OtherMatch(g, h))
    BY <2>1, <2>2, GroupAnswerIs
  <2>4. r.result \in BOOLEAN /\ r.cache \in Seq(SiteGood) BY DEF Results
  <2>5. CASE at.group # 0 BY <2>5
  <2>6. CASE at.group = 0
    <3>1. Go(at, g) = [group |-> IF r.result THEN g ELSE 0, cache |-> r.cache] BY <2>3, <2>6
    <3>2. (IF r.result THEN g ELSE 0) \in 0 .. N BY <1>0, <2>2
    <3> HIDE DEF Go
    <3>3. Go(at, g) \in Scans BY <2>4, <3>1, <3>2
    <3>4. Go(at, g).group = IF r.result THEN g ELSE 0 BY <3>1
    <3> QED BY <2>3, <2>6, <3>3, <3>4
  <2> QED BY <2>5, <2>6
<1> HIDE DEF Go, A0, Scans
<1>6. F \in [Scans \X (1 .. limit) -> Scans] BY <1>5
<1>7. PICK e \in [0 .. limit -> Scans] : e[0] = A0 /\ \A j \in 1 .. limit : e[j] = F[<<e[j - 1], j>>]
  <2> HIDE DEF F
  <2>1. \E e : RunOf(e, Scans, A0, limit, F) BY <1>3, <1>4, <1>6, Repeated
  <2> QED BY <2>1 DEF RunOf
<1>8. Solves(e)
  <2>1. \A j \in 0 .. limit : j # 0 => j \in 1 .. limit /\ j - 1 \in 0 .. limit BY <1>3
  <2>2. \A j \in 1 .. limit : e[j - 1] \in Scans
    <3>1. \A j \in 1 .. limit : j - 1 \in 0 .. limit BY <1>3
    <3> QED BY <1>7, <3>1
  <2>3. \A j \in 1 .. limit : e[j] = Go(e[j - 1], j) BY <1>7, <2>2
  <2>4. \A j \in 0 .. limit : e[j] = IF j = 0 THEN A0 ELSE Go(e[j - 1], j) BY <1>7, <2>1, <2>3
  <2> QED BY <2>4
<1>9. PICK f : f = (CHOOSE z : Solves(z)) /\ Solves(f) BY <1>8, Zenon
<1>10. GroupSearch(h) = IF f[limit].group # 0 THEN f[limit] ELSE [f[limit] EXCEPT !.group = nf]
  BY <1>9 DEF GroupSearch, Go, A0, limit, nf
<1> HIDE DEF F
<1>11. \A g \in 0 .. limit : f[g] = IF g = 0 THEN A0 ELSE Go(f[g - 1], g) BY <1>9
<1> DEFINE P == {k \in Nat : k <= limit => f[k] \in Scans /\ f[k].group = Least(Others(k))}
<1>12. 0 \in P
  <2>1. f[0] = A0 /\ A0.group = 0
    <3>1. 0 \in 0 .. limit BY <1>3
    <3> QED BY <1>11, <3>1 DEF A0
  <2>2. Others(0) = {} OBVIOUS
  <2> QED BY <1>4, <2>1, <2>2 DEF Least
<1>13. ASSUME NEW k \in Nat, k \in P PROVE k + 1 \in P
  <2>1. ASSUME k + 1 <= limit
        PROVE  f[k + 1] \in Scans /\ f[k + 1].group = Least(Others(k + 1))
    <3>1. PICK j \in 1 .. limit : j = k + 1 BY <1>3, <2>1
    <3>2. j \in 0 .. limit /\ j # 0 /\ j - 1 = k /\ k <= limit BY <1>3, <3>1
    <3>3. f[k] \in Scans /\ f[k].group = Least(Others(k)) BY <1>13, <3>2
    <3>4. f[j] = Go(f[k], j) BY <1>11, <3>2
    <3>5. f[j] \in Scans /\ f[j].group = IF f[k].group # 0 THEN f[k].group
                                         ELSE IF OtherMatch(j, h) THEN j ELSE 0
      BY <1>5, <3>3, <3>4
    <3>6. \A g : g \in Others(k + 1) <=> g \in Others(k) \/ (g = j /\ OtherMatch(j, h))
      BY <3>1
    <3>7. Others(k) \in SUBSET Nat /\ Others(k + 1) \in SUBSET Nat OBVIOUS
    <3>8. \A g \in Others(k) : g \in Nat /\ 1 <= g /\ g <= k OBVIOUS
    <3>9. CASE Others(k) # {}
      <4> HIDE DEF Others
      <4>1. PICK m \in Others(k) : m = Least(Others(k)) /\ \A y \in Others(k) : m <= y
        BY <3>7, <3>9, LeastIs
      <4>2. m \in Others(k + 1) /\ m # 0 BY <3>6, <3>8
      <4>3. \A y \in Others(k + 1) : m <= y
        <5>1. m <= j BY <3>1, <3>8
        <5> QED BY <3>6, <4>1, <5>1
      <4>4. Least(Others(k + 1)) = m BY <3>7, <4>2, <4>3, MinUnique DEF Least
      <4> QED BY <3>1, <3>3, <3>5, <4>1, <4>2, <4>4
    <3>10. CASE Others(k) = {} /\ OtherMatch(j, h)
      <4> HIDE DEF Others
      <4>1. f[k].group = 0 BY <3>3, <3>10 DEF Least
      <4>2. Others(k + 1) = {j} BY <3>6, <3>10
      <4>3. Least(Others(k + 1)) = j
        <5>1. {j} \in SUBSET Nat /\ j \in {j} /\ \A y \in {j} : j <= y BY <3>1
        <5>2. Min({j}) = j BY <5>1, MinUnique
        <5> QED BY <4>2, <5>2 DEF Least
      <4> QED BY <3>1, <3>5, <3>10, <4>1, <4>3
    <3>11. CASE Others(k) = {} /\ ~ OtherMatch(j, h)
      <4> HIDE DEF Others
      <4>1. f[k].group = 0 BY <3>3, <3>11 DEF Least
      <4>2. Others(k + 1) = {} BY <3>6, <3>11
      <4> QED BY <3>1, <3>5, <3>11, <4>1, <4>2 DEF Least
    <3> QED BY <3>9, <3>10, <3>11
  <2> QED BY <2>1
<1>14. Nat \subseteq P
  <2> HIDE DEF P
  <2> QED BY <1>12, <1>13, SetInduction
<1>15. f[limit] \in Scans /\ f[limit].group = Least(Others(limit))
  <2>1. limit \in P
    <3> HIDE DEF P
    <3> QED BY <1>3, <1>14
  <2>2. limit <= limit BY <1>3
  <2> QED BY <2>1, <2>2
<1>16. \A r : r \in Others(limit) <=> r \in Matching(h) /\ r > 0 /\ (nf = 0 \/ r < nf)
  <2>1. \A r \in Matching(h) : r \in 1 .. N BY <1>0 DEF Matching
  <2>2. ASSUME NEW r \in 1 .. limit, OtherMatch(r, h)
        PROVE  r \in Matching(h) /\ r > 0 /\ (nf = 0 \/ r < nf)
    <3>1. r \in DOMAIN groups BY <1>0, <1>3
    <3>2. nf = 0 \/ r < nf BY <1>0, <1>2 DEF limit
    <3> QED BY <2>2, <3>1, <3>2, MatchingSplits
  <2>3. ASSUME NEW r \in Matching(h), nf = 0 \/ r < nf PROVE r \in 1 .. limit /\ OtherMatch(r, h)
    <3>1. r \in 1 .. N /\ r \in DOMAIN groups BY <1>0, <2>1
    <3>2. r \notin Named
      <4>1. \A g \in Named : g \in 1 .. N BY <1>0 DEF Named
      <4> QED BY <1>2, <2>3, <3>1, <4>1
    <3>3. OtherMatch(r, h) BY <3>1, <3>2, MatchingSplits DEF Named
    <3>4. r \in 1 .. limit BY <1>0, <1>2, <2>3, <3>1 DEF limit
    <3> QED BY <3>3, <3>4
  <2> QED BY <2>2, <2>3
<1>17. LeastOfParts({}, Others(limit), nf) = FirstGroup(h)
  <2>1. Matching(h) \in SUBSET (1 .. N) BY <1>0 DEF Matching
  <2>2. nf # 0 => nf \in Matching(h) /\ nf > 0
    <3>1. nf # 0 => nf \in DOMAIN groups /\ DomainMatches(nf, h) BY <1>2 DEF Named
    <3>2. nf # 0 => nf > 0 BY <1>0, <1>2
    <3> QED BY <3>1, <3>2, MatchingSplits
  <2>3. \A r : r \in {} <=> r \in Matching(h) /\ r <= 0 BY <2>1
  <2> HIDE DEF Others
  <2>4. 0 \in Nat OBVIOUS
  <2> QED BY <1>0, <1>2, <1>16, <2>1, <2>2, <2>3, <2>4, FirstOfParts DEF FirstGroup
<1>18. Others(limit) \in SUBSET Nat /\ 0 \notin Others(limit) BY <1>3
<1> HIDE DEF Others
<1>19. CASE Others(limit) = {}
  <2>1. f[limit].group = 0 /\ FirstGroup(h) = nf BY <1>15, <1>17, <1>19 DEF Least, LeastOfParts
  <2>2. GroupSearch(h) = [f[limit] EXCEPT !.group = nf] BY <1>10, <2>1
  <2> QED BY <1>15, <2>1, <2>2 DEF Scans
<1>20. CASE Others(limit) # {}
  <2>1. Least(Others(limit)) = FirstGroup(h) BY <1>17, <1>20 DEF Least, LeastOfParts
  <2>2. Least(Others(limit)) \in Others(limit) BY <1>18, <1>20, LeastIs
  <2>3. f[limit].group # 0 BY <1>15, <1>18, <2>2
  <2>4. GroupSearch(h) = f[limit] BY <1>10, <2>3
  <2> QED BY <1>15, <2>1, <2>4 DEF Scans
<1> QED BY <1>19, <1>20

----------------------------------------------------------------------------
(* The searches are right in every state.                                  *)

\* The answers that the cache of the rules may hold.
DnsGood == {e \in [host : Hosts, group : Nat] : e.group = FirstGroup(e.host)}

DnsInv ==
  /\ ListOK /\ GroupsOK
  /\ siteCache \in Seq(SiteGood) /\ dnsCache \in Seq(DnsGood)
  /\ ListDecides /\ FirstGroupDecides

LEMMA FirstGroupType ==
  ASSUME GroupsOK, NEW h
  PROVE  FirstGroup(h) \in Nat
<1>1. Matching(h) \in SUBSET Nat BY GroupsAre DEF Matching
<1> QED BY <1>1, LeastIs DEF FirstGroup

\* Neither search changes the list or the groups.
LEMMA ListsStay ==
  ASSUME UNCHANGED <<domains, groups>>
  PROVE  /\ ListOK' = ListOK /\ GroupsOK' = GroupsOK
         /\ SiteGood' = SiteGood /\ DnsGood' = DnsGood
         /\ \A h : FirstGroup(h)' = FirstGroup(h)
         /\ \A h, a, n : Listed(h, a, n)' = Listed(h, a, n)
<1>1. domains' = domains /\ groups' = groups OBVIOUS
<1>2. ListOK' = ListOK BY <1>1, Zenon DEF ListOK, ListIsRead
<1>3. GroupsOK' = GroupsOK BY <1>1, Zenon DEF GroupsOK, GroupsAreRead, RuleIsRead
<1>4. ASSUME NEW h, NEW a, NEW n PROVE Listed(h, a, n)' = Listed(h, a, n)
  BY <1>1, Zenon DEF Listed
<1>5. SiteGood' = SiteGood BY <1>1, Zenon DEF SiteGood, Listed
<1>6. ASSUME NEW h, NEW rule PROVE Matches(rule, h)' = Matches(rule, h)
  BY <1>1, Zenon DEF Matches, Listed
<1>7. ASSUME NEW h PROVE FirstGroup(h)' = FirstGroup(h)
  BY <1>1, Zenon DEF FirstGroup, Matching, Matches, Listed
<1>8. DnsGood' = DnsGood
  <2>1. ASSUME NEW e PROVE e \in DnsGood' <=> e \in DnsGood
    BY <1>7, Zenon DEF DnsGood
  <2> QED BY <2>1, Zenon
<1> QED BY <1>2, <1>3, <1>4, <1>5, <1>7, <1>8

LEMMA UndottedType ==
  ASSUME NEW s \in Hosts
  PROVE  Undotted(s) \in Hosts
<1>1. Len(s) > 1 => s # <<>> BY HostFacts
<1> QED BY <1>1, FrontFacts DEF Undotted

LEMMA DnsInitInv == DnsInit => DnsInv
<1> SUFFICES ASSUME DnsInit PROVE DnsInv OBVIOUS
<1>1. PICK c \in Configured : domains = c[1] /\ groups = c[2] BY DEF DnsInit
<1>2. ListOK /\ GroupsOK
  <2>1. ListIsRead(c[1]) /\ GroupsAreRead(c[2]) BY DnsConstants
  <2> QED BY <1>1, <2>1 DEF ListOK, GroupsOK
<1>4. siteCache \in Seq(SiteGood) /\ dnsCache \in Seq(DnsGood) BY EmptySeq DEF DnsInit
<1>5. ListDecides /\ FirstGroupDecides
  BY DEF DnsInit, NotAsked, ListDecides, FirstGroupDecides
<1> QED BY <1>2, <1>4, <1>5 DEF DnsInv

LEMMA DnsMatchInv ==
  ASSUME DnsInv, NEW name \in DnsNames, DnsMatch(name)
  PROVE  DnsInv'
<1> DEFINE h == Undotted(name)
<1>0. h \in Hosts BY UndottedType, DnsConstants DEF Hosts
<1>1. UNCHANGED <<domains, groups>> BY DEF DnsMatch
<1>2. /\ GroupSearch(h).group = FirstGroup(h) /\ GroupSearch(h).cache \in Seq(SiteGood)
      /\ FirstGroup(h) \in Nat
  BY <1>0, GroupSearchIs, FirstGroupType DEF DnsInv
<1>3. ASSUME question'.by = "dns", question'.host = h, question'.answer = FirstGroup(h),
             siteCache' \in Seq(SiteGood), dnsCache' \in Seq(DnsGood)
      PROVE  DnsInv'
  <2>1. ListDecides' BY <1>3 DEF ListDecides
  <2>2. FirstGroupDecides'
    <3>1. domains' = domains /\ groups' = groups BY <1>1
    <3>2. question'.answer = FirstGroup(question'.host) BY <1>3
    <3> HIDE DEF h
    <3> QED
      BY <3>1, <3>2, Zenon DEF FirstGroupDecides, FirstGroup, Matching, Least, Matches, Listed
  <2> QED BY <1>1, <1>3, <2>1, <2>2, ListsStay DEF DnsInv
<1>4. CASE Hit(dnsCache, h) # {}
  <2>1. /\ question' = [by |-> "dns", host |-> h,
                        answer |-> dnsCache[Min(Hit(dnsCache, h))].group]
        /\ dnsCache' = Recalled(dnsCache, h) /\ siteCache' = siteCache
    BY <1>4 DEF DnsMatch
  <2>2. /\ Recalled(dnsCache, h) \in Seq(DnsGood)
        /\ dnsCache[Min(Hit(dnsCache, h))] \in DnsGood
        /\ dnsCache[Min(Hit(dnsCache, h))].host = h
    BY <1>4, RecalledType, Zenon DEF DnsInv
  <2>3. dnsCache[Min(Hit(dnsCache, h))].group = FirstGroup(h) BY <2>2 DEF DnsGood
  <2>4. question'.by = "dns" /\ question'.host = h /\ question'.answer = FirstGroup(h)
    BY <2>1, <2>3
  <2> QED BY <1>3, <2>1, <2>2, <2>4 DEF DnsInv
<1>5. CASE Hit(dnsCache, h) = {}
  <2> DEFINE e == [host |-> h, group |-> FirstGroup(h)]
  <2>1. /\ question' = [by |-> "dns", host |-> h, answer |-> FirstGroup(h)]
        /\ dnsCache' = Remember(dnsCache, DnsWays, e)
        /\ siteCache' = GroupSearch(h).cache
    BY <1>2, <1>5 DEF DnsMatch
  <2>2. e \in DnsGood BY <1>0, <1>2 DEF DnsGood
  <2>3. Remember(dnsCache, DnsWays, e) \in Seq(DnsGood)
    <3>1. DnsWays \in Nat \ {0} BY DnsConstants
    <3> HIDE DEF e
    <3> QED BY <2>2, <3>1, RememberType DEF DnsInv
  <2>4. question'.by = "dns" /\ question'.host = h /\ question'.answer = FirstGroup(h)
    BY <2>1
  <2> QED BY <1>2, <1>3, <2>1, <2>3, <2>4
<1> QED BY <1>4, <1>5

LEMMA RouteMatchInv ==
  ASSUME DnsInv, NEW name \in DnsNames, NEW rule, RouteMatch(name, rule)
  PROVE  DnsInv'
<1>0. name \in Hosts BY DnsConstants DEF Hosts
<1>1. UNCHANGED <<domains, groups, dnsCache>> BY DEF RouteMatch
<1>2. PICK got : /\ got = SiteMatch(siteCache, name, rule.attr, rule.negated)
                 /\ got.result = Listed(name, rule.attr, rule.negated)
                 /\ got.cache \in Seq(SiteGood)
  BY <1>0, SiteMatchIs DEF DnsInv
<1>3. /\ question' = [by |-> "route", host |-> name, rule |-> rule, answer |-> got.result]
      /\ siteCache' = got.cache
  BY <1>2 DEF RouteMatch
<1>4. /\ question'.by = "route" /\ question'.host = name /\ question'.rule = rule
      /\ question'.answer = Listed(name, rule.attr, rule.negated)
  BY <1>2, <1>3
<1>5. ListDecides'
  <2>1. Listed(name, rule.attr, rule.negated)' = Listed(name, rule.attr, rule.negated)
    BY <1>1, Zenon DEF Listed
  <2> QED BY <1>1, <1>4, Zenon DEF ListDecides, Listed
<1>6. FirstGroupDecides' BY <1>4 DEF FirstGroupDecides
<1> QED BY <1>1, <1>2, <1>3, <1>5, <1>6, ListsStay DEF DnsInv

LEMMA DnsNextInv == DnsInv /\ [DnsNext]_dnsVars => DnsInv'
<1> SUFFICES ASSUME DnsInv, [DnsNext]_dnsVars PROVE DnsInv' OBVIOUS
<1>1. CASE UNCHANGED dnsVars
  <2>1. /\ domains' = domains /\ groups' = groups /\ siteCache' = siteCache
        /\ dnsCache' = dnsCache /\ question' = question
    BY <1>1 DEF dnsVars
  <2>2. ListDecides' = ListDecides BY <2>1, Zenon DEF ListDecides, Listed
  <2>3. FirstGroupDecides' = FirstGroupDecides
    BY <2>1, Zenon DEF FirstGroupDecides, Matches, Listed
  <2> QED BY <2>1, <2>2, <2>3, ListsStay DEF DnsInv
<1>2. CASE DnsNext BY <1>2, DnsMatchInv, RouteMatchInv DEF DnsNext
<1> QED BY <1>1, <1>2

\* What a geosite rule says of a name is what reading the list from end to end
\* says, whichever index, trie or cache answers (geosite_match).
THEOREM ListsDecide == DnsSpec => []ListDecides
<1>1. DnsInv => ListDecides BY DEF DnsInv
<1> QED BY DnsInitInv, DnsNextInv, <1>1, PTL DEF DnsSpec

\* The group that is found for a name is the first with a rule that matches,
\* whatever the index and the caches hold (dns_rules_match).
THEOREM FirstGroupsDecide == DnsSpec => []FirstGroupDecides
<1>1. DnsInv => FirstGroupDecides BY DEF DnsInv
<1> QED BY DnsInitInv, DnsNextInv, <1>1, PTL DEF DnsSpec
=============================================================================

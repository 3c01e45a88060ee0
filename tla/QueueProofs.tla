----------------------------- MODULE QueueProofs -----------------------------
(***************************************************************************)
(* Lemmas the other proofs share: induction over the natural numbers for a *)
(* set, what taking an element out of a queue leaves, and sums over finite *)
(* sets.                                                                   *)
(***************************************************************************)
EXTENDS Queues, SequenceTheorems, FiniteSetTheorems, WellFoundedInduction, TLAPS

----------------------------------------------------------------------------
(* Induction.  A property is the set of the numbers that have it.          *)

Below == {mn \in Nat \X Nat : mn[1] < mn[2]}

LEMMA BelowWellFounded == IsWellFoundedOn(Below, Nat)
BY NatLessThanWellFounded, Zenon DEF OpToRel, Below

LEMMA LeastNumber ==
  ASSUME NEW S \in SUBSET Nat, S # {}
  PROVE  \E n \in S : \A m \in S : n <= m
<1>1. PICK n \in S : \A m \in S : <<m, n>> \notin Below
  BY BelowWellFounded, WFMin, Zenon
<1>2. ASSUME NEW m \in S, m < n PROVE <<m, n>> \in Below
  <2>1. <<m, n>> \in Nat \X Nat /\ <<m, n>>[1] = m /\ <<m, n>>[2] = n OBVIOUS
  <2> QED BY <1>2, <2>1 DEF Below
<1>3. ASSUME NEW m \in S PROVE n <= m
  <2>1. ~(m < n) BY <1>1, <1>2, <1>3
  <2>2. m \in Nat /\ n \in Nat BY <1>3
  <2> QED BY <2>1, <2>2
<1> QED BY <1>3

LEMMA SetInduction ==
  ASSUME NEW S, 0 \in S, \A n \in Nat : n \in S => n + 1 \in S
  PROVE  Nat \subseteq S
<1> DEFINE T == Nat \ S
<1>1. SUFFICES ASSUME T # {} PROVE FALSE OBVIOUS
<1>2. PICK n \in T : \A m \in T : n <= m BY <1>1, LeastNumber
<1>3. n \in Nat /\ n # 0 BY <1>2
<1>4. n - 1 \in Nat /\ n - 1 \notin T BY <1>2, <1>3
<1>5. (n - 1) + 1 \in S BY <1>4
<1> QED BY <1>2, <1>3, <1>5

\* The remainder is the only number below m that differs by a multiple of m.
LEMMA ModUnique ==
  ASSUME NEW m \in Nat \ {0}, NEW x \in Int, NEW k \in Int, NEW r \in Int,
         0 <= r, r < m, x = m * k + r
  PROVE  x % m = r
OBVIOUS

----------------------------------------------------------------------------
(* Queues.                                                                 *)

\* The places of what is left by the removal of place i.
LEMMA Removed ==
  ASSUME NEW T, NEW s \in Seq(T), NEW i \in 1 .. Len(s)
  PROVE  /\ RemoveAt(s, i) \in Seq(T)
         /\ Len(RemoveAt(s, i)) = Len(s) - 1
         /\ \A j \in 1 .. Len(s) - 1 :
              RemoveAt(s, i)[j] = IF j < i THEN s[j] ELSE s[j + 1]
<1> DEFINE a == SubSeq(s, 1, i - 1)
           b == SubSeq(s, i + 1, Len(s))
<1>0. Len(s) \in Nat BY LenProperties
<1>1. /\ a \in Seq(T) /\ Len(a) = i - 1
      /\ \A j \in 1 .. i - 1 : a[j] = s[j]
  BY <1>0, SubSeqProperties, ElementOfSeq
<1>2. /\ b \in Seq(T) /\ Len(b) = Len(s) - i
      /\ \A j \in 1 .. Len(s) - i : b[j] = s[j + i]
  BY <1>0, SubSeqProperties, ElementOfSeq
<1> HIDE DEF a, b
<1>3. /\ a \o b \in Seq(T) /\ Len(a \o b) = Len(a) + Len(b)
      /\ \A j \in 1 .. Len(a) + Len(b) : (a \o b)[j] = IF j <= Len(a) THEN a[j] ELSE b[j - Len(a)]
  BY <1>1, <1>2, ConcatProperties
<1>4. RemoveAt(s, i) = a \o b BY DEF RemoveAt, a, b
<1>5. Len(a) + Len(b) = Len(s) - 1 BY <1>0, <1>1, <1>2
<1>6. ASSUME NEW j \in 1 .. Len(s) - 1
      PROVE  (a \o b)[j] = IF j < i THEN s[j] ELSE s[j + 1]
  <2>1. CASE j < i
    <3>1. (a \o b)[j] = a[j] BY <1>0, <1>1, <1>3, <1>5, <2>1
    <3> QED BY <1>0, <1>1, <2>1, <3>1
  <2>2. CASE ~(j < i)
    <3>1. (a \o b)[j] = b[j - (i - 1)] BY <1>0, <1>1, <1>3, <1>5, <2>2
    <3>2. j - (i - 1) \in 1 .. Len(s) - i /\ (j - (i - 1)) + i = j + 1 BY <1>0, <2>2
    <3>3. b[j - (i - 1)] = s[j + 1] BY <1>2, <3>2
    <3> QED BY <2>2, <3>1, <3>3
  <2> QED BY <2>1, <2>2
<1> QED BY <1>3, <1>4, <1>5, <1>6

\* An element leaves the queue it is in once; the order of the others and
\* their number stay.
LEMMA WithoutProperties ==
  ASSUME NEW T, NEW s \in Seq(T), IsInjective(s), NEW x
  PROVE  /\ Without(s, x) \in Seq(T) /\ Len(Without(s, x)) <= Len(s)
         /\ Len(Without(s, x)) = IF x \in ToSet(s) THEN Len(s) - 1 ELSE Len(s)
         /\ ToSet(Without(s, x)) = ToSet(s) \ {x}
         /\ IsInjective(Without(s, x))
<1>0. Len(s) \in Nat /\ DOMAIN s = 1 .. Len(s) BY LenProperties
<1>1. CASE x \notin ToSet(s)
  <2>1. Without(s, x) = s BY <1>1 DEF Without, In
  <2>2. ToSet(s) \ {x} = ToSet(s) BY <1>1
  <2> QED BY <1>0, <1>1, <2>1, <2>2
<1>2. CASE x \in ToSet(s)
  <2> DEFINE i == CHOOSE k \in DOMAIN s : s[k] = x
             r == RemoveAt(s, i)
  <2>1. i \in 1 .. Len(s) /\ s[i] = x BY <1>0, <1>2 DEF ToSet
  <2>2. Without(s, x) = r BY <1>2, Zenon DEF Without, In
  <2> HIDE DEF i
  <2>3. /\ r \in Seq(T) /\ Len(r) = Len(s) - 1
        /\ \A j \in 1 .. Len(s) - 1 : r[j] = IF j < i THEN s[j] ELSE s[j + 1]
    BY <2>1, Removed
  <2> HIDE DEF r
  <2>4. DOMAIN r = 1 .. Len(s) - 1 BY <2>3, LenProperties
  <2>5. \A j, k \in 1 .. Len(s) : s[j] = s[k] => j = k BY <1>0 DEF IsInjective
  <2>6. ASSUME NEW j \in DOMAIN r, NEW k \in DOMAIN r, r[j] = r[k] PROVE j = k
    BY <1>0, <2>1, <2>3, <2>4, <2>5, <2>6
  <2>7. ASSUME NEW j \in DOMAIN r PROVE r[j] \in ToSet(s) \ {x}
    <3>1. r[j] = IF j < i THEN s[j] ELSE s[j + 1] BY <2>3, <2>4
    <3>2. j \in 1 .. Len(s) /\ j + 1 \in 1 .. Len(s) BY <1>0, <2>4
    <3>3. r[j] # s[i] BY <1>0, <2>1, <2>5, <3>1, <3>2
    <3>4. r[j] \in {s[k] : k \in DOMAIN s} BY <1>0, <3>1, <3>2
    <3> QED BY <2>1, <3>3, <3>4 DEF ToSet
  <2>8. ASSUME NEW k \in DOMAIN s, s[k] # x PROVE \E j \in DOMAIN r : r[j] = s[k]
    <3>1. CASE k < i
      <4>1. k \in DOMAIN r /\ r[k] = s[k] BY <1>0, <2>1, <2>3, <2>4, <3>1
      <4> QED BY <4>1
    <3>2. CASE ~(k < i)
      <4>1. k # i BY <2>1, <2>8
      <4>2. k - 1 \in DOMAIN r /\ r[k - 1] = s[k] BY <1>0, <2>1, <2>3, <2>4, <3>2, <4>1
      <4> QED BY <4>2
    <3> QED BY <3>1, <3>2
  <2>9. ToSet(r) = ToSet(s) \ {x} BY <2>7, <2>8 DEF ToSet
  <2>10. IsInjective(r) BY <2>6 DEF IsInjective
  <2> QED BY <1>0, <1>2, <2>2, <2>3, <2>9, <2>10
<1> QED BY <1>1, <1>2

\* Append, Tail and ToSet.
LEMMA AppendSet ==
  ASSUME NEW T, NEW s \in Seq(T), NEW x \in T
  PROVE  /\ Append(s, x) \in Seq(T) /\ Len(Append(s, x)) = Len(s) + 1
         /\ ToSet(Append(s, x)) = ToSet(s) \cup {x}
         /\ IsInjective(s) /\ x \notin ToSet(s) => IsInjective(Append(s, x))
<1> DEFINE r == Append(s, x)
<1>1. /\ r \in Seq(T) /\ Len(r) = Len(s) + 1
      /\ \A j \in 1 .. Len(s) : r[j] = s[j]
      /\ r[Len(s) + 1] = x
  BY AppendProperties
<1>2. Len(s) \in Nat /\ DOMAIN s = 1 .. Len(s) BY LenProperties
<1>3. DOMAIN r = 1 .. Len(s) + 1 BY <1>1, LenProperties
<1> HIDE DEF r
<1>4. ToSet(r) = ToSet(s) \cup {x}
  <2>1. ASSUME NEW j \in DOMAIN r PROVE r[j] \in ToSet(s) \cup {x}
    <3>1. CASE j \in 1 .. Len(s) BY <1>1, <1>2, <3>1 DEF ToSet
    <3>2. CASE j = Len(s) + 1 BY <1>1, <3>2
    <3> QED BY <1>2, <1>3, <3>1, <3>2
  <2>2. ASSUME NEW j \in DOMAIN s PROVE \E k \in DOMAIN r : r[k] = s[j]
    BY <1>1, <1>2, <1>3
  <2>3. \E k \in DOMAIN r : r[k] = x BY <1>1, <1>2, <1>3
  <2> QED BY <2>1, <2>2, <2>3 DEF ToSet
<1>5. ASSUME IsInjective(s), x \notin ToSet(s), NEW j \in DOMAIN r, NEW k \in DOMAIN r,
             r[j] = r[k]
      PROVE  j = k
  <2>1. \A n \in 1 .. Len(s) : r[n] # x BY <1>1, <1>2, <1>5 DEF ToSet
  <2>2. \A m, n \in 1 .. Len(s) : r[m] = r[n] => m = n BY <1>1, <1>2, <1>5 DEF IsInjective
  <2> QED BY <1>1, <1>2, <1>3, <1>5, <2>1, <2>2
<1>6. IsInjective(s) /\ x \notin ToSet(s) => IsInjective(r) BY <1>5 DEF IsInjective
<1> QED BY <1>1, <1>4, <1>6 DEF r

LEMMA TailSet ==
  ASSUME NEW T, NEW s \in Seq(T), s # <<>>
  PROVE  /\ Tail(s) \in Seq(T) /\ Len(Tail(s)) = Len(s) - 1
         /\ s[1] \in T /\ s[1] \in ToSet(s)
         /\ ToSet(s) = {s[1]} \cup ToSet(Tail(s))
         /\ IsInjective(s) => IsInjective(Tail(s)) /\ s[1] \notin ToSet(Tail(s))
<1> DEFINE r == Tail(s)
<1>1. /\ r \in Seq(T) /\ Len(r) = Len(s) - 1
      /\ \A j \in 1 .. Len(r) : r[j] = s[j + 1]
  BY HeadTailProperties
<1>2. Len(s) \in Nat /\ Len(s) # 0 /\ DOMAIN s = 1 .. Len(s) BY LenProperties, EmptySeq
<1>3. DOMAIN r = 1 .. Len(s) - 1 BY <1>1, LenProperties
<1>4. s[1] \in T BY <1>2, ElementOfSeq
<1> HIDE DEF r
<1>5. ASSUME NEW j \in DOMAIN s PROVE j = 1 \/ (j - 1 \in DOMAIN r /\ r[j - 1] = s[j])
  BY <1>1, <1>2, <1>3
<1>6. ASSUME NEW j \in DOMAIN r PROVE j + 1 \in DOMAIN s /\ r[j] = s[j + 1]
  BY <1>1, <1>2, <1>3
<1>7. ToSet(s) = {s[1]} \cup ToSet(r)
  <2>1. \A j \in DOMAIN s : s[j] \in {s[1]} \cup ToSet(r) BY <1>5 DEF ToSet
  <2>2. \A j \in DOMAIN r : r[j] \in ToSet(s) BY <1>6 DEF ToSet
  <2>3. s[1] \in ToSet(s) BY <1>2 DEF ToSet
  <2>4. ToSet(r) \subseteq ToSet(s) BY <2>2 DEF ToSet
  <2>5. ToSet(s) \subseteq {s[1]} \cup ToSet(r) BY <2>1 DEF ToSet
  <2> QED BY <2>3, <2>4, <2>5
<1>8. ASSUME IsInjective(s) PROVE IsInjective(r) /\ s[1] \notin ToSet(r)
  <2>1. \A j, k \in DOMAIN r : r[j] = r[k] => j = k
    BY <1>2, <1>3, <1>6, <1>8 DEF IsInjective
  <2>2. \A j \in DOMAIN r : r[j] # s[1] BY <1>2, <1>3, <1>6, <1>8 DEF IsInjective
  <2> QED BY <2>1, <2>2 DEF IsInjective, ToSet
<1>9. s[1] \in ToSet(s) BY <1>7
<1> QED BY <1>1, <1>4, <1>7, <1>8, <1>9 DEF r

LEMMA WithoutType ==
  ASSUME NEW T, NEW s \in Seq(T), NEW x
  PROVE  Without(s, x) \in Seq(T)
<1>1. CASE In(s, x)
  <2> DEFINE i == CHOOSE k \in DOMAIN s : s[k] = x
  <2>1. DOMAIN s = 1 .. Len(s) BY LenProperties
  <2>2. i \in 1 .. Len(s) BY <1>1, <2>1 DEF In, ToSet
  <2>3. Without(s, x) = RemoveAt(s, i) BY <1>1, Zenon DEF Without
  <2> HIDE DEF i
  <2> QED BY <2>2, <2>3, Removed
<1>2. CASE ~In(s, x) BY <1>2, Zenon DEF Without
<1> QED BY <1>1, <1>2

LEMMA EnqueueProperties ==
  ASSUME NEW T, NEW s \in Seq(T), NEW x \in T
  PROVE  /\ Enqueue(s, x) \in Seq(T)
         /\ ToSet(Enqueue(s, x)) = ToSet(s) \cup {x}
         /\ IsInjective(s) => IsInjective(Enqueue(s, x))
<1>1. CASE In(s, x)
  <2>1. Enqueue(s, x) = s BY <1>1, Zenon DEF Enqueue
  <2>2. ToSet(s) \cup {x} = ToSet(s) BY <1>1 DEF In
  <2> QED BY <2>1, <2>2
<1>2. CASE ~In(s, x)
  <2>1. Enqueue(s, x) = Append(s, x) BY <1>2, Zenon DEF Enqueue
  <2> QED BY <1>2, <2>1, AppendSet DEF In
<1> QED BY <1>1, <1>2

----------------------------------------------------------------------------
(* Sums over finite sets.                                                  *)

\* f gives every subset of S the sum of its members' values in g, as the folds
\* of the community modules compute it.
Adding(f, g, S) ==
  f = [T \in SUBSET S |->
         IF T = {} THEN 0
         ELSE g[CHOOSE x \in T : TRUE] + f[T \ {CHOOSE x \in T : TRUE}]]

\* The same for the subsets in D only.
Adds(f, g, D) ==
  \A T \in D : f[T] = IF T = {} THEN 0
                      ELSE g[CHOOSE x \in T : TRUE] + f[T \ {CHOOSE x \in T : TRUE}]
Small(S, n) == {T \in SUBSET S : Cardinality(T) <= n}

\* The subsets of a finite set are finite, and lose one by each removal.
LEMMA SubsetSize ==
  ASSUME NEW S, IsFiniteSet(S), NEW T \in SUBSET S
  PROVE  /\ Cardinality(T) \in Nat
         /\ Cardinality(T) <= Cardinality(S)
         /\ Cardinality(T) = 0 <=> T = {}
         /\ \A x \in T : Cardinality(T \ {x}) = Cardinality(T) - 1
         /\ T # {} => (CHOOSE x \in T : TRUE) \in T
<1>1. IsFiniteSet(T) /\ Cardinality(T) <= Cardinality(S) BY FS_Subset
<1>2. Cardinality(T) \in Nat BY <1>1, FS_CardinalityType
<1>3. Cardinality(T) = 0 <=> T = {} BY <1>1, FS_EmptySet
<1>4. \A x \in T : Cardinality(T \ {x}) = Cardinality(T) - 1
  BY <1>1, FS_RemoveElement
<1> QED BY <1>1, <1>2, <1>3, <1>4

\* Every function on a finite set has its sums.
LEMMA SumExists ==
  ASSUME NEW S, IsFiniteSet(S), NEW g \in [S -> Nat]
  PROVE  \E f : Adding(f, g, S)
<1> DEFINE P == {n \in Nat : \E f \in [Small(S, n) -> Nat] : Adds(f, g, Small(S, n))}
<1>1. 0 \in P
  <2>1. \A T \in Small(S, 0) : T = {} BY SubsetSize DEF Small
  <2>2. [T \in Small(S, 0) |-> 0] \in [Small(S, 0) -> Nat] OBVIOUS
  <2>3. Adds([T \in Small(S, 0) |-> 0], g, Small(S, 0)) BY <2>1 DEF Adds
  <2> QED BY <2>2, <2>3
<1>2. ASSUME NEW n \in Nat, n \in P PROVE n + 1 \in P
  <2>1. PICK f \in [Small(S, n) -> Nat] : Adds(f, g, Small(S, n)) BY <1>2
  <2> DEFINE c(T) == CHOOSE x \in T : TRUE
             V(T) == IF T = {} THEN 0 ELSE g[c(T)] + f[T \ {c(T)}]
             h == [T \in Small(S, n + 1) |-> V(T)]
  <2>2. \A T \in Small(S, n) : h[T] = f[T]
    <3>1. Small(S, n) \subseteq Small(S, n + 1) BY SubsetSize DEF Small
    <3> QED BY <2>1, <3>1 DEF Adds
  <2>3. ASSUME NEW T \in Small(S, n + 1), T # {}
        PROVE  c(T) \in S /\ T \ {c(T)} \in Small(S, n)
    <3>1. T \in SUBSET S /\ Cardinality(T) <= n + 1 BY DEF Small
    <3>2. c(T) \in T /\ Cardinality(T) \in Nat
          /\ Cardinality(T \ {c(T)}) = Cardinality(T) - 1
      BY <2>3, <3>1, SubsetSize
    <3> QED BY <3>1, <3>2 DEF Small
  <2>4. ASSUME NEW T \in Small(S, n + 1) PROVE V(T) \in Nat
    <3>1. CASE T = {} BY <3>1
    <3>2. CASE T # {}
      <4>1. c(T) \in S /\ T \ {c(T)} \in Small(S, n) BY <2>3, <3>2
      <4>2. g[c(T)] \in Nat /\ f[T \ {c(T)}] \in Nat BY <4>1
      <4>3. V(T) = g[c(T)] + f[T \ {c(T)}] BY <3>2
      <4> HIDE DEF c, V
      <4> QED BY <4>2, <4>3
    <3> QED BY <3>1, <3>2
  <2>5. h \in [Small(S, n + 1) -> Nat] BY <2>4
  <2>6. Adds(h, g, Small(S, n + 1))
    <3> SUFFICES ASSUME NEW T \in Small(S, n + 1)
        PROVE  h[T] = IF T = {} THEN 0 ELSE g[c(T)] + h[T \ {c(T)}]
      BY DEF Adds
    <3>1. CASE T = {} BY <3>1
    <3>2. CASE T # {}
      <4>1. h[T \ {c(T)}] = f[T \ {c(T)}] BY <2>2, <2>3, <3>2
      <4>2. h[T] = g[c(T)] + f[T \ {c(T)}] BY <3>2
      <4> QED BY <3>2, <4>1, <4>2
    <3> QED BY <3>1, <3>2
  <2>7. PICK r : r = h OBVIOUS
  <2>8. r \in [Small(S, n + 1) -> Nat] /\ Adds(r, g, Small(S, n + 1))
    <3> HIDE DEF h
    <3> QED BY <2>5, <2>6, <2>7
  <2> HIDE DEF h, V, c
  <2> QED BY <2>8
<1>3. Cardinality(S) \in Nat BY FS_CardinalityType
<1>4. Cardinality(S) \in P
  <2> HIDE DEF P
  <2> QED BY <1>1, <1>2, <1>3, SetInduction
<1>5. PICK f \in [Small(S, Cardinality(S)) -> Nat] : Adds(f, g, Small(S, Cardinality(S)))
  BY <1>4
<1>6. Small(S, Cardinality(S)) = SUBSET S BY SubsetSize DEF Small
<1>7. f \in [SUBSET S -> Nat] /\ Adds(f, g, SUBSET S) BY <1>5, <1>6
<1>8. Adding(f, g, S) BY <1>7 DEF Adding, Adds
<1> QED BY <1>8

\* A sum is a number and does not depend on the order: any member may be taken
\* out first.
LEMMA SumTakes ==
  ASSUME NEW S, IsFiniteSet(S), NEW g \in [S -> Nat], NEW f, Adding(f, g, S)
  PROVE  \A T \in SUBSET S : f[T] \in Nat /\ \A x \in T : f[T] = g[x] + f[T \ {x}]
<1> DEFINE c(T) == CHOOSE x \in T : TRUE
           Good(T) == f[T] \in Nat /\ \A x \in T : f[T] = g[x] + f[T \ {x}]
           P == {n \in Nat : \A T \in Small(S, n) : Good(T)}
<1>0. ASSUME NEW T \in SUBSET S
      PROVE  f[T] = IF T = {} THEN 0 ELSE g[c(T)] + f[T \ {c(T)}]
  BY DEF Adding
<1>1. 0 \in P
  <2>1. \A T \in Small(S, 0) : T = {} /\ T \in SUBSET S BY SubsetSize DEF Small
  <2>2. \A T \in Small(S, 0) : f[T] = 0 /\ \A x \in T : FALSE BY <1>0, <2>1
  <2>3. \A T \in Small(S, 0) : Good(T) BY <2>2
  <2> HIDE DEF Good
  <2> QED BY <2>3
<1>2. ASSUME NEW n \in Nat, n \in P PROVE n + 1 \in P
  <2> SUFFICES ASSUME NEW T \in Small(S, n + 1) PROVE Good(T) OBVIOUS
  <2>0. T \in SUBSET S /\ Cardinality(T) <= n + 1 BY DEF Small
  <2>1. CASE T = {} BY <1>0, <2>0, <2>1
  <2>2. CASE T # {}
    <3>1. ASSUME NEW R \in SUBSET T, NEW x \in T, x \notin R PROVE Good(R)
      <4>1. R \in SUBSET (T \ {x}) /\ T \ {x} \in SUBSET S BY <2>0, <3>1
      <4>2. IsFiniteSet(T \ {x}) BY <4>1, FS_Subset
      <4>3. Cardinality(R) <= Cardinality(T \ {x}) BY <4>1, <4>2, SubsetSize
      <4>4. Cardinality(T \ {x}) = Cardinality(T) - 1 /\ Cardinality(T) \in Nat
        BY <2>0, SubsetSize
      <4>5. R \in SUBSET S /\ Cardinality(R) \in Nat BY <2>0, SubsetSize
      <4>6. R \in Small(S, n) BY <2>0, <4>3, <4>4, <4>5 DEF Small
      <4> QED BY <1>2, <4>6
    <3>2. PICK y : y = c(T) OBVIOUS
    <3>3. y \in T BY <2>2, <3>2
    <3>4. f[T] = g[y] + f[T \ {y}] BY <1>0, <2>0, <2>2, <3>2
    <3>5. f[T \ {y}] \in Nat /\ \A x \in T \ {y} : f[T \ {y}] = g[x] + f[(T \ {y}) \ {x}]
      BY <3>1, <3>3
    <3>6. g[y] \in Nat BY <2>0, <3>3
    <3>7. f[T] \in Nat BY <3>4, <3>5, <3>6
    <3>8. ASSUME NEW x \in T, x # y PROVE f[T] = g[x] + f[T \ {x}]
      <4>1. f[T \ {x}] = g[y] + f[(T \ {x}) \ {y}] BY <3>1, <3>3, <3>8
      <4>2. (T \ {x}) \ {y} = (T \ {y}) \ {x} OBVIOUS
      <4>3. f[T \ {y}] = g[x] + f[(T \ {y}) \ {x}] BY <3>5, <3>8
      <4>4. f[(T \ {y}) \ {x}] \in Nat BY <3>1
      <4>5. g[x] \in Nat BY <2>0
      <4>6. PICK r \in Nat : r = f[(T \ {y}) \ {x}] BY <4>4
      <4>7. /\ f[T \ {x}] = g[y] + r /\ f[T \ {y}] = g[x] + r
            /\ f[T] = g[y] + f[T \ {y}]
        BY <3>4, <4>1, <4>2, <4>3, <4>6
      <4> QED BY <3>6, <4>5, <4>7
    <3> QED BY <3>4, <3>7, <3>8
  <2> QED BY <2>1, <2>2
<1> SUFFICES ASSUME NEW T \in SUBSET S PROVE Good(T) OBVIOUS
<1>3. Cardinality(T) \in Nat BY SubsetSize
<1>4. Cardinality(T) \in P
  <2> HIDE DEF P
  <2> QED BY <1>1, <1>2, <1>3, SetInduction
<1>5. T \in Small(S, Cardinality(T)) BY <1>3 DEF Small
<1> QED BY <1>4, <1>5

\* Functions that agree on a set have the same sum over it.
LEMMA SumAgrees ==
  ASSUME NEW S, IsFiniteSet(S), NEW g, NEW f, Adding(f, g, S),
         NEW k, NEW h, Adding(h, k, S)
  PROVE  \A T \in SUBSET S : (\A x \in T : g[x] = k[x]) => f[T] = h[T]
<1> DEFINE c(T) == CHOOSE x \in T : TRUE
           Good(T) == (\A x \in T : g[x] = k[x]) => f[T] = h[T]
           P == {n \in Nat : \A T \in Small(S, n) : Good(T)}
<1>0. ASSUME NEW T \in SUBSET S
      PROVE  /\ f[T] = IF T = {} THEN 0 ELSE g[c(T)] + f[T \ {c(T)}]
             /\ h[T] = IF T = {} THEN 0 ELSE k[c(T)] + h[T \ {c(T)}]
  BY DEF Adding
<1>1. 0 \in P
  <2>1. \A T \in Small(S, 0) : T = {} /\ T \in SUBSET S BY SubsetSize DEF Small
  <2> QED BY <1>0, <2>1
<1>2. ASSUME NEW n \in Nat, n \in P PROVE n + 1 \in P
  <2> SUFFICES ASSUME NEW T \in Small(S, n + 1), \A x \in T : g[x] = k[x]
      PROVE  f[T] = h[T]
    OBVIOUS
  <2>0. T \in SUBSET S /\ Cardinality(T) <= n + 1 BY DEF Small
  <2>1. CASE T = {} BY <1>0, <2>0, <2>1
  <2>2. CASE T # {}
    <3>1. PICK y : y = c(T) OBVIOUS
    <3>2. y \in T BY <2>2, <3>1
    <3>3. Cardinality(T \ {y}) = Cardinality(T) - 1 /\ Cardinality(T) \in Nat
      BY <2>0, <3>2, SubsetSize
    <3>4. T \ {y} \in Small(S, n) BY <2>0, <3>3 DEF Small
    <3>5. f[T \ {y}] = h[T \ {y}] BY <1>2, <3>4
    <3>6. f[T] = g[y] + f[T \ {y}] /\ h[T] = k[y] + h[T \ {y}]
      BY <1>0, <2>0, <2>2, <3>1
    <3> QED BY <3>2, <3>5, <3>6
  <2> QED BY <2>1, <2>2
<1> SUFFICES ASSUME NEW T \in SUBSET S PROVE Good(T) OBVIOUS
<1>3. Cardinality(T) \in Nat BY SubsetSize
<1>4. Cardinality(T) \in P
  <2> HIDE DEF P
  <2> QED BY <1>1, <1>2, <1>3, SetInduction
<1>5. T \in Small(S, Cardinality(T)) BY <1>3 DEF Small
<1> QED BY <1>4, <1>5

\* A change of one value changes the sum by as much.
LEMMA SumChange ==
  ASSUME NEW S, IsFiniteSet(S), NEW g \in [S -> Nat], NEW f, Adding(f, g, S),
         NEW k \in [S -> Nat], NEW h, Adding(h, k, S),
         NEW s \in S, \A x \in S : x # s => g[x] = k[x]
  PROVE  /\ f[S] \in Nat /\ h[S] \in Nat /\ g[s] <= f[S]
         /\ f[S] + k[s] = h[S] + g[s]
<1>0. S \in SUBSET S /\ S \ {s} \in SUBSET S OBVIOUS
<1>a. \A T \in SUBSET S : f[T] \in Nat /\ \A x \in T : f[T] = g[x] + f[T \ {x}]
  BY SumTakes
<1>b. \A T \in SUBSET S : h[T] \in Nat /\ \A x \in T : h[T] = k[x] + h[T \ {x}]
  BY SumTakes
<1>1. /\ f[S] \in Nat /\ f[S] = g[s] + f[S \ {s}] /\ f[S \ {s}] \in Nat
  BY <1>0, <1>a
<1>2. /\ h[S] \in Nat /\ h[S] = k[s] + h[S \ {s}] /\ h[S \ {s}] \in Nat
  BY <1>0, <1>b
<1>3. f[S \ {s}] = h[S \ {s}] BY <1>0, SumAgrees
<1>4. g[s] \in Nat /\ k[s] \in Nat OBVIOUS
<1> QED BY <1>1, <1>2, <1>3, <1>4
=============================================================================

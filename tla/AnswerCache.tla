---------------------------- MODULE AnswerCache ----------------------------
(***************************************************************************)
(* The caches of resolved names: that of the DoH client ("doh"), which     *)
(* also keeps negative answers, and that of UDP targets ("udp").  A name   *)
(* has one set of a few ways; this is one set.  Entries expire by a clock  *)
(* of milliseconds that wraps, and are found expired only when a lookup or *)
(* a store passes them.                                                    *)
(*                                                                         *)
(* What is stored was asked for after a lookup that found nothing; several *)
(* requests for one name may be on their way.                              *)
(***************************************************************************)
EXTENDS Integers, FiniteSets, Queues

CONSTANTS
  Keys,    \* names, with their type, port and preference
  Ways,    \* ways of a set
  Wrap,    \* the clock counts modulo Wrap
  MaxTtl,  \* the longest time to live
  NegTtl,  \* that of a negative answer
  MaxLag,  \* bound: for how long an expired entry is passed by nobody
  MaxAsked \* bound: requests for one name on their way

ASSUME CacheConstants ==
  /\ Ways \in Nat \ {0} /\ MaxTtl \in Nat \ {0} /\ NegTtl \in 1 .. MaxTtl
  /\ Wrap \in Nat /\ 2 * MaxTtl < Wrap
  /\ MaxLag \in Nat /\ 2 * MaxLag < Wrap /\ MaxAsked \in Nat

VARIABLES
  kind,   \* which of the two caches
  now,    \* ngx_current_msec
  entry,  \* the ways
  order,  \* the ways by accessed, the least recently used first
  asked,  \* requests on their way
  age,    \* by way: stores into the set since this one (history)
  left,   \* by way: time to live that is left, in truth (history)
  hit     \* the way that the last lookup returned (history)

cacheVars == <<kind, now, entry, order, asked, age, left, hit>>

Way   == 1 .. Ways
Vacant == [valid |-> FALSE]

\* (ngx_msec_int_t) (expire - now).  Fault: without the cast to a signed type.
RemainingUnsigned(i) == (entry[i].expire - now) % Wrap
Remaining(i) ==
  LET d == (entry[i].expire - now) % Wrap IN IF 2 * d >= Wrap THEN d - Wrap ELSE d

Expired(i) == Remaining(i) <= 0
Live(i)    == entry[i].valid /\ ~Expired(i)
Holds(i, k) == entry[i].valid /\ entry[i].key = k

First(S) == CHOOSE i \in S : \A j \in S : i <= j
Rank(i)   == CHOOSE n \in DOMAIN order : order[n] = i
Oldest(S) == CHOOSE i \in S : \A j \in S : Rank(i) <= Rank(j)
Used(i) == Append(Without(order, i), i)

----------------------------------------------------------------------------
CacheInit ==
  /\ kind \in {"doh", "udp"} /\ now = 0
  /\ entry = [i \in Way |-> Vacant] /\ order = [i \in Way |-> i]
  /\ asked = [k \in Keys |-> 0]
  /\ age = [i \in Way |-> 0] /\ left = [i \in Way |-> 0] /\ hit = 0

\* cache_lookup: the expired ways before the one that is found become free.
Passed(k) ==
  LET found == {i \in Way : Live(i) /\ Holds(i, k)}
  IN IF found = {} THEN Way ELSE 1 .. First(found)

Lookup(k) ==
  LET found == {i \in Way : Live(i) /\ Holds(i, k)}
  IN /\ hit' = IF found = {} THEN 0 ELSE First(found)
     /\ entry' = [i \in Way |-> IF i \in Passed(k) /\ ~Live(i) THEN Vacant ELSE entry[i]]
     /\ IF found = {}
        THEN /\ asked[k] < MaxAsked /\ asked' = [asked EXCEPT ![k] = @ + 1]
             /\ UNCHANGED order
        ELSE order' = Used(First(found)) /\ UNCHANGED asked
     /\ UNCHANGED <<kind, now, age, left>>

\* The first way that is free or holds the name.
Slot(k) ==
  LET stops == {i \in Way : ~Live(i) \/ Holds(i, k)} IN IF stops = {} THEN 0 ELSE First(stops)

\* With no such way a negative answer goes first, then the oldest.
\* Fault: the oldest in any case.
VictimOldest(negatives) == Oldest(Way)
Victim(negatives) == IF negatives # {} THEN Oldest(negatives) ELSE Oldest(Way)

Put(k, status, ttl) ==
  LET negatives == {i \in Way : entry[i].valid /\ entry[i].status = "negative"}
      i == IF Slot(k) # 0 THEN Slot(k) ELSE Victim(negatives)
  IN IF Slot(k) # 0 /\ Live(i) /\ status = "negative" /\ entry[i].status = "ok"
     THEN UNCHANGED <<entry, order, age, left>>
     ELSE /\ entry' = [entry EXCEPT ![i] = [valid |-> TRUE, key |-> k, status |-> status,
                                            expire |-> (now + ttl) % Wrap]]
          /\ order' = Used(i)
          /\ age' = [j \in Way |-> IF j = i THEN 0 ELSE IF age[j] < Ways THEN age[j] + 1 ELSE age[j]]
          /\ left' = [left EXCEPT ![i] = ttl]

Answered(k) == asked[k] > 0 /\ asked' = [asked EXCEPT ![k] = @ - 1]

\* cache_store.  An answer may have no time to live, and a failure may not be
\* one to keep.
Store(k) ==
  /\ kind = "doh" /\ Answered(k)
  /\ \/ \E ttl \in 1 .. MaxTtl : Put(k, "ok", ttl)
     \/ Put(k, "negative", NegTtl)
     \/ UNCHANGED <<entry, order, age, left>>
  /\ hit' = 0 /\ UNCHANGED <<kind, now>>

\* udp_domain_cache_store: the answer may be too old already.
UdpStore(k) ==
  /\ kind = "udp" /\ Answered(k)
  /\ \E ttl \in 0 .. MaxTtl :
       IF ttl = 0 THEN UNCHANGED <<entry, order, age, left>> ELSE Put(k, "ok", ttl)
  /\ hit' = 0 /\ UNCHANGED <<kind, now>>

Tick ==
  /\ \A i \in Way : entry[i].valid => left[i] > -MaxLag
  /\ now' = (now + 1) % Wrap
  /\ left' = [i \in Way |-> IF entry[i].valid THEN left[i] - 1 ELSE 0]
  /\ hit' = 0 /\ UNCHANGED <<kind, entry, order, asked, age>>

CacheNext == Tick \/ \E k \in Keys : Lookup(k) \/ Store(k) \/ UdpStore(k)

CacheSpec == CacheInit /\ [][CacheNext]_cacheVars

----------------------------------------------------------------------------
\* A lookup returns an answer that is still good, across wraps of the clock,
\* and of several answers for one name that are in the set, the one that was
\* stored last.
HitsNewestLive ==
  hit # 0 => /\ left[hit] > 0
             /\ \A i \in Way : Holds(i, entry[hit].key) /\ left[i] > 0 => age[hit] <= age[i]

\* A positive answer that is still good is not pushed out for another name
\* while there is a free way, an expired or a negative entry, or one that was
\* used less recently.
PositivesStay ==
  [][\A i \in Way :
       LET gone == entry'[i] # entry[i] /\ entry'[i].valid /\ entry'[i].key # entry[i].key
       IN entry[i].valid /\ left[i] > 0 /\ entry[i].status = "ok" /\ gone
            => \A j \in Way : /\ entry[j].valid /\ left[j] > 0 /\ entry[j].status = "ok"
                              /\ i = order[1]]_cacheVars
=============================================================================

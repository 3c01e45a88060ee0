------------------------------ MODULE Geosite ------------------------------
(***************************************************************************)
(* One entry of a geosite file: a list of names, keywords and regular      *)
(* expressions that a host name either meets or not.  The list is searched *)
(* through indexes: tables of whole names and of name endings, and a trie  *)
(* of keywords that is walked once along the host (Aho-Corasick).  Answers *)
(* that do not depend on attributes are cached.                            *)
(*                                                                         *)
(* A name is a sequence of characters, "." among them, in lower case.  The *)
(* hosts a regular expression matches are given as a set.                  *)
(***************************************************************************)
EXTENDS Integers, FiniteSetsExt, SequencesExt

CONSTANTS
  Letters,    \* the characters of names
  AcMaxChars, \* GEOSITE_PLAIN_AC_MAX_CHARS
  SiteWays    \* entries of a set of the host cache

ASSUME SiteConstants == "." \in Letters /\ AcMaxChars \in Nat /\ SiteWays \in Nat \ {0}

VARIABLES
  domains,    \* entry->domains: a set of [type, value, attrs, hosts]
  siteCache   \* one set of entry->cache: [host, result], least recently used first

OfType(type) == {d \in domains : d.type = type}

\* domain_attr_match: with or, negated, without the attribute; "" is none.
Chosen(d, attr, negated) == attr = "" \/ (attr \in d.attrs) # negated

----------------------------------------------------------------------------
(* The list read from end to end, as the code does for a name that is too  *)
(* long for the indexes.                                                   *)

\* match_domain and match_plain.
MatchDomain(host, name) == host = name \/ IsSuffix(<<".">> \o name, host)
MatchPlain(host, word)   == \E i \in DOMAIN host : IsPrefix(word, SubSeq(host, i, Len(host)))

Meets(d, host) ==
  CASE d.type = "full"   -> host = d.value
    [] d.type = "domain" -> MatchDomain(host, d.value)
    [] d.type = "plain"  -> MatchPlain(host, d.value)
    [] d.type = "regex"  -> host \in d.hosts

\* An empty name meets nothing.
Listed(host, attr, negated) ==
  host # <<>> /\ \E d \in domains : Chosen(d, attr, negated) /\ Meets(d, host)

----------------------------------------------------------------------------
(* The trie.  A node is the string that leads to it.                       *)

Nodes == UNION {{SubSeq(d.value, 1, k) : k \in 0 .. Len(d.value)} : d \in OfType("plain")}

\* plain_next: along an edge of the node or, failing that, of the nodes its
\* fail links lead to.  Fault: the links are not followed.
StepNoFail(fail, node, ch) ==
  IF Append(node, ch) \in Nodes THEN Append(node, ch)
  ELSE IF <<ch>> \in Nodes THEN <<ch>> ELSE <<>>
Step(fail, node, ch) ==
  LET next[n \in {m \in Nodes : Len(m) <= Len(node)}] ==
        IF Append(n, ch) \in Nodes THEN Append(n, ch) ELSE IF n = <<>> THEN <<>> ELSE next[fail[n]]
  IN next[node]

\* plain_build_fail, in order of depth.
Fail ==
  LET fail[n \in Nodes] ==
        IF Len(n) < 2 THEN <<>> ELSE Step(fail, fail[Front(n)], Last(n))
  IN fail

\* The keywords that end at a node: its own, and those of the nodes its
\* output links lead to, which are its fail links less the nodes without.
Ending(fail) ==
  LET ending[n \in Nodes] ==
        IF n = <<>> THEN {}
        ELSE {d \in OfType("plain") : d.value = n} \cup ending[fail[n]]
  IN ending

\* match_plain_indexed: one walk along the host.
Walk(host) ==
  LET fail == Fail
      ending == Ending(fail)
      at[i \in 0 .. Len(host)] ==
        IF i = 0 THEN [node |-> <<>>, met |-> {}]
        ELSE LET before == at[i - 1]
                 n      == Step(fail, before.node, host[i])
             IN [node |-> n, met |-> before.met \cup ending[n]]
  IN at[Len(host)].met

\* Too many characters for a trie: lists by first character instead.
Keyed(host) ==
  {d \in OfType("plain") : Head(d.value) \in ToSet(host) /\ MatchPlain(host, d.value)}

Characters == MapThenSumSet(LAMBDA d : Len(d.value), OfType("plain"))

Keywords(host) ==
  IF OfType("plain") = {} THEN {}
  ELSE IF Characters <= AcMaxChars THEN Walk(host) ELSE Keyed(host)

----------------------------------------------------------------------------
(* The indexed search.                                                     *)

\* What is looked up among the endings: the host and what follows each dot.
Endings(host) ==
  ({host} \cup {SubSeq(host, i + 1, Len(host)) : i \in {j \in DOMAIN host : host[j] = "."}})
     \ {<<>>}

\* match_indexed, then the regular expressions.  The order of the list only
\* ends the search early.
MatchIndexed(host, attr, negated) ==
  \E d \in {f \in OfType("full") : f.value = host}
             \cup {f \in OfType("domain") : f.value \in Endings(host)}
             \cup Keywords(host)
             \cup {r \in OfType("regex") : host \in r.hosts} : Chosen(d, attr, negated)

\* cache_lookup, cache_store: a hit is moved to the end, and what is stored
\* after a miss takes a free place or that of the least recently used.
Hit(cache, host) == {i \in DOMAIN cache : cache[i].host = host}
Recalled(cache, host) ==
  LET i == Min(Hit(cache, host)) IN Append(RemoveAt(cache, i), cache[i])
Remember(cache, ways, entry) == Append(IF Len(cache) = ways THEN Tail(cache) ELSE cache, entry)

\* geosite_match: the result, and the cache it leaves.
SiteMatch(cache, host, attr, negated) ==
  IF host = <<>> THEN [result |-> FALSE, cache |-> cache]
  ELSE IF attr # "" THEN [result |-> MatchIndexed(host, attr, negated), cache |-> cache]
  ELSE IF Hit(cache, host) # {}
  THEN [result |-> cache[Min(Hit(cache, host))].result, cache |-> Recalled(cache, host)]
  ELSE LET r == MatchIndexed(host, "", FALSE)
       IN [result |-> r, cache |-> Remember(cache, SiteWays, [host |-> host, result |-> r])]
=============================================================================

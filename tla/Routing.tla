------------------------------ MODULE Routing ------------------------------
(***************************************************************************)
(* Which outbound a request takes: the routes are tried in order, the      *)
(* first with a matching rule decides, and one of its outbounds that does  *)
(* not block the request is chosen at random.  The program gets there by   *)
(* an index of domain rules, a cache of decisions that the whole server    *)
(* shares, and the last decision of the session.                           *)
(*                                                                         *)
(* A host is a sequence of labels, <<>> for an IP literal; a trailing dot  *)
(* is an empty last label.  Upper and lower case are one.  What a geosite, *)
(* geoip or ip rule matches is a set of hosts.  0 stands for no route.     *)
(***************************************************************************)
EXTENDS Integers, FiniteSetsExt, SequencesExt

CONSTANTS
  Targets,     \* requests: [host, port]
  Rules,       \* [type, domain, hosts, ports]
  MaxRoutes,   \* bound: routes
  MaxRules,    \* bound: rules of a route
  Outbounds,
  OutboundsOf, \* the outbounds of the routes, by position
  Block,       \* what an outbound refuses: "none", "h3", "udp" or "all"
  Socks5,      \* the outbounds that are SOCKS5 servers
  None,        \* no outbound
  RouteWays    \* entries of a set of the route cache

ASSUME ConstantsAssumption ==
  /\ MaxRoutes \in Nat \ {0} /\ RouteWays \in Nat \ {0}
  /\ None \notin Targets /\ \A t \in Targets : t.host \in Seq(STRING)
  /\ \A x \in Rules : /\ x.type \in {"all", "domain", "hosts", "port"}
                      /\ x.type = "domain" => x.domain \in Seq(STRING) \ {<<>>}
  /\ OutboundsOf \in [1 .. MaxRoutes -> (SUBSET Outbounds) \ {{}}]
  /\ Block \in [Outbounds -> {"none", "h3", "udp", "all"}]
  /\ Socks5 \subseteq Outbounds /\ None \notin Outbounds

VARIABLES
  routes,   \* conf->routes: the rules of each
  cache,    \* one set of conf->route_cache, least recently used first
  outbound, \* ctx->outbound
  recent,   \* ctx->route_cache_target, _command, _outbound
  assoc,    \* ctx->socks5_udp_outbound
  chosen    \* the last decision and ctx->outbound before it (history)

vars == <<routes, cache, outbound, recent, assoc, chosen>>

NoDecision == [target |-> None, command |-> "connect", outbound |-> None]

----------------------------------------------------------------------------
(* Matching.                                                               *)

IsDomain(t) == t.host # <<>>

Dotless(host) == IF Len(host) > 1 /\ Last(host) = "" THEN Front(host) ELSE host

\* route_rule_match.
RuleMatch(rule, t) ==
  CASE rule.type = "all"    -> TRUE
    [] rule.type = "domain" -> IsDomain(t) /\ IsSuffix(rule.domain, Dotless(t.host))
    [] rule.type = "hosts"  -> t.host \in rule.hosts
    [] rule.type = "port"   -> t.port \in rule.ports

DomainRules(r) == {x \in routes[r] : x.type = "domain"}
OtherRules(r)  == routes[r] \ DomainRules(r)

\* route_match, with and without skip_domain.
Match(r, t, skip) == \E x \in IF skip THEN OtherRules(r) ELSE routes[r] : RuleMatch(x, t)

\* The index keeps the first route that names a domain.  Fault: the last.
IndexLast(d) ==
  LET named == {r \in DOMAIN routes : \E x \in DomainRules(r) : x.domain = d}
  IN IF named = {} THEN 0 ELSE Max(named)
Index(d) ==
  LET named == {r \in DOMAIN routes : \E x \in DomainRules(r) : x.domain = d}
  IN IF named = {} THEN 0 ELSE Min(named)

Indexed(t) == IsDomain(t) /\ \E r \in DOMAIN routes : DomainRules(r) # {}

\* route_domain_index_match: every suffix of the host is looked up.
Candidate(t) ==
  LET host  == Dotless(t.host)
      found == {Index(SubSeq(host, i, Len(host))) : i \in DOMAIN host} \ {0}
  IN IF ~Indexed(t) \/ found = {} THEN 0 ELSE Min(found)

\* The search of select_outbound: the leading routes without domain rules,
\* then the other rules of the routes before the candidate, then the
\* candidate.
Leading(t) ==
  IF Indexed(t) THEN Min({r \in DOMAIN routes : DomainRules(r) # {}}) - 1 ELSE 0

Search(t) ==
  LET before == {r \in 1 .. Leading(t) : Match(r, t, TRUE)}
      limit  == IF Candidate(t) = 0 THEN Len(routes) ELSE Candidate(t) - 1
      others == {r \in Leading(t) + 1 .. limit : Match(r, t, Indexed(t))}
  IN IF before # {} THEN Min(before)
     ELSE IF others # {} THEN Min(others) ELSE Candidate(t)

----------------------------------------------------------------------------
(* Choosing among the outbounds of a route.                                *)

\* outbound_request_blocked.
Blocked(out, command, t) ==
  \/ Block[out] = "all"
  \/ /\ command = "associate"
     /\ Block[out] = "udp" \/ (Block[out] = "h3" /\ t.port = 443)

Usable(r, command, t) == {out \in OutboundsOf[r] : ~Blocked(out, command, t)}

\* select_route_outbound.
Offered(r, command, t) ==
  IF r = 0 \/ Usable(r, command, t) = {} THEN {None}
  ELSE IF outbound \in Usable(r, command, t) THEN {outbound} ELSE Usable(r, command, t)

----------------------------------------------------------------------------
(* Caches.                                                                 *)

\* route_cache_lookup compares type, port and name.
Entry(t) == {i \in DOMAIN cache : cache[i].target = t}

Touched(t) == LET i == Min(Entry(t)) IN Append(RemoveAt(cache, i), cache[i])

\* route_cache_store, after a lookup that failed: a free entry or the oldest.
Stored(t, r) ==
  Append(IF Len(cache) = RouteWays THEN Tail(cache) ELSE cache, [target |-> t, route |-> r])

\* select_outbound.
Select(t, command, out) ==
  /\ IF recent.target = t /\ recent.command = command
     THEN out = recent.outbound /\ UNCHANGED <<cache, recent>>
     ELSE /\ IF Entry(t) # {}
             THEN /\ out \in Offered(cache[Min(Entry(t))].route, command, t)
                  /\ cache' = Touched(t)
             ELSE /\ out \in Offered(Search(t), command, t)
                  /\ cache' = Stored(t, Search(t))
          /\ recent' = [target |-> t, command |-> command, outbound |-> out]
  /\ chosen' = [target |-> t, command |-> command, outbound |-> out, before |-> outbound]
  /\ UNCHANGED routes

----------------------------------------------------------------------------
Init ==
  /\ routes \in UNION {[1 .. n -> UNION {kSubset(k, Rules) : k \in 1 .. MaxRules}]
                        : n \in 1 .. MaxRoutes}
  /\ cache = <<>> /\ outbound = None /\ recent = NoDecision /\ assoc = None
  /\ chosen = [target |-> None]

\* A session with a TCP target, or without one yet; the ones before are over.
NewSession ==
  /\ outbound' = None /\ recent' = NoDecision /\ assoc' = None
  /\ chosen' = [target |-> None]
  /\ UNCHANGED <<routes, cache>>

Connects(t) ==
  /\ recent = NoDecision
  /\ \E out \in Outbounds \cup {None} : Select(t, "connect", out) /\ outbound' = out
  /\ UNCHANGED assoc

\* A stream of a mux session keeps its own outbound.
StreamOpens(t) ==
  /\ outbound = None /\ recent.command = "connect"
  /\ \E out \in Outbounds \cup {None} : Select(t, "connect", out)
  /\ UNCHANGED <<outbound, assoc>>

\* reset_socks5_udp, when the association is with another server.  Fault:
\* only when the outbound is direct.
ResetsDirect(out) == IF out \notin Socks5 THEN None ELSE assoc
Resets(out)       == IF out \in Socks5 /\ assoc # out THEN None ELSE assoc

\* prepare_udp_outbound; a datagram without outbound ends the session.
\* A SOCKS5 outbound without association gets one.
Datagram(t) ==
  /\ recent = NoDecision \/ recent.command = "associate"
  /\ \E out \in Outbounds \cup {None} :
       /\ Select(t, "associate", out)
       /\ IF out = None THEN UNCHANGED <<outbound, assoc>>
          ELSE /\ outbound' = out
               /\ assoc' = IF Resets(out) = None /\ out \in Socks5 THEN out ELSE Resets(out)

Next == NewSession \/ \E t \in Targets : Connects(t) \/ StreamOpens(t) \/ Datagram(t)

Spec == Init /\ [][Next]_vars

----------------------------------------------------------------------------
(* Properties.                                                             *)

\* What README.md:214 and the order of trojan_routes promise.
FirstMatch(t) ==
  LET m == {r \in DOMAIN routes : Match(r, t, FALSE)} IN IF m = {} THEN 0 ELSE Min(m)

Allowed(command, t) ==
  IF FirstMatch(t) = 0 THEN {} ELSE Usable(FirstMatch(t), command, t)

\* Every decision, whether it comes from the search, the shared cache or the
\* session's last one, is the one the list of routes gives: an outbound of
\* the first matching route that does not block the request, the one in use if
\* it is among them, and none only if there is none.
RoutedByFirstMatch ==
  chosen.target # None =>
    LET usable == Allowed(chosen.command, chosen.target)
    IN IF usable = {} THEN chosen.outbound = None
       ELSE /\ chosen.outbound \in usable
            /\ chosen.before \in usable => chosen.outbound = chosen.before

\* A SOCKS5 association is with the server that the datagrams of the moment
\* are meant for.
AssociationMatches == outbound \in Socks5 /\ assoc # None => assoc = outbound
=============================================================================

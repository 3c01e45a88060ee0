----------------------------- MODULE DnsRules -----------------------------
(***************************************************************************)
(* Which group of DNS servers resolves a name: the first with a rule that  *)
(* matches it.  Domain rules are found through an index, the others are    *)
(* tried in order, and answers are cached per name.  The rules and the     *)
(* routes share the geosite entry and its cache.                           *)
(***************************************************************************)
EXTENDS Geosite

CONSTANTS
  DnsNames,  \* names asked; no parser of requests lets an empty one through
  SiteRules, \* geosite rules of routes: [type |-> "geosite", attr, negated]
  DnsWays,   \* entries of a set of the rules' cache
  Configured \* the configurations: <<domains, groups>>

IsList(s) == Len(s) \in Nat /\ DOMAIN s = 1 .. Len(s)

\* The readers of both files accept no empty name.
ListIsRead(list) ==
  \A d \in list : /\ d.type \in {"full", "domain", "plain", "regex"}
                  /\ d.type # "regex" => d.value \in Seq(Letters) \ {<<>>}
RuleIsRead(rule) ==
  /\ rule.type \in {"domain", "geosite", "regexp"}
  /\ rule.type = "domain" => rule.value \in Seq(Letters) \ {<<>>}
GroupsAreRead(list) ==
  /\ IsList(list)
  /\ \A g \in DOMAIN list : IsList(list[g]) /\ \A i \in DOMAIN list[g] : RuleIsRead(list[g][i])

ASSUME DnsConstants ==
  /\ DnsNames \subseteq Seq(Letters) \ {<<>>} /\ DnsWays \in Nat \ {0}
  /\ \A c \in Configured : ListIsRead(c[1]) /\ GroupsAreRead(c[2])

VARIABLES
  groups,    \* rules->groups: a sequence of rules for each
  dnsCache,  \* one set of rules->cache: [host, group]
  question   \* the last question and its answer (history)

dnsVars == <<domains, siteCache, groups, dnsCache, question>>

NotAsked == [by |-> "nobody"]

Undotted(name) == IF Len(name) > 1 /\ Last(name) = "." THEN Front(name) ELSE name

----------------------------------------------------------------------------
(* Rules.                                                                  *)

\* match_rule: the result, and the geosite cache it leaves.
RuleAnswer(rule, host, cache) ==
  CASE rule.type = "domain"  -> [result |-> MatchDomain(host, rule.value), cache |-> cache]
    [] rule.type = "geosite" -> SiteMatch(cache, host, rule.attr, rule.negated)
    [] rule.type = "regexp"  -> [result |-> host \in rule.hosts, cache |-> cache]

\* match_group with skip_domain: up to the first other rule that matches.
GroupAnswer(g, host, cache) ==
  LET after[j \in 0 .. Len(groups[g])] ==
        IF j = 0 THEN [result |-> FALSE, cache |-> cache]
        ELSE LET got == after[j - 1]
             IN IF got.result \/ groups[g][j].type = "domain" THEN got
                ELSE RuleAnswer(groups[g][j], host, got.cache)
  IN after[Len(groups[g])]

DomainsOf(g) == {groups[g][i].value : i \in {j \in DOMAIN groups[g] : groups[g][j].type = "domain"}}

\* domain_index_match: among the endings of the name, the first group that
\* names one; 0 if none does.  Fault: the longest ending decides.
NamedLongest(host) ==
  LET named == {e \in Endings(host) : \E g \in DOMAIN groups : e \in DomainsOf(g)}
      best  == CHOOSE e \in named : \A f \in named : Len(e) >= Len(f)
  IN IF named = {} THEN 0 ELSE Min({g \in DOMAIN groups : best \in DomainsOf(g)})
NamedFirst(host) ==
  LET named == {g \in DOMAIN groups : DomainsOf(g) \cap Endings(host) # {}}
  IN IF named = {} THEN 0 ELSE Min(named)

\* The search of dns_rules_match: the rules without a domain of each group
\* before the candidate, then the candidate.  (The groups that lead the list
\* without domain rules are before every candidate.)
GroupSearch(host) ==
  LET limit == IF NamedFirst(host) = 0 THEN Len(groups) ELSE NamedFirst(host) - 1
      upto[g \in 0 .. limit] ==
        IF g = 0 THEN [group |-> 0, cache |-> siteCache]
        ELSE LET at  == upto[g - 1]
                 got == GroupAnswer(g, host, at.cache)
             IN IF at.group # 0 THEN at
                ELSE [group |-> IF got.result THEN g ELSE 0, cache |-> got.cache]
      found == upto[limit]
  IN IF found.group # 0 THEN found ELSE [found EXCEPT !.group = NamedFirst(host)]

----------------------------------------------------------------------------
DnsInit ==
  /\ \E c \in Configured : domains = c[1] /\ groups = c[2]
  /\ siteCache = <<>> /\ dnsCache = <<>> /\ question = NotAsked

\* dns_rules_match.
DnsMatch(name) ==
  LET host  == Undotted(name)
      found == GroupSearch(host)
  IN /\ IF Hit(dnsCache, host) # {}
        THEN /\ question' = [by |-> "dns", host |-> host,
                          answer |-> dnsCache[Min(Hit(dnsCache, host))].group]
             /\ dnsCache' = Recalled(dnsCache, host)
             /\ UNCHANGED siteCache
        ELSE /\ question' = [by |-> "dns", host |-> host, answer |-> found.group]
             /\ dnsCache' = Remember(dnsCache, DnsWays, [host |-> host, group |-> found.group])
             /\ siteCache' = found.cache
     /\ UNCHANGED <<domains, groups>>

\* A geosite rule of a route, which takes the name as it is.
RouteMatch(name, rule) ==
  LET got == SiteMatch(siteCache, name, rule.attr, rule.negated)
  IN /\ question' = [by |-> "route", host |-> name, rule |-> rule, answer |-> got.result]
     /\ siteCache' = got.cache
     /\ UNCHANGED <<domains, groups, dnsCache>>

DnsNext ==
  \E name \in DnsNames : DnsMatch(name) \/ \E rule \in SiteRules : RouteMatch(name, rule)

DnsSpec == DnsInit /\ [][DnsNext]_dnsVars

----------------------------------------------------------------------------
(* Properties.                                                             *)

Matches(rule, host) ==
  CASE rule.type = "domain"  -> MatchDomain(host, rule.value)
    [] rule.type = "geosite" -> Listed(host, rule.attr, rule.negated)
    [] rule.type = "regexp"  -> host \in rule.hosts

\* The indexes, the trie and the cache are only faster: a geosite rule says of
\* a name what reading the list from end to end says (geosite_match).
ListDecides ==
  question.by = "route" =>
    question.answer = Listed(question.host, question.rule.attr, question.rule.negated)

\* The group of a name is the first with a rule that matches it, the rules
\* taken one by one, whatever the index and both caches hold
\* (dns_rules_match).
FirstGroupDecides ==
  question.by = "dns" =>
    LET m == {g \in DOMAIN groups : \E i \in DOMAIN groups[g] : Matches(groups[g][i], question.host)}
    IN question.answer = IF m = {} THEN 0 ELSE Min(m)
=============================================================================

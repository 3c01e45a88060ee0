---------------------------- MODULE MCMatching ----------------------------
(* Small instances of the two searches through ordered rules: routes and   *)
(* DNS groups.  A behaviour is that of the one or of the other.            *)
EXTENDS Routing, DnsRules, TLC

VARIABLE which   \* the search that is looked at

----------------------------------------------------------------------------
Site(host, port) == [host |-> host, port |-> port]
MCTargets == {Site(<<"a", "com">>, 443), Site(<<"a", "com">>, 80),
              Site(<<"b", "com", "">>, 443), Site(<<>>, 443)}

Rule(type, domain, hosts, ports) ==
  [type |-> type, domain |-> domain, hosts |-> hosts, ports |-> ports]
MCRules == {Rule("domain", <<"com">>, {}, {}), Rule("domain", <<"a", "com">>, {}, {}),
            Rule("hosts", <<>>, {<<"b", "com", "">>, <<>>}, {}),
            Rule("port", <<>>, {}, {443})}

MCOutbounds   == {"direct", "quic", "s1", "s2", "null"}
MCOutboundsOf == <<{"direct", "s1"}, {"quic", "s1"}, {"null", "s2"}>>
MCBlock == [out \in MCOutbounds |-> CASE out = "direct" -> "udp" [] out = "quic" -> "h3"
                                      [] out = "null" -> "all" [] OTHER -> "none"]

----------------------------------------------------------------------------
aaab == <<"a", "a", "a", "b">>   ab == <<"a", "b">>          aab == <<"a", "a", "b">>
abb == <<"a", "b", "b">>    a_b == <<"a", ".", "b">>    ba_b == <<"b", "a", ".", "b">>

InList(type, value, attrs, hosts) ==
  [type |-> type, value |-> value, attrs |-> attrs, hosts |-> hosts]
MCPool == {InList("plain", aab, {}, {}), InList("plain", ab, {}, {}),
           InList("plain", <<"b">>, {"ads"}, {}), InList("plain", <<"b", "b">>, {}, {}),
           InList("domain", a_b, {}, {}), InList("domain", <<"b">>, {"ads"}, {}),
           InList("full", ba_b, {}, {}), InList("regex", <<"x">>, {"ads"}, {aaab, a_b})}

MCSiteRule(attr, negated) == [type |-> "geosite", attr |-> attr, negated |-> negated]
MCSiteRules == {MCSiteRule("", FALSE), MCSiteRule("ads", FALSE), MCSiteRule("ads", TRUE)}

MCDnsNames == {aaab, abb, a_b \o <<".">>, ba_b}
MCDnsRules == {MCSiteRule("", FALSE), [type |-> "domain", value |-> a_b],
               [type |-> "domain", value |-> <<"b">>], [type |-> "regexp", hosts |-> {aaab, ba_b}]}

\* Any list of three with one group of servers, or any groups of servers
\* with one list.
MCLists  == kSubset(3, MCPool)
MCGroup  == UNION {[1 .. k -> MCDnsRules] : k \in 1 .. 2}
MCGroups == {<<g>> : g \in MCGroup} \cup {<<g, <<rule>>>> : g \in MCGroup, rule \in MCDnsRules}
MCConfigured ==
  (MCLists \X {<<<<MCSiteRule("", FALSE)>>>>})
    \cup ({{InList("plain", ab, {}, {}), InList("domain", a_b, {"ads"}, {})}} \X MCGroups)

----------------------------------------------------------------------------
OneInit ==
  \/ /\ which = "routes" /\ Init
     /\ domains = {} /\ groups = <<>>
     /\ siteCache = <<>> /\ dnsCache = <<>> /\ question = NotAsked
  \/ /\ which = "dns" /\ DnsInit
     /\ routes = <<>> /\ cache = <<>> /\ outbound = None /\ recent = NoDecision
     /\ assoc = None /\ chosen = [target |-> None]

OneNext ==
  \/ which = "routes" /\ Next /\ UNCHANGED <<which, dnsVars>>
  \/ which = "dns" /\ DnsNext /\ UNCHANGED <<which, vars>>

OneSpec == OneInit /\ [][OneNext]_<<which, vars, dnsVars>>
=============================================================================

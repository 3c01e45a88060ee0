SPECIFICATION OneSpec
CONSTANTS
  Targets <- MCTargets
  Rules <- MCRules
  MaxRoutes = 3
  MaxRules = 2
  Outbounds <- MCOutbounds
  OutboundsOf <- MCOutboundsOf
  Block <- MCBlock
  Socks5 = {"s1", "s2"}
  None = None
  RouteWays = 2
  Letters = {"a", "b", "x", "."}
  AcMaxChars = 5
  SiteWays = 2
  DnsNames <- MCDnsNames
  SiteRules <- MCSiteRules
  DnsWays = 1
  Configured <- MCConfigured
INVARIANTS
  RoutedByFirstMatch
  AssociationMatches
  ListDecides
  FirstGroupDecides

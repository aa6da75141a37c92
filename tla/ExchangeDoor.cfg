\* Two requests of two clients, or of a proxy itself, straight or through one or
\* two proxies that are trusted or not, with headers that name another client, a
\* proxy, nothing or no address; one start of each kind, with durations of eight
\* bits and hours of fifty units, so that three hours wrap to less than zero.
CONSTANTS
  None = None
  Blank = Blank
  r1 = r1
  r2 = r2
  c1 = c1
  c2 = c2
  p1 = p1
  p2 = p2
  junk = junk
  app = app
  other = other
  common = common
  home = home
  away = away
  ann = ann
  gProxy = gProxy
  gNet = gNet
  gBad = gBad
  Requests = {r1, r2}
  Clients = {c1, c2, p1}
  Malformed = {junk}
  Environments <- MCEnvironments
  Chains <- MCChains
  Headers <- MCHeaders
  Tokens <- MCTokens
  Tenants = {home, away}
  AnyTenant = {common}
  Networks <- MCNetworks
  limits <- MCLimits
  Capacity = 4
  MaxClock = 1
  Hour = 50
  MaxInt = 127
SPECIFICATION Spec
INVARIANTS CountedByClient ClientsWithinQuota NoForgedIdentity ConfigKeepsPromises
SYMMETRY MCSymmetry

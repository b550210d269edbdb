SPECIFICATION Spec
CONSTANTS
  r0 = r0
  r1 = r1
  r2 = r2
  t = t
  p = p
  Routers <- MCRouters
  Networks = {t}
  Self = r0
  Dests = {p}
  Hosts = {1}
  RouterBodies <- MCRouterBodies
  NetworkBodies <- MCNetworkBodies
  PrefixBodies <- MCPrefixBodies
  LinkPairs <- MCLinkPairs
  MULTI_PATH_LIMIT = 2
  MaxRoutes = 3
  NoEvent = NoEvent
  NoRoute = NoRoute
INVARIANTS SpfIsShortest RoutesFollowLsdb OneOriginMirrored OneOriginTold

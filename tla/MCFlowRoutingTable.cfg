SPECIFICATION Spec
CONSTANTS
    AddrBits = 3
    e0 = e0
    e1 = e1
    lo = lo
    f1 = f1
    f2 = f2
    Ifaces = {lo, e0, e1}
    Loopback = lo
    Flows = {f1, f2}
    RouteIds = {r1, r2, r3, r4}
    MaxManual = 2
    MRouteIds = {m1}
    RouterIdParam = 0
    None = None
    Configs <- MCConfigs
    InitConf <- MCInitConf
    Dest <- MCDest
    Hash <- MCHash
    ManualRoutes <- MCManualRoutes
    FileRoutes <- MCFileRoutes
    MRoutes <- MCMRoutes
SYMMETRY Symmetry
CHECK_DEADLOCK FALSE
INVARIANTS TypeOK CacheNeverDangles CachedIsBest AddressCachesExact RoutesFollowInterfaces

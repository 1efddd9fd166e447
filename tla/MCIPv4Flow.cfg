SPECIFICATION FairSpec
CONSTANTS
    lo = lo
    e0 = e0
    e1 = e1
    h1 = h1
    a = a
    b = b
    c = c
    d = d
    l = l
    m = m
    n = n
    t = t
    Ifaces = {lo, e0, e1}
    Loopback = lo
    Hops = {h1}
    Wire = Wire
    Ids = {a, b, c, d, l, m, n, t}
    HL = HL
    NoRoute = NoRoute
    DontFragment = {t}
    Header = 20
    IPForward = TRUE
    ForceBroadcast = TRUE
    RetryCount = 2
    MaxInputs = 2
    Inputs <- MCInputs
    Kind <- MCKind
    Routes <- MCRoutes
    Subnet <- MCSubnet
    Joined <- MCJoined
    MRouteIn <- MCMRouteIn
    MRouteOuts <- MCMRouteOuts
    Protocol <- MCProtocol
    Mtu <- MCMtu
    HookVerdicts <- MCHookVerdicts
INVARIANTS TypeOK PendingAwaitsArp EveryByteOnce
PROPERTIES NoOvertaking EventuallyIdle

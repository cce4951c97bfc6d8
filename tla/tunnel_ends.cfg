SPECIFICATION TunnelSpec
CONSTANTS
    PlainHosts = {h1, h2}
    LateUpgrades = FALSE
INVARIANTS TunnelTypeOK NothingLeftOpen
PROPERTIES ServerEndReachesClient ClientEndReachesServer DialReturns TlsTunnelEnds EverythingSettles

SPECIFICATION TunnelSpec
CONSTANTS
    PlainHosts = {}
    LateUpgrades = FALSE
PROPERTY CloseAfterResponseCloses

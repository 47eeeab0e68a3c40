SPECIFICATION Spec
CONSTANTS
    Selectors <- MCSelectors
    SelectorKind <- MCSelectorKind
    SelectorValue <- MCSelectorValue
    Members <- MCMembers
    MaxDepth = 2
    TestEngines <- MCTestEngines
    MaxEngines = 11
    DeploymentTarget = 150000
    Configs <- MCConfigs
    CatalogMemory = {0, 3}
    Images <- MCImages
    Preloaded <- MCPreloaded
    Installable = {"provider-gum", "provider-substitute"}
    Requests <- MCRequests
    Committed <- MCCommitted
    Undeclared <- MCUndeclared
    OneImageRebind = "test-rebind"
    RebindHeader = 1
    MaxRuntimes = 1
    MaxCommits = 1
    MaxOthers = 1
INVARIANT TypeOK
INVARIANT ClaimedScopeHolds
INVARIANT RoutesAdmissible
INVARIANT EffectsReported
INVARIANT LedgersStand
PROPERTY KeysMatchScope
PROPERTY RouteIsBest
PROPERTY PinsAreHonoured
CHECK_DEADLOCK FALSE

SPECIFICATION GatewaySpec
CONSTANTS
    Calls = {k1, k2, k3}
    Tokens = {writer}
    ApiKeys <- MCApiKeys
    ClaimsOf <- MCClaimsOf
    TierKey <- MCTierKey
    RoleName <- MCRoleName
    Limit = 2
    Window = 1
    MaxClock = 3
INVARIANTS
    GatewayTypeOK
    WindowRespected
    RefusalsJustified
    DequesAreRecent
    PlacesArePermittedCalls
    RevokedTokensAreRefused
SYMMETRY
    CallsAlike

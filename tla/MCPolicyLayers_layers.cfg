SPECIFICATION FairSpec
CONSTANTS
    home = home
    edited = edited
    moved = moved
    strict = strict
    loose = loose
    theirs = theirs
    north = north
    south = south
    NoPolicy = NoPolicy
    NoCache = NoCache
    Locals = {home, edited, moved}
    Policies = {strict, loose, theirs}
    Tenants = {north, south}
    Buildable <- AllButStrict
    Tenant <- TwoTenants
    Owned <- OwnDocuments
    Refuse = TRUE
    Caching = TRUE
    Requests = {r1}
INVARIANTS
    ServedUnderPolicy
    RuntimeIsLayers
    ReportedIsServed
    OwnPolicy
PROPERTIES
    LayersFollowed

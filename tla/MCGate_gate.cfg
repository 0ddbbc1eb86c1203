SPECIFICATION MCSpec
CONSTANTS
    Hosts <- SomeHosts
    Servers <- SomeServers
    Width = 2
    Written <- SomeWritten
    Openings <- SomeOpenings
    MaxPath = 3
    MaxHops = 2
    MaxWalk = 2
    MaxV1 = 5
    MaxV2 = 2
    Certs <- SomeCerts
    Clients = {"ann", "bob"}
    Balancer = "lb"
    CertPolicies <- SomePolicies
    Bundles <- SomeBundles
    Crls <- SomeCrls
    MaxWrites = 2
    Requests = {"r1", "r2"}
    Engines <- SomeEngines
    Kids = {"a", "b"}
    FirstKeys <- SomeKeys
    CacheTtl = 1
    FetchLimit = 1
    MaxTime = 3
    MaxRotations = 1
    AuthHeaders <- SomeAuth
    KeyHeaders <- SomeKeyHeaders
    Tokens <- SomeTokens
    Limits <- SomeLimits
    Ips = {"i1"}
    Paths <- SomePaths
    Principals = {"p"}
    Millisecond = 2
    Horizon = 9
    MaxResets = 1
INVARIANTS
    AddressIsTheClients
    CertificateIsTheClients
    CredentialsChecked
PROPERTIES
    RatesKept
    GateGoesOn
CHECK_DEADLOCK FALSE

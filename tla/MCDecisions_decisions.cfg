\* One part moves at a time; most of them end, so deadlock is not an error.
SPECIFICATION MCSpec
CONSTANTS
    tA = tA
    tB = tB
    tC = tC
    tD = tD
    tE = tE
    NoKey = NoKey
    NoTarget = NoTarget
    Pools <- TwoPools
    Ranks <- SomeRanks
    Stuck <- AnyStuck
    MaxTurn = 8
    OutConfigs <- SomeOutConfigs
    Sections <- SomeSections
    Once = {"cp", "up"}
    Upstreams = {"up"}
    Pairs = {"p1", "p2"}
    MaxGen = 2
    MaxReads = 2
    UpConfigs <- SomeUpConfigs
    Expected <- Ok
    BodyLimit = 3
    Texts <- SomeTexts
    Detections <- SomeDetections
    Replies <- SomeReplies
    Keep = 1
    MaxPlaceholder = 5
    FrameSizes = {1, 3}
    Usages <- SomeUsages
    Books <- SomeBooks
    Models <- SomeModels
    Providers = {"p"}
    LineHead = 2
    LineTail = 4
    Padding = {0, 2, 5}
    Reads = {1, 4}
    PerMillion = 2
    Guards <- SomeGuards
    Asked <- SomeAsked
    Hex <- SomeHex
    HopByHop <- SomeHop
    CorsPolicies <- SomeCors
    Origins <- SomeOrigins
    UpAnswers <- SomeUpAnswers
    Schema <- SomeSchema
    OutboundKeys <- SomeOutboundKeys
    Alphabet = {"a", "b", "c"}
    Edits <- SomeEdits
    Searches = 2
    Replays = 12
    MaxKeys = 4
    EdgeConfigs <- SomeSettings
    HeldPorts = {8443}
    MaxStarts = 2
INVARIANTS
    ConnectsAsConfigured
    TextsKept
    AnswersKept
    StartIsForetold
PROPERTIES
    TurnsKept
CHECK_DEADLOCK FALSE

CONSTANTS
    None = None
    Paths = {1, 2, 3, 4, 5}
    Trees <- MCTrees
    Ignored = {4, 5}
    Tracked = {1, 4}
    ContentsOf <- MCContentsOf
    BaseFiles <- MCBaseFiles
    ForkOf <- MCForkOf
    References <- MCReferences
    Policies <- MCPolicies
    MaxFileLines = 6
    MaxMoves = 2
    RolesOf <- MCRolesOf
    ContextLines = 1
    Budget <- MCBudget
    MaxLine = 100
    MaxHunks = 4
    MaxHunkLines = 10
    MaxCommentable = 20
    Radius = 1
    MaxBytes = 1000
    MaxPatterns = 4
    MaxPlanFiles = 4
    LowSignalDivisor = 10
    MaxLowSignal = 2
    Setups <- MCSetups
    Heads = {"h1", "h2"}
    Hosts <- MCHosts
    AnswerSets <- MCAnswerSets
    Responses <- MCResponses
    MaxRebinds = 2
    MaxRequests = 2
    MaxEventBytes = 2
    MaxTokenBytes = 4
    MaxBodyBytes = 2
    MaxCertificates = 2
    MaxCertificateBytes = 2
    MaxBundleBytes = 4
    MaxDnsAnswers = 8
    MaxTtl = 86400
    PinLifetime = 60
    StandardAnswers = 2
SPECIFICATION Spec
CHECK_DEADLOCK FALSE
INVARIANTS
    CurrentWhenFresh
    ChangesExplain
    AnchorsExact
    PlanAccounts
    SameForEveryHost
    TokenStaysHome

SPECIFICATION Spec
CONSTANTS
    Documents <- MCDocuments
    Requests <- MCRequests
    None = None
    Token = {t1, t2}
    Entry <- MCEntry
    Context <- MCContext
    Lease = {l1, l2, l3}
    Locator = {o1, o2}
    Resource = {r1, r2}
    U32Max = 3
    MaxTime = 1
    NoEntry = NoEntry
    BrokerRequests <- MCBrokerRequests
    Secrets <- MCSecrets
    FirstAnswers <- MCFirstAnswers
    Answers <- MCAnswers
    Replies <- MCReplies
    MaxResponse = 2
    NoReply = NoReply
    Doc = {1, 2}
    WholeDocs = {2}
    Findings <- MCFindings
    Text = {x1, x2}
    Inode = {1, 2}
    Identified = {TRUE, FALSE}
    MaxForeign = 1
    MaxRounds = 4
    NoDoc = NoDoc
    MaxRules = 2
    MaxPacks = 1
    RULES <- MCRules
    CheckedTexts <- MCCheckedTexts
    Bases <- MCBases
    MaskedTexts <- MCMaskedTexts
    SecretTexts <- MCSecretTexts
    GlobPatterns <- MCGlobPatterns
    GlobValues <- MCGlobValues
    Trees <- MCTrees
    Configs <- MCConfigs
    Packs <- MCPacks
    Budgets <- MCBudgets
    Repositories <- MCRepositories
    RuleIds = {"pat", "oauth", "entropy"}
    ISSUED = {"pat", "oauth"}
    AlertIds = {1, 2, 3, 4, 5}
    SecretOf <- MCSecretOf
    PageSize = 2
    MaxMoves = 2
    NoSecret = NoSecret
INVARIANTS
    AbsenceIsSearched
    ChecksumsSound
    FindingsAreMasked
    BestSecretsReported
    NothingPassedOver
    LeavesOnlyForListed
    SecretStaysOut
    DenyOverrides
    SilentDiffDecidesAlike
    UsesAccounted
    OriginalsAreKept
PROPERTIES
    RevocationIsFinal
CHECK_DEADLOCK FALSE

\* Groups created again at one code, with gates and donations: what a later group
\* inherits.  Every instruction is called through the IDL and read from its events.
SPECIFICATION ClientSpec
CONSTANTS
    m1 = m1
    m2 = m2
    None = None
    Groups = {"g"}
    Creators = {"c"}
    Members = {m1, m2}
    Payers = {"p1", "p2"}
    Keys = {"k", "program"}
    InvalidKeys = {"program"}
    Mints <- OneMint
    Native = {}
    ExtensionsOf <- MintExtensions
    TokenAccounts <- OneAccountEach
    OwnerOf <- AccountOwner
    MintOf <- AccountMint
    Canonical <- OneAccountEach
    Freezable = {}
    DepositAmounts = {1}
    PeriodCounts = {2}
    GroupSizes = {2}
    RentFloor <- FixedRent
    TokenFunds = 2
    Lamports = 7
    MaxU64 = 14
    MaxU32 = 2
    Horizon = 2
    MaxDonation = 1
    MaxTopUp = 0
    MaxFrequency = 0
    PeriodSecs <- OneSecond
    RetentionSecs = 1
    MaxI64 = 100
SYMMETRY MemberSymmetry
INVARIANTS ReaderKnowsGroups CountMatchesRecords FreedCodeIsClean
PROPERTIES WritesDeclared LossesSigned AmountsMoved GroupLifecycle SettledRecordsAreKept JoinCountOnlyGrows GateCoversEveryMember SafeNudgeIsWatched
CHECK_DEADLOCK FALSE

\* Three members and donations: where the tokens of one group go.
SPECIFICATION Spec
CONSTANTS
    m1 = m1
    m2 = m2
    m3 = m3
    g1 = g1
    g2 = g2
    None = None
    Groups = {"g"}
    Creators = {"c"}
    Members = {m1, m2, m3}
    Payers = {"p"}
    Keys = {}
    InvalidKeys = {}
    Mints <- OneMint
    Native = {}
    ExtensionsOf <- MintExtensions
    TokenAccounts <- OneAccountEach
    OwnerOf <- AccountOwner
    MintOf <- AccountMint
    Canonical <- CanonicalAccounts
    Freezable = {}
    DepositAmounts = {0, 2}
    PeriodCounts = {0, 2}
    GroupSizes = {1, 3, 11}
    RentFloor <- FixedRent
    TokenFunds = 4
    Lamports = 8
    MaxU64 = 15
    MaxU32 = 1
    Horizon = 1
    MaxDonation = 2
    MaxTopUp = 0
    MaxFrequency = 0
    PeriodSecs <- TwoSeconds
    RetentionSecs = 1
    MaxI64 = 100
SYMMETRY MemberSymmetry
INVARIANTS TypeOK RecordsMatchPeriods SettlementAlwaysPossible
PROPERTIES ImplementsEscrow
CHECK_DEADLOCK FALSE

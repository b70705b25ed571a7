\* A rent rate that changes, lamport transfers and frozen token accounts.
SPECIFICATION Spec
CONSTANTS
    m1 = m1
    m2 = m2
    m3 = m3
    g1 = g1
    g2 = g2
    None = None
    Groups = {"g"}
    Creators = {"c"}
    Members = {m1, m2}
    Payers = {"p", "q"}
    Keys = {}
    InvalidKeys = {}
    Mints <- OneMint
    Native = {}
    ExtensionsOf <- MintExtensions
    TokenAccounts <- SecondAccount
    OwnerOf <- AccountOwner
    MintOf <- AccountMint
    Canonical <- CanonicalAccounts
    Freezable <- FirstMemberAta
    DepositAmounts = {1}
    PeriodCounts = {1}
    GroupSizes = {2}
    RentFloor <- TwoRents
    TokenFunds = 1
    Lamports = 6
    MaxU64 = 4
    MaxU32 = 2
    Horizon = 0
    MaxDonation = 0
    MaxTopUp = 2
    MaxFrequency = 0
    PeriodSecs <- OneSecond
    RetentionSecs = 0
    MaxI64 = 100
INVARIANTS SettlementAlwaysPossible
PROPERTIES RentReturnsToItsPayer OnlySignersPay
CHECK_DEADLOCK FALSE

\* A backend that signs approved joins for a settled group too.
SPECIFICATION ApprovalSpec
CONSTANTS
    c = c
    d = d
    usdc = usdc
    eurc = eurc
    None = None
    Groups = {"g"}
    Creators = {c}
    Members = {"m"}
    Payers = {"p"}
    Keys = {"k"}
    InvalidKeys = {}
    Mints <- OneMint
    Native = {}
    ExtensionsOf <- NoExtensions
    TokenAccounts <- AccountOf
    OwnerOf <- AccountOwner
    MintOf <- AccountMint
    Canonical <- AccountOf
    Freezable = {}
    DepositAmounts = {1}
    PeriodCounts = {1}
    GroupSizes = {2}
    RentFloor <- FixedRent
    TokenFunds = 1
    Lamports = 5
    MaxU64 = 4
    MaxU32 = 2
    Horizon = 2
    MaxDonation = 0
    MaxTopUp = 0
    MaxFrequency = 0
    PeriodSecs <- OneSecond
    RetentionSecs = 2
    MaxI64 = 100
    CoSignStatuses = {"Open", "Active", "Completed", "Cancelled"}
    BlockhashLife = 1
    MaxInFlight = 2
    MaxInstances = 2
PROPERTIES ReplayNeedsEmptyGroups
CHECK_DEADLOCK FALSE

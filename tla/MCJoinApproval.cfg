\* Joins that land late, twice or in a later group at the code, which may be of
\* another creator or on another mint.
SPECIFICATION ApprovalSpec
CONSTANTS
    c = c
    d = d
    usdc = usdc
    eurc = eurc
    None = None
    Groups = {"g"}
    Creators = {c, d}
    Members = {"m"}
    Payers = {"p"}
    Keys = {"k"}
    InvalidKeys = {}
    Mints <- TwoMints
    Native = {}
    ExtensionsOf <- NoExtensions
    TokenAccounts <- AccountOf
    OwnerOf <- AccountOwner
    MintOf <- AccountMint
    Canonical <- AccountOf
    Freezable = {}
    DepositAmounts = {1}
    PeriodCounts = {1}
    GroupSizes = {2}
    RentFloor <- FixedRent
    TokenFunds = 1
    Lamports = 5
    MaxU64 = 4
    MaxU32 = 2
    Horizon = 2
    MaxDonation = 0
    MaxTopUp = 0
    MaxFrequency = 0
    PeriodSecs <- OneSecond
    RetentionSecs = 2
    MaxI64 = 100
    CoSignStatuses = {"Open"}
    BlockhashLife = 1
    MaxInFlight = 2
    MaxInstances = 2
SYMMETRY CreatorAndMintSymmetry
PROPERTIES ApprovalLandsOnce ReplayNeedsEmptyGroups JoinsLandAsShown
CHECK_DEADLOCK FALSE

\* The rehearsal among strangers, with a local clock that may be ahead.
SPECIFICATION RehearsalSpec
CONSTANTS
    None = None
    s1 = s1
    s2 = s2
    Groups = {"bait", "life"}
    Creators <- GroupCreators
    Members <- Everyone
    Payers <- RentPayers
    Keys = {"key"}
    InvalidKeys = {}
    Mints <- OneMint
    Native = {}
    ExtensionsOf <- NoExtensions
    TokenAccounts <- AccountOf
    OwnerOf <- AccountOwner
    MintOf <- AccountMint
    Canonical <- AccountOf
    Freezable = {}
    DepositAmounts = {1, 9}
    PeriodCounts = {2}
    GroupSizes = {5}
    RentFloor <- FixedRent
    TokenFunds = 10
    Lamports = 4
    MaxU64 = 60
    MaxU32 = 2
    Horizon = 0
    MaxDonation = 1
    MaxTopUp = 0
    MaxFrequency = 3
    PeriodSecs <- TwoSeconds
    RetentionSecs = 2
    MaxI64 = 100
    Payer = "payer"
    Victim = "victim"
    Crew <- ThreeMembers
    Strangers <- Newcomers
    Bait = "bait"
    Life = "life"
    Low = 1
    High = 9
    MaxSkew = 1
    Paces = {3}
    LastStart = 6
    MaxMoves = 5
    MaxGifts = 1
INVARIANTS FailureHasACause PassShowsRefund
SYMMETRY Symmetry
CHECK_DEADLOCK FALSE

\* A creator who retries while members come and go, m1 closes an account or has
\* it require memos, the issuer freezes it, and cancels land late, twice or in a
\* later group at the code.  A second stands for the life of a blockhash.
SPECIFICATION FairCancel
CONSTANTS
    None = None
    Groups = {"g"}
    Creators = {"c"}
    Members = {"m1", "m2"}
    Payers = {"p"}
    Keys = {}
    InvalidKeys = {}
    Mints <- OneMint
    Native = {}
    ExtensionsOf <- NoExtensions
    TokenAccounts <- AccountOf
    OwnerOf <- AccountOwner
    MintOf <- AccountMint
    Canonical <- MemberAccounts
    Freezable <- Troubled
    Adjustable <- Troubled
    MemoMints <- OneMint
    DepositAmounts = {1}
    PeriodCounts = {2}
    GroupSizes = {2}
    RentFloor <- FixedRent
    TokenFunds = 1
    Lamports = 8
    MaxU64 = 4
    MaxU32 = 2
    Horizon = 1
    MaxDonation = 1
    MaxTopUp = 0
    MaxFrequency = 0
    PeriodSecs <- OneSecond
    RetentionSecs = 1
    MaxI64 = 100
    BlockhashLife = 0
    MaxInFlight = 2
    MaxInstances = 2
INVARIANT ListStaysGood
PROPERTIES LateCancelNeedsEmptyGroups RetriesEndInSettlement
CHECK_DEADLOCK FALSE

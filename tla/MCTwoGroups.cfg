\* Two groups with common members, on two mints, and mints to refuse.  Under
\* fairness of the permissionless instructions: cycles end, codes are freed.
SPECIFICATION FairSpec
CONSTANTS
    m1 = m1
    m2 = m2
    m3 = m3
    g1 = g1
    g2 = g2
    None = None
    Groups = {g1, g2}
    Creators = {"c"}
    Members = {m1, m2}
    Payers = {"p"}
    Keys = {}
    InvalidKeys = {}
    Mints <- ThreeMints
    Native = {"wsol"}
    ExtensionsOf <- MintExtensions
    TokenAccounts <- EveryMintAccount
    OwnerOf <- AccountOwner
    MintOf <- AccountMint
    Canonical <- CanonicalAccounts
    Freezable = {}
    DepositAmounts = {1}
    PeriodCounts = {1}
    GroupSizes = {2}
    RentFloor <- FixedRent
    TokenFunds = 2
    Lamports = 12
    MaxU64 = 13
    MaxU32 = 1
    Horizon = 0
    MaxDonation = 1
    MaxTopUp = 0
    MaxFrequency = 0
    PeriodSecs <- OneSecond
    RetentionSecs = 0
    MaxI64 = 100
INVARIANTS VaultBacksDeposits
PROPERTIES MembersKeepTheirTokens OnlyUnownedTokensBurn EveryCodeIsFreed
CHECK_DEADLOCK FALSE

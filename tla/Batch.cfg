CONSTANTS
    alice = alice
    bob = bob
    shop = shop
    mall = mall
    dao = dao
    usdc = usdc
    eurc = eurc
    None = None
    Address = {alice, bob, shop}
    Subscribers = {alice, bob}
    Merchants = {shop}
    Tokens = {usdc}
    SignerSets <- MCBatchSignerSets
    U64_MAX = 4
    U32_MAX = 3
    I128_MAX = 80
    MAX_AMOUNT = 40
    MIN_INTERVAL = 1
    MAX_INTERVAL = 1
    MAX_FEE_BPS = 500
    BATCH_MAX_SIZE = 2
    CURRENT_SCHEMA_VERSION = 2
    Admins = {}
    Amounts = {20}
    Intervals = {1}
    FeeRates = {}
    ResumeTimes = {None}
    Holders = {alice, bob}
    FundLevels = {40}
    MAX_COPIES = 1
SPECIFICATION Spec
INVARIANTS
    IndInv
PROPERTIES
    KeepsPromise
    SubscriberConsent
SYMMETRY MCSubscriberSymmetry

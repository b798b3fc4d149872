CONSTANTS
    alice = alice
    bob = bob
    shop = shop
    mall = mall
    dao = dao
    usdc = usdc
    eurc = eurc
    None = None
    Address = {alice, bob, shop}
    Subscribers = {alice}
    Merchants = {alice, bob, shop}
    Tokens = {usdc}
    SignerSets <- MCSignerSets
    U64_MAX = 3
    U32_MAX = 3
    I128_MAX = 80
    MAX_AMOUNT = 40
    MIN_INTERVAL = 1
    MAX_INTERVAL = 1
    MAX_FEE_BPS = 500
    BATCH_MAX_SIZE = 1
    CURRENT_SCHEMA_VERSION = 2
    Admins = {}
    Amounts = {20}
    Intervals = {1}
    FeeRates = {}
    ResumeTimes = {2, None}
    Holders = {alice}
    FundLevels = {20}
    MAX_COPIES = 2
SPECIFICATION Spec
INVARIANTS
    IndexMatchesSubscriptions
PROPERTIES
    KeepsPromise
    SubscriberConsent

CONSTANTS
    alice = alice
    bob = bob
    shop = shop
    mall = mall
    dao = dao
    usdc = usdc
    eurc = eurc
    None = None
    Address = {alice, shop, dao}
    Subscribers = {alice}
    Merchants = {shop}
    Tokens = {usdc}
    SignerSets <- MCSignerSets
    U64_MAX = 4
    U32_MAX = 3
    I128_MAX = 80
    MAX_AMOUNT = 40
    MIN_INTERVAL = 1
    MAX_INTERVAL = 2
    MAX_FEE_BPS = 500
    BATCH_MAX_SIZE = 1
    CURRENT_SCHEMA_VERSION = 2
    Admins = {dao}
    Amounts = {19, 40}
    Intervals = {0, 1, 2, 3}
    FeeRates = {500, 501}
    ResumeTimes = {3, None}
    Holders = {alice}
    FundLevels = {40}
    MAX_COPIES = 1
SPECIFICATION Spec
INVARIANTS
    TypeOK
    ScheduledAfterAnchor
PROPERTIES
    ChargeSpacing
    DebitIsAmount

\* The rate of an order against the exact quotient.
SPECIFICATION DiscoverySpec
CONSTANTS
    Base = 8
    FIBER_PUBKEY_LEN = 2
    LOCK_HASH_LEN = 1
    TX_HASH_LEN = 1
    INDEX_LEN = 1
    XUDT_AMOUNT_LEN = 2
    CHANNEL_CAPACITY_LEN = 2
    SHANNONS_PER_BLOCK_LEN = 1
    BLOCKNUMBER_LEN = 1
    BLOCKS_PER_YEAR = 5
    SIGNIFICANDS = 16
    Ulps <- MCUlps
    NoText = NoText
    AnyPubkey = AnyPubkey
    Places = 3
    Pubkeys = 1
    PubkeyAt <- MCPubkeyAt
    Buyer <- MCBuyer
    Offers <- MCOffers
    address = address
    Address = {address}
    MaxExtra = 1
    OtherCells <- MCOtherCells
    ListFilters <- MCListFilters
    BATCH = 1
INVARIANT ExactRates
CHECK_DEADLOCK FALSE

\* One CKB escrow, one seller terminal, one buyer terminal.
SPECIFICATION MarketSpec
CONSTANTS
    buyer = buyer
    seller = seller
    rival = rival
    RivalTerminal = {}
    s1 = s1
    s2 = s2
    key = key
    NoToken = NoToken
    Party = {buyer, seller}
    Pubkey = {key}
    Channel = {c1}
    Token = {}
    MCTokens = {NoToken}
    U64Max = 20
    OrderOccupied = 1
    Reserve = 1
    TypeOccupied = 1
    Slot = {1}
    MaxTip = 6
    Rates = {1}
    RentCapacities = {2}
    SellerTerminal = {s1}
    BuyerTerminal = {b1}
    Owner <- MCOwner
    Deltas <- MCDeltas
    Killable = {}
    MaxVersion = 4
    MaxPool = 4
    OrderOffers <- MCOrderOffers
    OutputCells <- MCOutputCells
    ChannelOffers <- MCChannelOffers
PROPERTIES UpdateKeepsClock
CHECK_DEADLOCK FALSE

\* One CKB escrow, two sellers with a terminal each, one buyer terminal; runs may be killed.
SPECIFICATION MarketSpec
CONSTANTS
    buyer = buyer
    seller = seller
    rival = rival
    RivalTerminal = {s2}
    s1 = s1
    s2 = s2
    key = key
    NoToken = NoToken
    Party = {buyer, seller, rival}
    Pubkey = {key}
    Channel = {c1}
    Token = {}
    MCTokens = {NoToken}
    U64Max = 20
    OrderOccupied = 1
    Reserve = 1
    TypeOccupied = 1
    Slot = {1}
    MaxTip = 5
    Rates = {1}
    RentCapacities = {2}
    SellerTerminal = {s1, s2}
    BuyerTerminal = {b1}
    Owner <- MCOwner
    Deltas <- MCDeltas
    Killable = {"extract", "update"}
    MaxVersion = 4
    MaxPool = 2
    OrderOffers <- MCOrderOffers
    OutputCells <- MCOutputCells
    ChannelOffers <- MCChannelOffers
INVARIANTS MarketTypeOK FreshAccepted PaidOnce
PROPERTIES ClockNeverBack ExtractionIsOwn
SYMMETRY MCSymmetry
CHECK_DEADLOCK FALSE

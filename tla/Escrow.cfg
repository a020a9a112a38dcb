\* One escrow, CKB or xUDT, any client.
SPECIFICATION Spec
CONSTANTS
    buyer = buyer
    key = key
    NoToken = NoToken
    Party = {buyer, seller}
    Pubkey = {key}
    Channel = {c1}
    Token = {xudt}
    U64Max = 7
    OrderOccupied = 1
    Reserve = 1
    TypeOccupied = 1
    Slot = {1}
    MaxTip = 5
    Capacities = {2, 3, 4, 5}
    Amounts = {0, 1, 2}
    Rates = {1, 2}
    NoText = NoText
    AssemblyDeltas = {1, 2}
    MaxExtra = 2
    OrderOffers <- MCOrderOffers
    OutputCells <- MCOutputCells
    ChannelOffers <- MCChannelOffers
INVARIANTS TypeOK ClockWithinChain ChannelBetween EndOpen AssembledAsBuilt
PROPERTIES TermsFixed OnlyVested RefinesRentStream
CHECK_DEADLOCK FALSE

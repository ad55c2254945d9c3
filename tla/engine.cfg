CONSTANTS
    o1 = o1
    o2 = o2
    o3 = o3
    t1 = t1
    t2 = t2
    OrderId <- ThreeIds
    Thread <- OneThread
    Price <- TwoPrices
    QMod = 8
    NoThread = NoThread
    NoCall = NoCall
    InputType = {"GoodTillCancel", "FillAndKill", "Market", "FillOrKill"}
    InputQty = {0, 1, 2}
    InputFilled = {0}
    ModifyQty = {1, 2}
    FreedKey = {"cleared"}
SPECIFICATION FairSpec
INVARIANTS
    BookIndexAgree
    PartialFillsLead
    NoEmptyFront
    TakerInEveryTrade
    NoFillAndKillAtRest
    MarketOrderSweeps
    LevelDataExact
    CanFullyFillExact
    FillOrKillFills
PROPERTIES
    MatchingBalances
    PriceTimePriority
    MatchingAdvances
    MatchingEnds
    ModifyNeverLoses
CHECK_DEADLOCK FALSE

CONSTANTS
    o1 = o1
    o2 = o2
    t1 = t1
    OrderId <- TwoIds
    Thread <- OneThread
    Price <- TwoPrices
    QMod = 8
    NoThread = NoThread
    NoCall = NoCall
    InputType = {"GoodTillCancel", "GoodForDay", "Market"}
    InputQty = {1}
    InputFilled = {0}
    ModifyQty = {}
    FreedKey = {"cleared"}
    Pruner = Pruner
    Unset = Unset
    UnsetReads = {TRUE, FALSE}
    SpuriousWakeups = TRUE
SPECIFICATION FairLifeSpec
INVARIANTS
    LifeTypeOK
PROPERTIES
    PruningExcludes
    PruningKeepsOrders
    DestructorCompletes
CHECK_DEADLOCK FALSE

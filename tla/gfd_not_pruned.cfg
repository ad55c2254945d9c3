CONSTANTS
    o1 = o1
    o2 = o2
    t1 = t1
    OrderId <- OneId
    Thread <- OneThread
    Price <- OnePrice
    QMod = 8
    NoThread = NoThread
    NoCall = NoCall
    InputType = {"GoodTillCancel", "GoodForDay"}
    InputQty = {1}
    InputFilled = {0}
    ModifyQty = {}
    FreedKey = {"cleared"}
    Pruner = Pruner
    Unset = Unset
    UnsetReads = {FALSE}
    SpuriousWakeups = FALSE
SPECIFICATION LifeSpec
PROPERTIES
    PruningFindsGoodForDay
CHECK_DEADLOCK FALSE

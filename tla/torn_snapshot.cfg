CONSTANTS
    o1 = o1
    o2 = o2
    t1 = t1
    t2 = t2
    OrderId <- TwoIds
    Thread <- OneThread
    Price <- TwoPrices
    QMod = 4
    NoThread = NoThread
    NoCall = NoCall
    End = End
    MaxWrites = 2
    InputType = {"GoodTillCancel"}
    InputQty = {1}
    InputFilled = {0}
    ModifyQty = {}
    FreedKey = {"cleared"}
SPECIFICATION ReaderSpec
INVARIANTS
    SnapshotUncrossed
CHECK_DEADLOCK FALSE

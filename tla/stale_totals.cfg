CONSTANTS
    o1 = o1
    o2 = o2
    o3 = o3
    t1 = t1
    t2 = t2
    OrderId <- TwoIds
    Thread <- OneThread
    Price <- TwoPrices
    QMod = 8
    NoThread = NoThread
    NoCall = NoCall
    InputType = {"GoodTillCancel"}
    InputQty = {1, 2}
    InputFilled = {0}
    ModifyQty = {}
    FreedKey = {"intact"}
SYMMETRY Symmetry
SPECIFICATION Spec
INVARIANTS
    LevelDataExact
CHECK_DEADLOCK FALSE

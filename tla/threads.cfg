CONSTANTS
    o1 = o1
    o2 = o2
    t1 = t1
    t2 = t2
    OrderId <- TwoIds
    Thread <- TwoThreads
    Price <- TwoPrices
    QMod = 4
    NoThread = NoThread
    NoCall = NoCall
    End = End
    MaxWrites = 1
    InputType = {"GoodTillCancel", "FillAndKill"}
    InputQty = {2}
    InputFilled = {0, 1}
    ModifyQty = {2}
    FreedKey = {"cleared"}
SYMMETRY Symmetry
SPECIFICATION ReaderSpec
INVARIANTS
    TypeOK
    ReaderTypeOK
    BookIndexAgree
    UncrossedAtRest
    QuietWalkExact
PROPERTIES
    LockExcludes
CHECK_DEADLOCK FALSE

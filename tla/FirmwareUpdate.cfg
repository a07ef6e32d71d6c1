SPECIFICATION Spec
CONSTANTS
    i1 = i1
    i2 = i2
    big = big
    Images = {i1, i2}
    Oversized = {big}
    NoImage = NoImage
    Partial = Partial
    Tokens = {0, 1, 2}
    Updates = {0, 1}
    HalfTurn = 2
    Torn = Torn
    NotSaving = NotSaving
    HasBootloader = TRUE
INVARIANT SlotsAlternate
INVARIANT GoodIsFlashed
INVARIANT ConfirmedIsDurable
PROPERTY ImplementsAtomicUpdate

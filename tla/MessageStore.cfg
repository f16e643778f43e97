CONSTANTS
    m1 = m1
    m2 = m2
    w1 = w1
    w2 = w2
    Message <- TwoMessages
    Mine <- OneMessage
    HasMedia <- OneMessage
    Writer <- TwoWriters
    MaxVersion = 2
    MaxTime = 3
    SendAddr <- OnlyNumber
SPECIFICATION Spec
SYMMETRY WriterSymmetry
CONSTRAINT Small
INVARIANTS ChatCoversRows OneRowWhenMapped
PROPERTIES RowsOnlyGain
CHECK_DEADLOCK FALSE

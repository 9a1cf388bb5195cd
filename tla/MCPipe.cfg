SPECIFICATION MCSpec
CONSTANTS
    x = x
    y = y
    t1 = t1
    t2 = t2
    t3 = t3
    Threads <- MCThreads
    Bytes <- MCBytes
    Block = TRUE
    Writes <- OneByteWrites
    ReadSizes = {2}
    MaxBytes = 2
PROPERTIES ImplementsDuplex CloseEndsReads WholeReadsEnd
CHECK_DEADLOCK FALSE

CONSTANTS
    p1 = p1
    p2 = p2
    Procs = {p1, p2}
    Paths <- MCNames
    Stored <- MCStored
    MaxLen = 3
    Plans <- MCPlans
    Faulty = {"b"}
    MaxFaults = 1
SPECIFICATION Spec
INVARIANTS Private MovedWhole FidsFollow FidsReturned
CHECK_DEADLOCK FALSE

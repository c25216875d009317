CONSTANTS
    Tasks = {t1, t2, t3}
    Invocations = {i1, i2}
    Classes = {"Payment", "Cart"}
    Meta <- MetaOf
    Keys = {k}
    NULL = NULL
    MaxAttempts = 2
    MaxJournal = 2
    MaxKeyed = 1
SPECIFICATION Spec
CHECK_DEADLOCK FALSE
SYMMETRY Symmetry
INVARIANTS
    InvocationInv
    JournalIsOwn
    ReplaysAreSilent
    WarnsOnce

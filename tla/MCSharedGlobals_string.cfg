SPECIFICATION Spec
CONSTANTS
    t1 = t1
    t2 = t2
    literal = literal
    made = made
    Threads = {t1, t2}
    Names = {"g"}
    Strings = {literal, made}
    Literals = {literal}
    MaxDepth = 2
    MaxCount = 5
    AtomicCounts = FALSE
SYMMETRY Symmetry
INVARIANT GlobalsAreAlive
CHECK_DEADLOCK FALSE

SPECIFICATION Spec
CONSTANTS
    w1 = w1
    w2 = w2
    w3 = w3
    w4 = w4
    conn = conn
    h1 = h1
    h2 = h2
    h3 = h3
    other = other
    None = None
    Conns = {conn}
    Handles = {h1, h2, h3}
    Other = other
    Writers = {w1, w2, w3, w4}
    Batch <- MCBatch
    Types = {"key", "move"}
CHECK_DEADLOCK FALSE
INVARIANTS
    OneTransaction

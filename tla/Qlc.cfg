CONSTANTS
    Conns = {c1, c2, c3, c4}
    NoConn = NoConn
    MaxOutputs = 3
SPECIFICATION Spec
CHECK_DEADLOCK FALSE
INVARIANTS TypeOK OneCarries
PROPERTIES InOrder Delivered

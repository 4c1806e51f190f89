CONSTANTS
    Workers = {w1, w2, w3}
    Conns = {c1, c2, c3, c4}
    NoConn = NoConn
SPECIFICATION Spec
SYMMETRY Symmetry
INVARIANTS TypeOK TablesReady NobodyReplaced NeverOutOfWork

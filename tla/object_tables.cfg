CONSTANTS
    Workers = {w1}
    Conns = {c1}
    NoConn = NoConn
SPECIFICATION Spec
INVARIANT TablesAsCommented

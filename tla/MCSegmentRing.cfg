CONSTANTS
    BufLen = 49
    SOCKET_QUEUE_SIZE = 4
    Lens <- MCLens
    Datagrams <- MCDatagrams
SPECIFICATION MCSpec
INVARIANTS TypeOK OverlapNeedsExactFit

CONSTANTS
    NSock = 1
    Tcp = {0}
    COMMAND_QUEUE_SIZE = 24
    SOCKET_QUEUE_SIZE = 2
    TxBufLen = 11
    RxBufLen = 8
    Dst = {}
    SendLens = {1}
    ArriveLens = {1}
    RecvLen = 8
    MaxSend = 1
    MaxArrive = 0
    MaxFail = 0
    LateErrors = {}
    NetworkFaults = TRUE
    PromptChip = TRUE
    PromptExti = TRUE
    TXBUF_SIZE = 4
    RXBUF_SIZE = 4
    PtrMod = 16
    InitPtr = 14
    MaxLives = 2
    MaxPolls = 1
    PollTimeouts = TRUE
    WhenSettled = TRUE
    MaxQueued = 0
SPECIFICATION LifeSpec
INVARIANTS StatusKnown LastCallHolds
PROPERTIES LifetimesApart ConnectTells

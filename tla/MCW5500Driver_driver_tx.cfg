CONSTANTS
    NSock = 1
    Tcp = {0}
    COMMAND_QUEUE_SIZE = 24
    SOCKET_QUEUE_SIZE = 2
    TxBufLen = 11
    RxBufLen = 8
    Dst = {}
    SendLens = {1, 2}
    ArriveLens = {}
    RecvLen = 8
    MaxSend = 3
    MaxArrive = 0
    MaxFail = 2
    LateErrors = {"WRITE_BUF"}
    NetworkFaults = TRUE
    PromptChip = TRUE
    PromptExti = TRUE
    TXBUF_SIZE = 4
    RXBUF_SIZE = 4
    PtrMod = 16
    InitPtr = 14
SPECIFICATION Spec
INVARIANTS TypeOK StallNeedsFailure HeaderIntact WriteBufIsOldest SendingOnce
PROPERTIES TxStream

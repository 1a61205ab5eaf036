CONSTANTS
    NSock = 1
    Tcp = {0}
    COMMAND_QUEUE_SIZE = 24
    SOCKET_QUEUE_SIZE = 2
    TxBufLen = 11
    RxBufLen = 8
    Dst = {}
    SendLens = {1}
    ArriveLens = {1}
    RecvLen = 8
    MaxSend = 0
    MaxArrive = 1
    MaxFail = 0
    LateErrors = {}
    NetworkFaults = FALSE
    PromptChip = TRUE
    PromptExti = TRUE
    TXBUF_SIZE = 4
    RXBUF_SIZE = 4
    PtrMod = 16
    InitPtr = 14
    MaxLives = 2
    MaxPolls = 1
    PollTimeouts = FALSE
    WhenSettled = FALSE
    MaxQueued = 0
SPECIFICATION LifeSpec
PROPERTIES LifetimesApart

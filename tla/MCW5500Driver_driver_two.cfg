CONSTANTS
    NSock = 2
    Tcp = {0}
    COMMAND_QUEUE_SIZE = 24
    SOCKET_QUEUE_SIZE = 2
    TxBufLen = 11
    RxBufLen = 19
    Dst = {1}
    SendLens = {1}
    ArriveLens = {1}
    RecvLen = 9
    MaxSend = 1
    MaxArrive = 1
    MaxFail = 0
    LateErrors = {}
    NetworkFaults = FALSE
    PromptChip = TRUE
    PromptExti = TRUE
    TXBUF_SIZE = 4
    RXBUF_SIZE = 16
    PtrMod = 32
    InitPtr = 30
SPECIFICATION Spec
INVARIANTS HeaderIntact ReceivingOnce
PROPERTIES TxStream RxStream

CONSTANTS
    NSock = 1
    Tcp = {}
    COMMAND_QUEUE_SIZE = 24
    SOCKET_QUEUE_SIZE = 2
    TxBufLen = 11
    RxBufLen = 40
    Dst = {1, 2}
    SendLens = {1}
    ArriveLens = {2}
    RecvLen = 8
    MaxSend = 2
    MaxArrive = 2
    MaxFail = 0
    LateErrors = {}
    NetworkFaults = TRUE
    PromptChip = TRUE
    PromptExti = TRUE
    TXBUF_SIZE = 4
    RXBUF_SIZE = 32
    PtrMod = 64
    InitPtr = 60
SPECIFICATION Spec
INVARIANTS SendingOnce ReceivingOnce
PROPERTIES TxStream RxStream

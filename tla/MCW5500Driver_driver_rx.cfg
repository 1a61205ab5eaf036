CONSTANTS
    NSock = 1
    Tcp = {0}
    COMMAND_QUEUE_SIZE = 24
    SOCKET_QUEUE_SIZE = 4
    TxBufLen = 11
    RxBufLen = 17
    Dst = {}
    SendLens = {1}
    ArriveLens = {1}
    RecvLen = 8
    MaxSend = 1
    MaxArrive = 2
    MaxFail = 0
    LateErrors = {}
    NetworkFaults = FALSE
    PromptChip = FALSE
    PromptExti = FALSE
    TXBUF_SIZE = 4
    RXBUF_SIZE = 4
    PtrMod = 16
    InitPtr = 14
SPECIFICATION Spec
INVARIANTS SendingOnce ReceivingOnce CommandRegisterFree
PROPERTIES RxStream

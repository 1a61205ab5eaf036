CONSTANTS
    NSock = 1
    Tcp = {0}
    COMMAND_QUEUE_SIZE = 24
    SOCKET_QUEUE_SIZE = 2
    TxBufLen = 4
    RxBufLen = 8
    Dst = {}
    SendLens = {1}
    ArriveLens = {1}
    RecvLen = 8
    MaxSend = 2
    MaxArrive = 1
    MaxFail = 1
    LateErrors = {}
    NetworkFaults = FALSE
    PromptChip = TRUE
    PromptExti = TRUE
    TXBUF_SIZE = 1
    RXBUF_SIZE = 1
    PtrMod = 4
    InitPtr = 3
SPECIFICATION FairSpec
PROPERTIES AllSent AllRead

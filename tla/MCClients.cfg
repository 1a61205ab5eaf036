CONSTANTS
    Servers = {"10.0.0.1"}
    Strays <- MCStrays
    MaxInbox = 1
    Names <- MCNames
    ValidNames <- MCValidNames
    Zone <- MCZone
    RetrySettings = {0, 1, 3}
    RetryMod = 4
    max_depth = 3
    MaxCalls = 2
    NtpRetrySettings = {0, 1, 7}
    NtpRetryMod = 8
    Word = 8
    NTP_EPOCH_OFFSET = 5
    MaxClock = 3
    Letters = {97}
    OtherBytes = {95}
    DNS_MAX_LABEL_LENGTH = 3
    DNS_MAX_NAME_LENGTH = 4
    MaxJumps = 2
    Targets <- MCTargets
    MaxHostname = 4
    MaxRecords = 2
    WsLens = {126, 1922}
    WsBuffers = {126}
    MaxFrames <- MCFrames
    MaxStale = 1
    MaxSaid = 2
SPECIFICATION ClientSpec
CHECK_DEADLOCK FALSE
INVARIANTS DnsResultIsTrue DnsParsesRight WsDelivers WsConnectedIsAccepted
PROPERTIES NtpTimeIsCurrent UdpStaysClosed WsQuietAfterClose ClientCallsReturn WsEndIsNoticed

\* A refused esp_wifi_connect leaves the station idle for good: the system may stop.
CHECK_DEADLOCK FALSE
SPECIFICATION Spec
CONSTANTS
    QueueLen = 3
    ConnectMayFail = TRUE
    MaxRestarts = 1
    NumRequests = 2
    Gets <- NoGets
    MaxCopies = 2
    HeapMayFail = TRUE
INVARIANTS TypeOK OncePerCopy StaleNeedsRetransmission OneContext BootOrder
PROPERTY RelaySpec

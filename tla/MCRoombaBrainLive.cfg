SPECIFICATION LiveSpec
CONSTANTS
    QueueLen = 3
    ConnectMayFail = FALSE
    MaxRestarts = 1
    NumRequests = 2
    Gets <- MCGets
    MaxCopies = 1
    HeapMayFail = FALSE
PROPERTIES Serves SocketDrains

CONSTANTS
    QueueLen = 4
    ConnectMayFail = FALSE
    MaxRestarts = 3
SPECIFICATION WifiLiveSpec
INVARIANTS
    WifiTypeOK
    BitSettles
    NoEventLost
    ConnectsFromIdle
    RetryPending
PROPERTIES
    Reconnects
    LinkAnnounced

\* one exchange of each side, used again and again
CONSTANTS
    PeerExchange = {peer}
    DeviceExchange = {device}
    Reports <- MCReports
    ChunkLength = 2
    MaxInputs = 4
    MaxWaiting = 2
SPECIFICATION Spec
INVARIANT PartsInOrder
INVARIANT StopAndWait
INVARIANT ReportsAreWhole
INVARIANT EntriesUsedOnce
CHECK_DEADLOCK FALSE

\* two messages of any kind, an exchange of the device, sends that may or may not wait
CONSTANTS
    CounterMod = 6
    WindowSize = 2
    NumMessages = 2
    MessageKinds <- MixedKinds
    XidMod = 1
    MaxInitiated = 1
    MaxObjects = 2
    MaxTasks = 3
    None = None
SPECIFICATION FairSpec
INVARIANT AckIsSound
INVARIANT ClosesAreFinished
PROPERTY OwedIsSettled
CHECK_DEADLOCK FALSE

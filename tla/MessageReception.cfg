\* 9 counters and a window of 3: the maximum crosses the window three times
CONSTANTS
    CounterMod = 9
    WindowSize = 3
SPECIFICATION ReceptionSpec
INVARIANT AtMostTwice
INVARIANT FreshIsAccepted
CHECK_DEADLOCK FALSE

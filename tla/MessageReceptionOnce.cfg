\* the claim of the comment over process_reception_encrypted
CONSTANTS
    CounterMod = 9
    WindowSize = 3
SPECIFICATION ReceptionSpec
INVARIANT AtMostOnce
CHECK_DEADLOCK FALSE

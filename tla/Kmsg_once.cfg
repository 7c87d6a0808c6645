SPECIFICATION Spec
CONSTANTS
    RingSize = 2  MaxRecords = 4  MaxClock = 3
INVARIANT EventsOnce

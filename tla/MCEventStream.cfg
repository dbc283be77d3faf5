\* Two writers, one client, and two of: a lost answer, a break, a crash.  A run may stop
\* producing events.
SPECIFICATION FairSpec
CONSTANTS
    Writers = {w1, w2}
    MaxId = 3
    MaxBuffered = 2
    Page = 2
    MaxFaults = 2
CHECK_DEADLOCK FALSE
INVARIANTS
    TypeOK
    NoEventSkipped
    WaitsOnlyForHints
    EndsComplete
PROPERTIES
    FeedKept
    EventsDelivered

\* The budgets of runtime/budgets.ts scaled down and in their order (they are 6, 7, 10, 12 and
\* 14 half minutes): a silence can be longer than a request, and a lease run out before the
\* watchdog ends the run.  One request and one more after a tool or a provider error; two
\* reports may wait.
CONSTANTS
    Initial = 2
    Request = 2
    Threshold = 5
    Idle = 6
    Segment = 8
    MaxRequests = 1
    MaxQueue = 2
    None = None
SPECIFICATION Spec
INVARIANTS
    LeaseHolds
    NotAhead
    RecordIsWhole
PROPERTY Concludes

\* Two requests; listeners, handlers and the breaker fail when they like.
CONSTANTS
    Requests = {r1, r2}
SPECIFICATION ServerFairSpec
CHECK_DEADLOCK FALSE
INVARIANTS  ClosedUnderLateOnly
PROPERTIES FailureExits Answered PanicEnds

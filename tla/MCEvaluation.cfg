SPECIFICATION MCSpec
CONSTANTS
    Tickets = {"t1", "t2"}
    Rotating <- SmallRotating
    Anchors <- SmallAnchors
    Attempt <- SmallAttempt
    Calls <- AllCalls
    Request <- CallRequest
    Strays <- OneStray
    Outputs <- SmallOutputs
    MARGIN = 1
    QUERY_LIMIT = 2
    MAX_LEASES = 1
    None = None
INVARIANTS
    EvaluationSafe
PROPERTIES
    EvaluationStands
    DrainingEnds
CHECK_DEADLOCK FALSE

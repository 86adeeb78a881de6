CONSTANTS
    Requests = 3
    Faults = 2
    Dids = {1, 2}
SPECIFICATION Spec
INVARIANTS Inv OwnAuthorization
PROPERTIES EveryRequestEnds ServicesSettle
\* Requests run out.
CHECK_DEADLOCK FALSE

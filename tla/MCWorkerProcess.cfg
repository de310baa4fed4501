SPECIFICATION Spec
CONSTANT Requests = 3
INVARIANTS RequestsStayApart
PROPERTIES NothingAfterShutdown NothingHangs
CHECK_DEADLOCK FALSE

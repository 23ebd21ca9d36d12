\* Three webhook requests and a probe: two may compete for the connection
\* while a third keeps the HTTP server from shutting down.  The process ends.
SPECIFICATION FairSpec
CONSTANT Request = {r1, r2, r3}
CHECK_DEADLOCK FALSE
INVARIANTS
    TypeOK
    StoreOutlivesDispatcher
    GracefulExit
    ReadyIsTruthful
PROPERTIES
    ProcessEnds

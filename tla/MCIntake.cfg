\* Two requests and the poller compete for the connection.  Every request is
\* made at most once; polls go on for ever.
SPECIFICATION FairSpec
CONSTANTS
    Groups = {"k1", "k2"}
    MaxAlerts = 2
    Request = {r1, r2}
    Payload <- Payloads
INVARIANTS
    TypeOK
    TableIsLastCommit
    AnswerTellsOutcome
    RetryOnlyWhenUseful
    LoggedIsSent
    NewerIsKept
PROPERTY EveryRequestAnswered

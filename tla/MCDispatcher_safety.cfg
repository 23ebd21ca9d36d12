\* Two groups, one of them upserted twice, two channels, every interleaving of
\* upserts, sends, late executions, crashes and cancellation.
SPECIFICATION Spec
CONSTANTS
    Groups = {g1, g2}
    NumChannels = 2
    BatchSize = 2
    QueueSize = 2
    MaxVersion <- OneTwice
INVARIANTS
    TypeOK
    ResultsMatchCurrent
    NoBackPressure
    NoStaleAfterNew
    DrainComplete
    MarkIsEarned
PROPERTY ImplementsContract

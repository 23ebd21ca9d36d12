\* Progress when goroutines are scheduled: sends may fail for ever.
SPECIFICATION FairSpec
CONSTANTS
    Groups = {g1, g2}
    NumChannels = 2
    BatchSize = 2
    QueueSize = 2
    MaxVersion <- Once
PROPERTIES
    ShutdownCompletes
    PollCompletes
    PendingIsProcessed
    EventuallyDelivered

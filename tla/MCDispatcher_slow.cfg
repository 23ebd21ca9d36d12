SPECIFICATION FairSpec
CONSTANTS
    Groups = {g1, g2}
    NumChannels = 2
    BatchSize = 2
    QueueSize = 2
    MaxVersion <- Once
PROPERTY SlowChannelDoesNotBlock

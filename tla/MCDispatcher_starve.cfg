\* More pending groups than one poll takes.
SPECIFICATION FairSpec
CONSTANTS
    Groups = {g1, g2}
    NumChannels = 1
    BatchSize = 1
    QueueSize = 1
    MaxVersion <- Once
PROPERTY PendingIsProcessed

SPECIFICATION Spec
CONSTANTS
    Groups = {g1}
    NumChannels = 2
    BatchSize = 1
    QueueSize = 1
    MaxVersion <- Once
INVARIANT MarkedMeansAllChannels

SPECIFICATION Spec
CONSTANTS
    Groups = {g1}
    NumChannels = 1
    BatchSize = 1
    QueueSize = 1
    MaxVersion <- Twice
PROPERTY UnpolledStayPending

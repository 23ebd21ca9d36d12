\* Two goroutines of every kind; Close at any moment, between the steps of
\* Enqueue too.
SPECIFICATION FairSpec
CONSTANTS
    Producer = {p1, p2}
    Consumer = {c1, c2}
    Closer = {k1, k2}
    Cap = 2
    MaxItems = 3
INVARIANTS
    TypeOK
    ClosedOnce
    NothingStranded
PROPERTIES
    ImplementsContract
    CloseReleases
    AcceptedIsTaken

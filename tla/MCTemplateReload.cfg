\* Two reloads may overlap.  The directory is changed MaxEdits times.
SPECIFICATION FairSpec
CONSTANTS
    Loader = {l1, l2}
    MaxEdits = 5
CHECK_DEADLOCK FALSE
INVARIANT ActiveIsUsable
PROPERTY LastChangeIsLoaded

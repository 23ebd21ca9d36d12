\* Two calls of Send for each channel; every environment with at most two
\* changes; servers that are willing and servers that may do anything.
SPECIFICATION FairSpec
CHECK_DEADLOCK FALSE
CONSTANTS
    Base <- EmailOnly
    Others <- Tried
    Attempts = 2
INVARIANTS
    TypeOK
    LoadIsExact
    EncryptedAsConfigured
    WillingServerDelivers
PROPERTIES
    EmailIsChannel
    PachcaIsChannel
    SendsReturn

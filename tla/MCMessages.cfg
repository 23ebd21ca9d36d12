\* Two alerts allowed: sequences of up to three alerts, every set of labels.
SPECIFICATION Spec
CONSTANTS
    Groups = {"k1"}
    MaxAlerts = 2
    Inputs <- AllInputs
    LabelOrder <- Labels
    Details <- SomeDetails
    Truncated = {0, 1}
CHECK_DEADLOCK FALSE
INVARIANTS
    ValidationIsExact
    LabelsShownOnce

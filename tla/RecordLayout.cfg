CONSTANTS
    Layouts <- FileLayouts
    MaxSteps = 2
SPECIFICATION Spec
INVARIANTS ReferenceFields QueueFields Fresh
CHECK_DEADLOCK FALSE

\* A pipeline attempt is cancelled while it resolves values.
SPECIFICATION Spec
CONSTANTS
    MaxAttempts = 1
    MaxDisconnects = 0
    Paths <- PipelinePath
PROPERTY
    CancelledResolutionDropped
CHECK_DEADLOCK FALSE

\* Two inits at the same time in a directory without a configuration.
SPECIFICATION Spec
CONSTANTS
    Processes = {p1, p2}
    UserIds = {mine}
    OneInit = FALSE
    MaxChanges = 0
PROPERTIES
    OverwritesOnlyByForce

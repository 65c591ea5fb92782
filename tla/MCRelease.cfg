SPECIFICATION Spec
CONSTANTS
    old = old
    new = new
    broken = broken
    Builds <- MCBuilds
    Unsound <- MCUnsound
    Embedded <- MCEmbedded
    MaxFaults = 3
PROPERTIES
    ServingUndisturbed
    RecordsAreTrue

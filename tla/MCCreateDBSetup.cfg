CONSTANTS
    MaxFaults = 2
SPECIFICATION Spec
INVARIANT
    RestartNeededOnlyWithEncryptSQL
PROPERTY
    RefinesAbstractCreateDB

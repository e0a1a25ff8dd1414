SPECIFICATION MCTaskSpec
CONSTANTS
    Simulation = TRUE
    SignatureBytes <- MCSignatureBytes
    FlagsBytes <- MCFlagsBytes
    Cooldown = 2
    RawIds <- MCRawIds
    Bytes <- MCBytes
    MaxLen = 0
PROPERTIES
    ClickServed
    CalibrationResumes
    CommandRepeats

SPECIFICATION MCSpec
CONSTANTS
    Simulation = FALSE
    SignatureBytes <- MCSignatureBytes
    FlagsBytes <- MCFlagsBytes
    Cooldown = 2
    RawIds <- MCRawIds
    Bytes <- MCBytes
    MaxLen = 0
PROPERTIES
    ClickQueued

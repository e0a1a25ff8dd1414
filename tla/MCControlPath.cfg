SPECIFICATION MCFairSpec
CONSTANTS
    Simulation = FALSE
    SignatureBytes <- MCSignatureBytes
    FlagsBytes <- MCFlagsBytes
    Cooldown = 2
    RawIds <- MCRawIds
    Bytes <- MCBytes
    MaxLen = 2
INVARIANTS
    ReceiverAccepts
    HeaderDistance
    AccumulatorBound
PROPERTIES
    ClickTaken
    FoldPreserves
    ClickServed
    CalibrationResumes
    CommandRepeats

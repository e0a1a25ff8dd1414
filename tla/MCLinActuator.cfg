SPECIFICATION Spec
CONSTANTS
    Simulation = FALSE
    SignatureBytes <- MCSignatureBytes
    FlagsBytes <- MCFlagsBytes
INVARIANTS
    TypeOK
    MotionConsistent
    LearnedMatchesState
    FrameMatchesState
PROPERTIES
    ImplementsControl

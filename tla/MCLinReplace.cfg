SPECIFICATION Spec
CONSTANTS
    Simulation = FALSE
    SignatureBytes <- MCSignatureBytes
    FlagsBytes <- MCFlagsBytes
PROPERTIES
    CloseReplacesOpen

\* caller passing a size other than arr.length of an array that fits
CONSTANTS
    IntBits = 2
    MaxInstances = 1
    MaxEthPayload = 2
    JavaLens <- MCFittingLens
    SizeArgs <- MCSizeArgs
    StrictCaller = FALSE
    UnknownHandles = FALSE

SPECIFICATION Spec

INVARIANT SentBytesFromCaller

\* every behaviour can go on calling the setters and getters

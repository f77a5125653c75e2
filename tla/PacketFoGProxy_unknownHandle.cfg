\* caller passing a handle getInstance never returned
CONSTANTS
    IntBits = 2
    MaxInstances = 1
    MaxEthPayload = 2
    JavaLens <- MCFittingLens
    SizeArgs <- MCSizeArgs
    StrictCaller = TRUE
    UnknownHandles = TRUE

SPECIFICATION Spec

INVARIANT NoUndefinedBehaviour

\* every behaviour can go on calling the setters and getters

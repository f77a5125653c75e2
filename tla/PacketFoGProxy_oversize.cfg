\* caller passing arr.length of an array longer than MAX_ETH_PAYLOAD_SIZE
CONSTANTS
    IntBits = 2
    MaxInstances = 1
    MaxEthPayload = 2
    JavaLens <- MCAllLens
    SizeArgs <- MCSizeArgs
    StrictCaller = TRUE
    UnknownHandles = FALSE

SPECIFICATION Spec

INVARIANT NoUndefinedBehaviour

\* every behaviour can go on calling the setters and getters

\* One Java thread calls getInstance while another loops on getFrame.
CONSTANTS
    c1 = c1
    g1 = g1
    Callers <- MCCallers
    Grabbers <- MCGrabbers
    IntBits = 2
    MaxInstances = 2

SPECIFICATION Spec

INVARIANT NoDataRace

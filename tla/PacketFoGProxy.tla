--------------------------- MODULE PacketFoGProxy ---------------------------
(***************************************************************************)
(* The JNI facade src/fog.emulator/src/jniImports/ProxyPacketFoG.C.        *)
(*                                                                         *)
(* A session is a PacketFogInstance {Sender, Receiver} of two PacketFoG   *)
(* objects kept in a static std::map; there is no call that removes one.  *)
(* The four byte-array setters copy pSize bytes of the Java array into a  *)
(* MAX_ETH_PAYLOAD_SIZE stack array with GetByteArrayRegion and pass that *)
(* array and pSize to the Sender.  GetByteArrayRegion throws (leaving the *)
(* exception pending and the stack array unwritten) when pSize is         *)
(* negative or beyond the Java array; the native code goes on regardless. *)
(*                                                                         *)
(* Byte contents are abstracted to where they came from: "caller" bytes,  *)
(* or "garbage" from an uninitialised stack array.  Sizes are scaled:     *)
(* MaxEthPayload stands for 1500.                                          *)
(***************************************************************************)
EXTENDS Integers

CONSTANTS
    IntBits,        \* width of the C int holding the counter (32 in the build)
    MaxInstances,   \* bound on getInstance calls
    MaxEthPayload,  \* MAX_ETH_PAYLOAD_SIZE, scaled
    JavaLens,       \* lengths of the Java byte[] passed to the setters
    SizeArgs,       \* values of the jint size argument
    StrictCaller,   \* the Java caller passes arr.length as the size
    UnknownHandles  \* the Java caller may pass a handle never returned

ASSUME IntBits \in Nat \ {0}
ASSUME MaxInstances \in Nat /\ MaxEthPayload \in Nat \ {0}
ASSUME JavaLens \subseteq Nat /\ SizeArgs \subseteq Int
ASSUME StrictCaller \in BOOLEAN /\ UnknownHandles \in BOOLEAN

VARIABLES
    sInstanceCount,     \* the static counter
    sPacketFogInstance, \* the static map: handle -> PacketFogInstance
    ub,                 \* undefined behaviours that have happened
    sent,               \* history: origins of the bytes of every packet sent
    handedOut,          \* history: handles returned to Java
    instances           \* number of getInstance calls so far

vars == <<sInstanceCount, sPacketFogInstance, ub, sent, handedOut, instances>>

IntMin == -(2 ^ (IntBits - 1))
IntMax == 2 ^ (IntBits - 1) - 1
HandleSpace == IntMin .. IntMax

\* two's complement wrap: what the build leaves in the counter after an
\* increment past INT_MAX; the overflow itself is undefined, recorded in ub
Wrap(x) == ((x - IntMin) % (2 ^ IntBits)) + IntMin

Ptr == {"live", "null"}
UBKinds == {"null_deref", "stack_overflow", "stack_overread",
            "signed_overflow"}

\* the byte fields a FoG packet is built from, one setter each
ByteFields == {"payload", "route", "reverseRoute", "auths"}
Bytes == {"none", "caller", "garbage"}

Deref(p) == IF p = "live" THEN {} ELSE {"null_deref"}

-----------------------------------------------------------------------------
\* faulty variant: the stack array one byte short
StackBufferSizeOffByOne == MaxEthPayload - 1

\* char tPayload[MAX_ETH_PAYLOAD_SIZE] (also tRoute, tAuths)
StackBufferSize == MaxEthPayload

\* a Sender with nothing set, as after Reset(true)
EmptySender == [payload |-> "none", route |-> "none", reverseRoute |-> "none",
                auths |-> "none", marking |-> {}]

\* std::map::operator[] on a missing key value-initialises the struct:
\* both pointers are NULL
DefaultInstance ==
    [Sender |-> "null", Receiver |-> "null", sender |-> EmptySender]

NewInstance ==
    [DefaultInstance EXCEPT !.Sender = "live", !.Receiver = "live"]

\* sPacketFogInstance[pHandle]: the entry, inserted if missing
Lookup(h) ==
    IF h \in DOMAIN sPacketFogInstance THEN sPacketFogInstance[h]
    ELSE DefaultInstance

\* the map after operator[] on h
Touched(h) == [k \in DOMAIN sPacketFogInstance \cup {h} |->
                 IF k = h THEN Lookup(h) ELSE sPacketFogInstance[k]]

-----------------------------------------------------------------------------
(* initPacketFogInstance / getInstance                                     *)

NextInstanceCount(c) == Wrap(c + 1)

\* sInstanceCount++ on INT_MAX overflows a signed int
Overflow(c) == IF c = IntMax THEN {"signed_overflow"} ELSE {}

initPacketFogInstance ==
    LET h == sInstanceCount IN
    /\ instances < MaxInstances
    /\ sInstanceCount' = NextInstanceCount(sInstanceCount)
    /\ sPacketFogInstance' = [Touched(h) EXCEPT ![h] = NewInstance]
    /\ ub' = ub \cup Overflow(sInstanceCount)
    /\ handedOut' = handedOut \cup {h}
    /\ instances' = instances + 1
    /\ UNCHANGED sent

getInstance == initPacketFogInstance

-----------------------------------------------------------------------------
(* The handle a call may carry: one the caller got, or any int.            *)
Callable(h) == h \in handedOut \/ UnknownHandles

\* (array length, size) pairs the caller passes to a byte-array setter
SetterArgs ==
    IF StrictCaller THEN {<<n, n>> : n \in JavaLens}
    ELSE JavaLens \X SizeArgs

\* GetByteArrayRegion(arr, 0, size, buf) copies when 0 <= size <= len;
\* otherwise it throws and leaves buf unwritten
RegionCopied(len, size) == 0 <= size /\ size <= len

\* DoSetFoGPayload, DoSetFoGRoute, DoSetFoGReverseRoute,
\* DoSetFoGAuthentications: copy into the stack array, forward it
SetBytes(h, field, len, size) ==
    LET e == Lookup(h)
        copied == RegionCopied(len, size)
    IN
    /\ Callable(h)
    /\ ub' = ub \cup Deref(e.Sender)
                \cup (IF copied /\ size > StackBufferSize
                      THEN {"stack_overflow"} ELSE {})
                \cup (IF ~copied /\ size > StackBufferSize
                      THEN {"stack_overread"} ELSE {})
    /\ sPacketFogInstance' =
          [Touched(h) EXCEPT ![h].sender[field] =
                                IF copied THEN "caller" ELSE "garbage"]
    /\ UNCHANGED <<sInstanceCount, sent, handedOut, instances>>

\* the two stateless marking toggles of the Sender
Marking == {"signaling", "fragment"}

SetMarking(h, m) ==
    /\ Callable(h)
    /\ ub' = ub \cup Deref(Lookup(h).Sender)
    /\ sPacketFogInstance' = [Touched(h) EXCEPT ![h].sender.marking = @ \cup {m}]
    /\ UNCHANGED <<sInstanceCount, sent, handedOut, instances>>

DoReset(h) ==
    /\ Callable(h)
    /\ ub' = ub \cup Deref(Lookup(h).Sender)
    /\ sPacketFogInstance' = [Touched(h) EXCEPT ![h].sender = EmptySender]
    /\ UNCHANGED <<sInstanceCount, sent, handedOut, instances>>

\* DoSetEthernetSourceAdr, DoSetEthernetDestinationAdr; the address
\* strings are not modelled
SetAddress(h) ==
    /\ Callable(h)
    /\ ub' = ub \cup Deref(Lookup(h).Sender)
    /\ sPacketFogInstance' = Touched(h)
    /\ UNCHANGED <<sInstanceCount, sent, handedOut, instances>>

DoSend(h) ==
    LET e == Lookup(h) IN
    /\ Callable(h)
    /\ ub' = ub \cup Deref(e.Sender)
    /\ sent' = sent \cup {e.sender[f] : f \in ByteFields}
    /\ sPacketFogInstance' = Touched(h)
    /\ UNCHANGED <<sInstanceCount, handedOut, instances>>

-----------------------------------------------------------------------------
(* Receiver side.                                                          *)

\* DoGetDefaultDevice, DoSetReceiveDevice, DoGetReceiveDevice go to the
\* Receiver, DoSetSendDevice and DoGetSendDevice to the Sender
DeviceCall(h, side) ==
    /\ Callable(h)
    /\ ub' = ub \cup Deref(Lookup(h)[side])
    /\ sPacketFogInstance' = Touched(h)
    /\ UNCHANGED <<sInstanceCount, sent, handedOut, instances>>

\* DoPrepareReceive and DoReceive; what the Receiver reports (armed or not,
\* a packet or not) reaches no state of the facade
DoPrepareReceive(h) ==
    /\ Callable(h)
    /\ ub' = ub \cup Deref(Lookup(h).Receiver)
    /\ sPacketFogInstance' = Touched(h)
    /\ UNCHANGED <<sInstanceCount, sent, handedOut, instances>>

DoReceive(h) ==
    /\ Callable(h)
    /\ ub' = ub \cup Deref(Lookup(h).Receiver)
    /\ sPacketFogInstance' = Touched(h)
    /\ UNCHANGED <<sInstanceCount, sent, handedOut, instances>>

\* DoGetFoGPayload, DoGetEthernetSourceAdr, DoGetEthernetDestinationAdr,
\* DoIsLastFragment: the library fills at most the size it is given
ReceiverGetter(h) ==
    /\ Callable(h)
    /\ ub' = ub \cup Deref(Lookup(h).Receiver)
    /\ sPacketFogInstance' = Touched(h)
    /\ UNCHANGED <<sInstanceCount, sent, handedOut, instances>>

-----------------------------------------------------------------------------
Init ==
    /\ sInstanceCount = 0
    /\ sPacketFogInstance = [k \in {} |-> NewInstance]
    /\ ub = {}
    /\ sent = {}
    /\ handedOut = {}
    /\ instances = 0

Next ==
    \/ getInstance
    \/ \E h \in HandleSpace :
          \/ \E f \in ByteFields, a \in SetterArgs : SetBytes(h, f, a[1], a[2])
          \/ \E m \in Marking : SetMarking(h, m)
          \/ DoReset(h) \/ SetAddress(h) \/ DoSend(h)
          \/ \E side \in {"Sender", "Receiver"} : DeviceCall(h, side)
          \/ DoPrepareReceive(h) \/ DoReceive(h)
          \/ ReceiverGetter(h)

Spec == Init /\ [][Next]_vars

-----------------------------------------------------------------------------
TypeOK ==
    /\ sInstanceCount \in HandleSpace
    /\ DOMAIN sPacketFogInstance \subseteq HandleSpace
    /\ \A k \in DOMAIN sPacketFogInstance :
          LET e == sPacketFogInstance[k] IN
          /\ e.Sender \in Ptr /\ e.Receiver \in Ptr
          /\ \A f \in ByteFields : e.sender[f] \in Bytes
          /\ e.sender.marking \subseteq Marking
    /\ ub \subseteq UBKinds
    /\ sent \subseteq Bytes
    /\ handedOut \subseteq HandleSpace

\* No call dereferences a NULL Sender or Receiver, writes past the stack
\* array of a byte-array setter, or makes the Sender read past it.
NoUndefinedBehaviour == ub = {}

\* Every packet handed to Send is built only from bytes the Java caller
\* supplied, never from an uninitialised stack array.
SentBytesFromCaller == "garbage" \notin sent
=============================================================================

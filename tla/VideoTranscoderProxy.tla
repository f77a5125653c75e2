------------------------ MODULE VideoTranscoderProxy ------------------------
(***************************************************************************)
(* The JNI facade src/fog.video/src/jniImports/VideoTranscoderProxy.C.    *)
(*                                                                         *)
(* A session is a Transcoder {muxer, source, storage, frameBuffer,        *)
(* packetBuffer}: the muxer holds the source it was built on and, while   *)
(* registered, the storage sink it feeds.  Three Java threads use a       *)
(* session: the control thread, a grabber looping on getFrame (muxer      *)
(* GrabChunk) and a reader looping on getOutputPacket (storage            *)
(* ReadFragment).  stop and close first stop both loops; close then       *)
(* unregisters the sink (which deletes it), deletes muxer and source and  *)
(* frees the buffers, in that order.                                      *)
(*                                                                         *)
(* Pointers are "live", "freed" or "null"; the library objects are        *)
(* abstracted to opened / stopped flags and queue lengths.                *)
(***************************************************************************)
EXTENDS Integers, Sequences

CONSTANTS
    IntBits,        \* width of the C int holding the counter (32 in the build)
    MaxInstances,   \* bound on getInstance calls
    MaxFragments,   \* bound on input fragments queued in the source
    MaxPackets,     \* bound on muxed packets queued in the storage sink
    StatsLens,      \* lengths of the Java int[] passed to getStats
    MallocMayFail,  \* whether the two mallocs may return NULL
    JoinThreadsBeforeClose  \* the caller joins grabber and reader before close

ASSUME IntBits \in Nat \ {0}
ASSUME {MaxInstances, MaxFragments, MaxPackets} \subseteq Nat
ASSUME StatsLens \subseteq Nat
ASSUME MallocMayFail \in BOOLEAN /\ JoinThreadsBeforeClose \in BOOLEAN

VARIABLES
    sInstanceCount,  \* the static counter
    sTranscoder,     \* the static map: handle -> Transcoder
    grabber,         \* pc of each session's getFrame thread
    reader,          \* pc of each session's getOutputPacket thread
    ctl,             \* pc of the control thread inside close
    javaStats,       \* the int[] last filled by getStats
    ub,              \* undefined behaviours that have happened
    leaked,          \* native allocations never freed
    stopRequested,   \* history: sessions on which stop or close was called
    handedOut,       \* history: handles returned to Java
    instances        \* number of getInstance calls so far

vars == <<sInstanceCount, sTranscoder, grabber, reader, ctl, javaStats, ub,
          leaked, stopRequested, handedOut, instances>>

IntMin == -(2 ^ (IntBits - 1))
IntMax == 2 ^ (IntBits - 1) - 1
HandleSpace == IntMin .. IntMax

\* two's complement wrap: what the build leaves in the counter after an
\* increment past INT_MAX; the overflow itself is undefined, recorded in ub
Wrap(x) == ((x - IntMin) % (2 ^ IntBits)) + IntMin

Ptr == {"live", "freed", "null"}
UBKinds == {"use_after_free", "double_free", "null_deref", "array_overflow",
            "signed_overflow"}
StatSlot == {"unset", "value", "garbage"}

Deref(p) ==
    IF p = "live" THEN {}
    ELSE IF p = "freed" THEN {"use_after_free"} ELSE {"null_deref"}

Release(p) == IF p = "freed" THEN {"double_free"} ELSE {}

\* free() of a buffer: NULL stays NULL
Freed(p) == IF p = "null" THEN "null" ELSE "freed"

-----------------------------------------------------------------------------
(* initTranscoderInstance / getInstance                                    *)

NextInstanceCount(c) == Wrap(c + 1)

\* sInstanceCount++ on INT_MAX overflows a signed int
Overflow(c) == IF c = IntMax THEN {"signed_overflow"} ELSE {}

NewTranscoder(frameBuf, packetBuf) ==
    [muxer |-> "live", source |-> "live", storage |-> "live",
     registered |-> TRUE, frameBuffer |-> frameBuf, packetBuffer |-> packetBuf,
     opened |-> FALSE, grabStopped |-> FALSE, procStopped |-> FALSE,
     fragments |-> 0, packets |-> 0]

\* a failed malloc is only reported by printf; the NULL is kept
MallocResults == IF MallocMayFail THEN {"live", "null"} ELSE {"live"}

initTranscoderInstance ==
    LET h == sInstanceCount IN
    /\ instances < MaxInstances
    /\ sInstanceCount' = NextInstanceCount(sInstanceCount)
    /\ \E fb, pb \in MallocResults :
          sTranscoder' = [k \in DOMAIN sTranscoder \cup {h} |->
                            IF k = h THEN NewTranscoder(fb, pb)
                            ELSE sTranscoder[k]]
    /\ leaked' = IF h \in DOMAIN sTranscoder
                    /\ sTranscoder[h].muxer = "live"
                 THEN leaked \cup {"Transcoder"} ELSE leaked
    /\ ub' = ub \cup Overflow(sInstanceCount)
    /\ stopRequested' = stopRequested \ {h}
    /\ handedOut' = handedOut \cup {h}
    /\ instances' = instances + 1
    /\ UNCHANGED <<grabber, reader, ctl, javaStats>>

getInstance == initTranscoderInstance

-----------------------------------------------------------------------------
(* Control-thread calls.                                                   *)

Usable(h) ==
    /\ h \in handedOut
    /\ sTranscoder[h].muxer = "live"
    /\ ctl.pc = 0

\* SetInputStreamPreferences, SetOutputStreamPreferences and the muxer's
\* OpenVideoGrabDevice, which opens the source; both codec strings leak
open(h) ==
    LET e == sTranscoder[h] IN
    /\ Usable(h)
    /\ ~e.opened
    /\ ub' = ub \cup Deref(e.source) \cup Deref(e.muxer)
    /\ sTranscoder' = [sTranscoder EXCEPT ![h].opened = TRUE,
                                          ![h].grabStopped = FALSE]
    /\ leaked' = leaked \cup {"GetStringUTFChars"}
    /\ UNCHANGED <<sInstanceCount, grabber, reader, ctl, javaStats,
                   stopRequested, handedOut, instances>>

addDataInput(h) ==
    /\ Usable(h)
    /\ sTranscoder[h].opened
    /\ sTranscoder[h].fragments < MaxFragments
    /\ ub' = ub \cup Deref(sTranscoder[h].source)
    /\ sTranscoder' = [sTranscoder EXCEPT ![h].fragments = @ + 1]
    /\ UNCHANGED <<sInstanceCount, grabber, reader, ctl, javaStats, leaked,
                   stopRequested, handedOut, instances>>

\* faulty variant: stop that only stops the muxer's grabbing
stopGrabbingOnly(h) ==
    /\ Usable(h)
    /\ sTranscoder[h].opened
    /\ ub' = ub \cup Deref(sTranscoder[h].muxer)
    /\ sTranscoder' = [sTranscoder EXCEPT ![h].grabStopped = TRUE]
    /\ stopRequested' = stopRequested \cup {h}
    /\ UNCHANGED <<sInstanceCount, grabber, reader, ctl, javaStats, leaked,
                   handedOut, instances>>

stop(h) ==
    /\ Usable(h)
    /\ sTranscoder[h].opened
    /\ ub' = ub \cup Deref(sTranscoder[h].muxer)
                \cup Deref(sTranscoder[h].storage)
    /\ sTranscoder' = [sTranscoder EXCEPT ![h].grabStopped = TRUE,
                                          ![h].procStopped = TRUE]
    /\ stopRequested' = stopRequested \cup {h}
    /\ UNCHANGED <<sInstanceCount, grabber, reader, ctl, javaStats, leaked,
                   handedOut, instances>>

\* aStats[5] is never assigned
AStats == [i \in 0 .. 6 |-> IF i = 5 THEN "garbage" ELSE "value"]

\* faulty variant: a loop bound of 7 that ignores the Java array's length
StatsCopiedIgnoringLen(len) == 0 .. 6

\* for (i = 0; i < min(len, 7); i++)
StatsCopied(len) == 0 .. ((IF len < 7 THEN len ELSE 7) - 1)

\* the int[] after the copy loop, including any slot written past its end
StatsWritten(len) ==
    [i \in (0 .. len - 1) \cup StatsCopied(len) |->
        IF i \in StatsCopied(len) THEN AStats[i] ELSE "unset"]

getStats(h) ==
    /\ Usable(h)
    /\ sTranscoder[h].opened
    \* aStats = malloc(4 * 7), unchecked, written through and never freed
    /\ \E len \in StatsLens, aStats \in MallocResults :
          /\ javaStats' = StatsWritten(len)
          /\ ub' = ub \cup Deref(aStats) \cup Deref(sTranscoder[h].source)
                      \cup (IF StatsCopied(len) \subseteq 0 .. len - 1
                            THEN {} ELSE {"array_overflow"})
          /\ leaked' = IF aStats = "live" THEN leaked \cup {"aStats"}
                       ELSE leaked
    /\ UNCHANGED <<sInstanceCount, sTranscoder, grabber, reader, ctl,
                   stopRequested, handedOut, instances>>

-----------------------------------------------------------------------------
(* close, one statement per step; the storage is deleted inside           *)
(* UnregisterMediaSink (the HINT comment in the code).                     *)

\* faulty variants: the source deleted before the muxer built on it; the
\* sink unregistered (and so deleted) before it stops processing
CloseOrderSourceFirst ==
    <<"stopGrabbing", "stopProcessing", "unregister", "deleteSource",
      "deleteMuxer", "freeBuffers">>
CloseOrderUnregisterFirst ==
    <<"stopGrabbing", "unregister", "stopProcessing", "deleteMuxer",
      "deleteSource", "freeBuffers">>

CloseOrder ==
    <<"stopGrabbing", "stopProcessing", "unregister", "deleteMuxer",
      "deleteSource", "freeBuffers">>

\* what one step of close does to the session, and the UB it commits
CloseEffect(step, e) ==
    CASE step = "stopGrabbing"   -> [e EXCEPT !.grabStopped = TRUE]
      [] step = "stopProcessing" -> [e EXCEPT !.procStopped = TRUE]
      [] step = "unregister"     -> [e EXCEPT !.registered = FALSE,
                                              !.storage = "freed"]
      [] step = "deleteMuxer"    -> [e EXCEPT !.muxer = "freed"]
      [] step = "deleteSource"   -> [e EXCEPT !.source = "freed"]
      [] step = "freeBuffers"    -> [e EXCEPT !.frameBuffer = Freed(@),
                                              !.packetBuffer = Freed(@)]

CloseUB(step, e) ==
    CASE step = "stopGrabbing"   -> Deref(e.muxer)
      [] step = "stopProcessing" -> Deref(e.storage)
      [] step = "unregister"     -> Deref(e.muxer) \cup Release(e.storage)
      [] step = "deleteMuxer"    -> Release(e.muxer)
      [] step = "deleteSource"   -> Release(e.source)
      [] step = "freeBuffers"    -> Release(e.frameBuffer)
                                      \cup Release(e.packetBuffer)

closeBegin(h) ==
    /\ Usable(h)
    /\ JoinThreadsBeforeClose => grabber[h] = "idle" /\ reader[h] = "idle"
    /\ ctl' = [pc |-> 1, h |-> h]
    /\ stopRequested' = stopRequested \cup {h}
    /\ UNCHANGED <<sInstanceCount, sTranscoder, grabber, reader, javaStats,
                   ub, leaked, handedOut, instances>>

closeStep ==
    LET h == ctl.h
        step == CloseOrder[ctl.pc]
    IN
    /\ ctl.pc \in 1 .. Len(CloseOrder)
    /\ ub' = ub \cup CloseUB(step, sTranscoder[h])
    /\ sTranscoder' = [sTranscoder EXCEPT ![h] = CloseEffect(step, @)]
    /\ ctl' = [ctl EXCEPT !.pc = IF @ = Len(CloseOrder) THEN 0 ELSE @ + 1]
    /\ UNCHANGED <<sInstanceCount, grabber, reader, javaStats, leaked,
                   stopRequested, handedOut, instances>>

-----------------------------------------------------------------------------
(* getFrame: the muxer grabs a fragment from the source, decodes it into  *)
(* frameBuffer and hands the re-encoded packet to the registered sink.    *)

Closing(h) == ctl.pc # 0 /\ ctl.h = h

getFrameEnter(h) ==
    /\ h \in handedOut
    /\ grabber[h] = "idle"
    /\ sTranscoder[h].muxer = "live" /\ sTranscoder[h].opened
    /\ ~Closing(h)
    /\ ub' = ub \cup Deref(sTranscoder[h].muxer)
    /\ grabber' = [grabber EXCEPT ![h] = "grab"]
    /\ UNCHANGED <<sInstanceCount, sTranscoder, reader, ctl, javaStats,
                   leaked, stopRequested, handedOut, instances>>

getFrameGrabReturn(h) ==
    LET e == sTranscoder[h]
        idle == e.grabStopped \/ e.fragments = 0
    IN
    /\ grabber[h] = "grab"
    /\ e.grabStopped \/ e.fragments > 0 \/ e.muxer # "live"
    /\ \E gotFrame \in (IF idle THEN {FALSE} ELSE {TRUE, FALSE}) :
          /\ grabber' = [grabber EXCEPT ![h] = IF gotFrame THEN "copy"
                                                ELSE "idle"]
          /\ sTranscoder' =
                IF idle THEN sTranscoder
                ELSE [sTranscoder EXCEPT
                        ![h].fragments = @ - 1,
                        ![h].packets = IF gotFrame /\ e.registered
                                       THEN (IF @ < MaxPackets THEN @ + 1
                                             ELSE @)
                                       ELSE @]
          /\ ub' = ub \cup Deref(e.muxer) \cup Deref(e.source)
                      \cup (IF gotFrame
                            THEN Deref(e.frameBuffer) \cup
                                 (IF e.registered THEN Deref(e.storage)
                                  ELSE {})
                            ELSE {})
    /\ UNCHANGED <<sInstanceCount, reader, ctl, javaStats, leaked,
                   stopRequested, handedOut, instances>>

getFrameCopy(h) ==
    /\ grabber[h] = "copy"
    /\ ub' = ub \cup Deref(sTranscoder[h].frameBuffer)
    /\ grabber' = [grabber EXCEPT ![h] = "idle"]
    /\ UNCHANGED <<sInstanceCount, sTranscoder, reader, ctl, javaStats,
                   leaked, stopRequested, handedOut, instances>>

(* getOutputPacket: ReadFragment blocks until a packet is queued or the   *)
(* sink stops processing, then reports a size (0 when stopped); the size  *)
(* bytes of packetBuffer are copied into a new Java array.                 *)

getOutputPacketEnter(h) ==
    /\ h \in handedOut
    /\ reader[h] = "idle"
    /\ sTranscoder[h].muxer = "live" /\ sTranscoder[h].opened
    /\ ~Closing(h)
    /\ ub' = ub \cup Deref(sTranscoder[h].storage)
    /\ reader' = [reader EXCEPT ![h] = "read"]
    /\ UNCHANGED <<sInstanceCount, sTranscoder, grabber, ctl, javaStats,
                   leaked, stopRequested, handedOut, instances>>

getOutputPacketReadReturn(h) ==
    LET e == sTranscoder[h] IN
    /\ reader[h] = "read"
    /\ e.procStopped \/ e.packets > 0 \/ e.storage # "live"
    /\ IF e.packets > 0 /\ e.storage = "live"
       THEN /\ reader' = [reader EXCEPT ![h] = "copy"]
            /\ sTranscoder' = [sTranscoder EXCEPT ![h].packets = @ - 1]
            /\ ub' = ub \cup Deref(e.packetBuffer)
       \* a zero size: an empty array is returned, nothing is read
       ELSE /\ reader' = [reader EXCEPT ![h] = "idle"]
            /\ sTranscoder' = sTranscoder
            /\ ub' = ub \cup Deref(e.storage)
    /\ UNCHANGED <<sInstanceCount, grabber, ctl, javaStats, leaked,
                   stopRequested, handedOut, instances>>

getOutputPacketCopy(h) ==
    /\ reader[h] = "copy"
    /\ ub' = ub \cup Deref(sTranscoder[h].packetBuffer)
    /\ reader' = [reader EXCEPT ![h] = "idle"]
    /\ UNCHANGED <<sInstanceCount, sTranscoder, grabber, ctl, javaStats,
                   leaked, stopRequested, handedOut, instances>>

-----------------------------------------------------------------------------
Init ==
    /\ sInstanceCount = 0
    /\ sTranscoder = [k \in {} |-> NewTranscoder("live", "live")]
    /\ grabber = [k \in HandleSpace |-> "idle"]
    /\ reader = [k \in HandleSpace |-> "idle"]
    /\ ctl = [pc |-> 0, h |-> 0]
    /\ javaStats = <<>>
    /\ ub = {}
    /\ leaked = {}
    /\ stopRequested = {}
    /\ handedOut = {}
    /\ instances = 0

Next ==
    \/ ctl.pc = 0 /\ getInstance
    \/ \E h \in HandleSpace :
          \/ open(h) \/ addDataInput(h) \/ stop(h) \/ getStats(h)
          \/ closeBegin(h)
          \/ getFrameEnter(h) \/ getFrameGrabReturn(h) \/ getFrameCopy(h)
          \/ getOutputPacketEnter(h) \/ getOutputPacketReadReturn(h)
          \/ getOutputPacketCopy(h)
    \/ closeStep

\* a runnable thread is scheduled: the grabber, the reader and the control
\* thread inside close are weakly fair; the caller's calls are not
Fairness ==
    /\ \A h \in HandleSpace :
          /\ WF_vars(getFrameGrabReturn(h)) /\ WF_vars(getFrameCopy(h))
          /\ WF_vars(getOutputPacketReadReturn(h))
          /\ WF_vars(getOutputPacketCopy(h))
    /\ WF_vars(closeStep)

Spec == Init /\ [][Next]_vars /\ Fairness

-----------------------------------------------------------------------------
TypeOK ==
    /\ sInstanceCount \in HandleSpace
    /\ DOMAIN sTranscoder \subseteq HandleSpace
    /\ \A k \in DOMAIN sTranscoder :
          sTranscoder[k] \in
            [muxer : Ptr, source : Ptr, storage : Ptr, registered : BOOLEAN,
             frameBuffer : Ptr, packetBuffer : Ptr, opened : BOOLEAN,
             grabStopped : BOOLEAN, procStopped : BOOLEAN,
             fragments : 0 .. MaxFragments, packets : 0 .. MaxPackets]
    /\ grabber \in [HandleSpace -> {"idle", "grab", "copy"}]
    /\ reader \in [HandleSpace -> {"idle", "read", "copy"}]
    /\ ctl \in [pc : 0 .. Len(CloseOrder), h : HandleSpace]
    /\ DOMAIN javaStats \in {0 .. n - 1 : n \in StatsLens \cup {0}}
    /\ javaStats \in [DOMAIN javaStats -> StatSlot]
    /\ ub \subseteq UBKinds
    /\ stopRequested \subseteq HandleSpace
    /\ handedOut \subseteq HandleSpace

\* No proxy call uses a deleted or NULL object or buffer, deletes one twice,
\* or writes past the Java array.
NoUndefinedBehaviour == ub = {}

\* At every point of close, a live muxer still has a live source, and a
\* live storage while that storage is registered with it: objects are
\* deleted only after every object that refers to them.
NoDanglingReference ==
    \A k \in DOMAIN sTranscoder :
        LET e == sTranscoder[k] IN
        e.muxer = "live" =>
            /\ e.source = "live"
            /\ e.registered => e.storage = "live"

\* Every getFrame and getOutputPacket running when stop or close is called
\* on its session returns.
StopReleasesThreads ==
    \A h \in HandleSpace :
        /\ (h \in stopRequested /\ grabber[h] # "idle") ~> grabber[h] = "idle"
        /\ (h \in stopRequested /\ reader[h] # "idle") ~> reader[h] = "idle"
=============================================================================

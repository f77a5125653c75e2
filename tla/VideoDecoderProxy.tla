------------------------- MODULE VideoDecoderProxy -------------------------
(***************************************************************************)
(* The JNI facade src/fog.video/src/jniImports/VideoDecoderProxy.C.       *)
(*                                                                         *)
(* The proxy keeps a static handle counter and a std::map from handle to  *)
(* a Decoder {source, frameBuffer}.  Two Java threads call it: a control  *)
(* thread (getInstance, open, addDataInput, stop, close, getStats) and,   *)
(* per session, a grabber thread looping on getFrame.  The comment on     *)
(* stop ("the grab loop in start will be broken here") and the            *)
(* StopGrabbing call at the head of close show that both are meant to be  *)
(* called while the grabber is blocked inside GrabChunk.                  *)
(*                                                                         *)
(* Pointers are abstracted to "live", "freed" or "null"; the              *)
(* MediaSourceMem is abstracted to opened / stopped / queued fragments.   *)
(* An access through a freed or null pointer, a second delete, or a write *)
(* past the Java array is recorded in ub instead of stopping the model.   *)
(***************************************************************************)
EXTENDS Integers, FiniteSets

CONSTANTS
    IntBits,        \* width of the C int holding the counter (32 in the build)
    MaxInstances,   \* bound on getInstance calls
    MaxFragments,   \* bound on fragments queued in the source
    StatsLens,      \* lengths of the Java int[] passed to getStats
    MallocMayFail,  \* whether malloc(MAX_FRAME_SIZE) may return NULL
    JoinGrabberBeforeClose, \* the Java caller joins the grabber before close
    ReuseClosedHandles      \* the Java caller may call again after close

ASSUME IntBits \in Nat \ {0, 1}
ASSUME MaxInstances \in Nat /\ MaxFragments \in Nat
ASSUME StatsLens \subseteq Nat
ASSUME MallocMayFail \in BOOLEAN /\ JoinGrabberBeforeClose \in BOOLEAN
ASSUME ReuseClosedHandles \in BOOLEAN

VARIABLES
    sDecoderInstanceCount, \* the static counter
    sDecoder,              \* the static map: handle -> Decoder
    grabber,               \* pc of each session's grabber thread in getFrame
    ctl,                   \* pc of the control thread inside close
    javaStats,             \* the int[] last filled by getStats
    ub,                    \* undefined behaviours that have happened
    leaked,                \* native allocations never freed
    handedOut,             \* history: handles returned to Java
    instances              \* number of getInstance calls so far

vars == <<sDecoderInstanceCount, sDecoder, grabber, ctl, javaStats, ub,
          leaked, handedOut, instances>>

IntMin == -(2 ^ (IntBits - 1))
IntMax == 2 ^ (IntBits - 1) - 1
HandleSpace == IntMin .. IntMax

\* two's complement wrap of a C int: the value an increment past IntMax
\* leaves in the counter when the build emits a plain add (gcc without
\* -ftrapv); the overflow itself is undefined and is recorded in ub
Wrap(x) == ((x - IntMin) % (2 ^ IntBits)) + IntMin

Ptr == {"live", "freed", "null"}
UBKinds == {"use_after_free", "double_free", "null_deref", "array_overflow",
            "signed_overflow"}
StatSlot == {"unset", "value", "garbage"}

\* calling through a pointer: UB unless it points to a live object
Deref(p) ==
    IF p = "live" THEN {}
    ELSE IF p = "freed" THEN {"use_after_free"} ELSE {"null_deref"}

\* delete / free of a pointer
Release(p) == IF p = "freed" THEN {"double_free"} ELSE {}

-----------------------------------------------------------------------------
(* initDecoderInstance / getInstance                                       *)

NextInstanceCount(c) == Wrap(c + 1)

\* sDecoderInstanceCount++ on INT_MAX overflows a signed int
Overflow(c) == IF c = IntMax THEN {"signed_overflow"} ELSE {}

NewDecoder(buf) ==
    [source |-> "live", frameBuffer |-> buf,
     opened |-> FALSE, stopped |-> FALSE, fragments |-> 0]

MallocResults == IF MallocMayFail THEN {"live", "null"} ELSE {"live"}

initDecoderInstance ==
    LET h == sDecoderInstanceCount IN
    /\ instances < MaxInstances
    /\ sDecoderInstanceCount' = NextInstanceCount(sDecoderInstanceCount)
    /\ \E buf \in MallocResults :
          sDecoder' = [k \in DOMAIN sDecoder \cup {h} |->
                         IF k = h THEN NewDecoder(buf) ELSE sDecoder[k]]
    \* an entry overwritten on reuse loses its objects
    /\ leaked' = IF h \in DOMAIN sDecoder /\ sDecoder[h].source = "live"
                 THEN leaked \cup {"Decoder"} ELSE leaked
    /\ ub' = ub \cup Overflow(sDecoderInstanceCount)
    /\ handedOut' = handedOut \cup {h}
    /\ instances' = instances + 1
    /\ UNCHANGED <<grabber, ctl, javaStats>>

getInstance == initDecoderInstance

-----------------------------------------------------------------------------
(* Control-thread calls on a session the caller holds.                     *)

\* the Java caller only passes handles it got and, unless it reuses closed
\* ones, has not closed: nothing in the proxy checks either
Usable(h) ==
    /\ h \in handedOut
    /\ sDecoder[h].source = "live" \/ ReuseClosedHandles
    /\ ctl.pc = "idle"

open(h) ==
    /\ Usable(h)
    /\ ~sDecoder[h].opened
    /\ ub' = ub \cup Deref(sDecoder[h].source)
    /\ sDecoder' = [sDecoder EXCEPT ![h].opened = TRUE, ![h].stopped = FALSE]
    \* GetStringUTFChars(codec) is never released
    /\ leaked' = leaked \cup {"GetStringUTFChars"}
    /\ UNCHANGED <<sDecoderInstanceCount, grabber, ctl, javaStats,
                   handedOut, instances>>

addDataInput(h) ==
    /\ Usable(h)
    /\ sDecoder[h].opened
    /\ sDecoder[h].fragments < MaxFragments
    /\ ub' = ub \cup Deref(sDecoder[h].source)
    /\ sDecoder' = [sDecoder EXCEPT ![h].fragments = @ + 1]
    /\ UNCHANGED <<sDecoderInstanceCount, grabber, ctl, javaStats, leaked,
                   handedOut, instances>>

stop(h) ==
    /\ Usable(h)
    /\ sDecoder[h].opened
    /\ ub' = ub \cup Deref(sDecoder[h].source)
    /\ sDecoder' = [sDecoder EXCEPT ![h].stopped = TRUE]
    /\ UNCHANGED <<sDecoderInstanceCount, grabber, ctl, javaStats, leaked,
                   handedOut, instances>>

\* aStats[0..6] from malloc: slot 5 is never written
AStats == [i \in 0 .. 6 |-> IF i = 5 THEN "garbage" ELSE "value"]

\* faulty variant: a loop bound of 7 that ignores the Java array's length
StatsCopiedIgnoringLen(len) == 0 .. 6

\* the slots the copy loop writes: for (i = 0; i < min(len, 7); i++)
StatsCopied(len) == 0 .. ((IF len < 7 THEN len ELSE 7) - 1)

\* the int[] after the copy loop: the slots Java allocated and any slot the
\* loop wrote past them
StatsWritten(len) ==
    [i \in (0 .. len - 1) \cup StatsCopied(len) |->
        IF i \in StatsCopied(len) THEN AStats[i] ELSE "unset"]

getStats(h) ==
    /\ Usable(h)
    /\ sDecoder[h].opened
    \* aStats = malloc(4 * 7), unchecked, written through and never freed
    /\ \E len \in StatsLens, aStats \in MallocResults :
          /\ javaStats' = StatsWritten(len)
          /\ ub' = ub \cup Deref(aStats) \cup Deref(sDecoder[h].source)
                      \cup (IF StatsCopied(len) \subseteq 0 .. len - 1
                            THEN {} ELSE {"array_overflow"})
          /\ leaked' = IF aStats = "live" THEN leaked \cup {"aStats"}
                       ELSE leaked
    /\ UNCHANGED <<sDecoderInstanceCount, sDecoder, grabber, ctl,
                   handedOut, instances>>

(* close: StopGrabbing, delete source, free frameBuffer; the grabber may   *)
(* run between these steps.  The map entry itself is never erased.         *)
closeStop(h) ==
    /\ Usable(h)
    /\ JoinGrabberBeforeClose => grabber[h] = "idle"
    /\ ub' = ub \cup Deref(sDecoder[h].source)
    /\ sDecoder' = [sDecoder EXCEPT ![h].stopped = TRUE]
    /\ ctl' = [pc |-> "deleteSource", h |-> h]
    /\ UNCHANGED <<sDecoderInstanceCount, grabber, javaStats, leaked,
                   handedOut, instances>>

closeDeleteSource ==
    LET h == ctl.h IN
    /\ ctl.pc = "deleteSource"
    /\ ub' = ub \cup Release(sDecoder[h].source)
    /\ sDecoder' = [sDecoder EXCEPT ![h].source = "freed"]
    /\ ctl' = [ctl EXCEPT !.pc = "freeBuffer"]
    /\ UNCHANGED <<sDecoderInstanceCount, grabber, javaStats, leaked,
                   handedOut, instances>>

closeFreeBuffer ==
    LET h == ctl.h IN
    /\ ctl.pc = "freeBuffer"
    /\ ub' = ub \cup Release(sDecoder[h].frameBuffer)
    /\ sDecoder' = [sDecoder EXCEPT ![h].frameBuffer =
                      IF @ = "null" THEN "null" ELSE "freed"]
    /\ ctl' = [ctl EXCEPT !.pc = "idle"]
    /\ UNCHANGED <<sDecoderInstanceCount, grabber, javaStats, leaked,
                   handedOut, instances>>

-----------------------------------------------------------------------------
(* getFrame on the grabber thread: enter GrabChunk, return from it, copy  *)
(* the frame buffer into a new Java array.                                 *)

getFrameEnter(h) ==
    /\ h \in handedOut
    /\ grabber[h] = "idle"
    /\ sDecoder[h].source = "live"
    /\ sDecoder[h].opened
    /\ ~(ctl.pc # "idle" /\ ctl.h = h)
    /\ ub' = ub \cup Deref(sDecoder[h].source)
    /\ grabber' = [grabber EXCEPT ![h] = "grab"]
    /\ UNCHANGED <<sDecoderInstanceCount, sDecoder, ctl, javaStats, leaked,
                   handedOut, instances>>

\* faulty variant: retry GrabChunk instead of returning NULL
AfterGrabRetry(gotFrame) == IF gotFrame THEN "copy" ELSE "grab"

\* where getFrame goes after GrabChunk: a frame is copied out, anything
\* else (GrabChunk(...) <= 0) returns NULL at once
AfterGrab(gotFrame) == IF gotFrame THEN "copy" ELSE "idle"

\* GrabChunk returns <= 0 when stopped, or a decoded frame when a fragment
\* is queued (decoding may fail); otherwise it keeps blocking
getFrameGrabReturn(h) ==
    LET d == sDecoder[h] IN
    /\ grabber[h] = "grab"
    /\ d.stopped \/ d.fragments > 0 \/ d.source # "live"
    /\ \E gotFrame \in (IF d.stopped \/ d.fragments = 0 THEN {FALSE}
                        ELSE {TRUE, FALSE}) :
          /\ grabber' = [grabber EXCEPT ![h] = AfterGrab(gotFrame)]
          /\ sDecoder' = IF d.stopped \/ d.fragments = 0 THEN sDecoder
                         ELSE [sDecoder EXCEPT ![h].fragments = @ - 1]
          /\ ub' = ub \cup Deref(d.source)
                      \cup (IF gotFrame THEN Deref(d.frameBuffer) ELSE {})
    /\ UNCHANGED <<sDecoderInstanceCount, ctl, javaStats, leaked,
                   handedOut, instances>>

getFrameCopy(h) ==
    /\ grabber[h] = "copy"
    /\ ub' = ub \cup Deref(sDecoder[h].frameBuffer)
    /\ grabber' = [grabber EXCEPT ![h] = "idle"]
    /\ UNCHANGED <<sDecoderInstanceCount, sDecoder, ctl, javaStats, leaked,
                   handedOut, instances>>

-----------------------------------------------------------------------------
Init ==
    /\ sDecoderInstanceCount = 0
    /\ sDecoder = [k \in {} |-> NewDecoder("live")]
    /\ grabber = [k \in HandleSpace |-> "idle"]
    /\ ctl = [pc |-> "idle", h |-> 0]
    /\ javaStats = <<>>
    /\ ub = {}
    /\ leaked = {}
    /\ handedOut = {}
    /\ instances = 0

Next ==
    \/ /\ ctl.pc = "idle"
       /\ getInstance
    \/ \E h \in HandleSpace :
          \/ open(h) \/ addDataInput(h) \/ stop(h) \/ getStats(h)
          \/ closeStop(h)
          \/ getFrameEnter(h) \/ getFrameGrabReturn(h) \/ getFrameCopy(h)
    \/ closeDeleteSource
    \/ closeFreeBuffer

\* the OS keeps scheduling a runnable thread: the grabber and the control
\* thread inside close are weakly fair; the Java caller's own calls are not
Fairness ==
    /\ \A h \in HandleSpace :
          WF_vars(getFrameGrabReturn(h)) /\ WF_vars(getFrameCopy(h))
    /\ WF_vars(closeDeleteSource) /\ WF_vars(closeFreeBuffer)

Spec == Init /\ [][Next]_vars /\ Fairness

-----------------------------------------------------------------------------
TypeOK ==
    /\ sDecoderInstanceCount \in HandleSpace
    /\ DOMAIN sDecoder \subseteq HandleSpace
    /\ \A k \in DOMAIN sDecoder :
          sDecoder[k] \in [source : Ptr, frameBuffer : Ptr, opened : BOOLEAN,
                           stopped : BOOLEAN, fragments : 0 .. MaxFragments]
    /\ grabber \in [HandleSpace -> {"idle", "grab", "copy"}]
    /\ ctl \in [pc : {"idle", "deleteSource", "freeBuffer"}, h : HandleSpace]
    /\ DOMAIN javaStats \in {0 .. n - 1 : n \in StatsLens \cup {0}}
    /\ javaStats \in [DOMAIN javaStats -> StatSlot]
    /\ ub \subseteq UBKinds
    /\ handedOut \subseteq HandleSpace

\* No proxy call touches a deleted or null object, deletes one twice, or
\* writes past the Java array (close, getFrame, getStats and the setters).
NoUndefinedBehaviour == ub = {}

\* Every slot getStats copies into the Java array holds a value the source
\* reported, never the uninitialised aStats[5].
StatsSlotsDefined == \A i \in DOMAIN javaStats : javaStats[i] # "garbage"

\* No native allocation made by a proxy call is lost: the UTF copy of the
\* codec name, aStats, and the objects of an overwritten map entry.
NoNativeLeak == leaked = {}

\* A getFrame blocked in GrabChunk on a stopped source returns.
StopReleasesGrabber ==
    \A h \in HandleSpace :
        (grabber[h] = "grab" /\ h \in DOMAIN sDecoder /\ sDecoder[h].stopped)
            ~> grabber[h] = "idle"

\* getInstance and close implement the registry spec.md section 3 describes:
\* every handle handed out is non-negative and handed out at most once, and
\* only a live session is released.  Once the counter has passed INT_MAX,
\* getInstance hands out INT_MIN.
Registry == INSTANCE HandleRegistry WITH
    Handles <- {k \in HandleSpace : k >= 0},
    issued <- handedOut,
    live <- {k \in DOMAIN sDecoder : sDecoder[k].source = "live"}

RegistryRefinement == Registry!Spec
=============================================================================

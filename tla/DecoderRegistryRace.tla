------------------------ MODULE DecoderRegistryRace ------------------------
(***************************************************************************)
(* The shared state of src/fog.video/src/jniImports/VideoDecoderProxy.C   *)
(* as the Java threads reach it: the static counter sDecoderInstanceCount *)
(* and the static std::map sDecoder.  No proxy call takes a lock.         *)
(*                                                                         *)
(* A caller thread runs initDecoderInstance: it reads the counter into    *)
(* tInstanceHandle (line 61), increments the counter with a load and a    *)
(* store (line 62), and inserts the new key with operator[] (line 67),    *)
(* which rebalances the tree.  A grabber thread runs getFrame on a handle *)
(* it was given: operator[] on an existing key (lines 132, 134) walks the *)
(* tree.  Each map access is split into entering and leaving it, so two   *)
(* accesses that overlap with no synchronisation are a reachable state.   *)
(*                                                                         *)
(* The objects behind an entry, and what getFrame does between its map    *)
(* accesses, are left out: the module is about the registry only.         *)
(***************************************************************************)
EXTENDS Integers

CONSTANTS
    Callers,        \* Java threads calling getInstance
    Grabbers,       \* Java threads calling getFrame
    IntBits,        \* width of the C int holding the counter
    MaxInstances    \* bound on getInstance calls

ASSUME Callers \cap Grabbers = {}
ASSUME IntBits \in Nat \ {0} /\ MaxInstances \in Nat

VARIABLES
    sDecoderInstanceCount, \* the static counter
    sDecoder,              \* the keys present in the static map
    pc,                    \* where each thread is
    tInstanceHandle,       \* a caller's local: the handle it will return
    tCount,                \* a caller's register: the counter value it loaded
    handedOut,             \* history: handles returned to Java
    instances              \* number of getInstance calls so far

vars == <<sDecoderInstanceCount, sDecoder, pc, tInstanceHandle, tCount,
          handedOut, instances>>

Threads == Callers \cup Grabbers

IntMin == -(2 ^ (IntBits - 1))
IntMax == 2 ^ (IntBits - 1) - 1
HandleSpace == IntMin .. IntMax

\* two's complement wrap of the stored counter; that the increment past
\* INT_MAX is itself undefined is shown by VideoDecoderProxy, not here
Wrap(x) == ((x - IntMin) % (2 ^ IntBits)) + IntMin

CallerPcs == {"idle", "load", "store", "insert", "inserting"}
GrabberPcs == {"idle", "finding"}

-----------------------------------------------------------------------------
(* initDecoderInstance on a caller thread                                  *)

\* int tInstanceHandle = sDecoderInstanceCount; the build may reuse this
\* load for the increment on the next line, or load the counter again
readHandle(t) ==
    /\ pc[t] = "idle"
    /\ instances < MaxInstances
    /\ tInstanceHandle' = [tInstanceHandle EXCEPT ![t] = sDecoderInstanceCount]
    /\ \/ /\ tCount' = [tCount EXCEPT ![t] = sDecoderInstanceCount]
          /\ pc' = [pc EXCEPT ![t] = "store"]
       \/ /\ pc' = [pc EXCEPT ![t] = "load"]
          /\ UNCHANGED tCount
    /\ instances' = instances + 1
    /\ UNCHANGED <<sDecoderInstanceCount, sDecoder, handedOut>>

\* sDecoderInstanceCount++: load
loadCounter(t) ==
    /\ pc[t] = "load"
    /\ tCount' = [tCount EXCEPT ![t] = sDecoderInstanceCount]
    /\ pc' = [pc EXCEPT ![t] = "store"]
    /\ UNCHANGED <<sDecoderInstanceCount, sDecoder, tInstanceHandle,
                   handedOut, instances>>

\* sDecoderInstanceCount++: store
storeCounter(t) ==
    /\ pc[t] = "store"
    /\ sDecoderInstanceCount' = Wrap(tCount[t] + 1)
    /\ pc' = [pc EXCEPT ![t] = "insert"]
    /\ UNCHANGED <<sDecoder, tInstanceHandle, tCount, handedOut, instances>>

\* sDecoder[tInstanceHandle]: operator[] starts inserting the key
insertEnter(t) ==
    /\ pc[t] = "insert"
    /\ pc' = [pc EXCEPT ![t] = "inserting"]
    /\ UNCHANGED <<sDecoderInstanceCount, sDecoder, tInstanceHandle, tCount,
                   handedOut, instances>>

\* the key is linked in; the source and frameBuffer are stored in it and
\* the handle is returned to Java
insertLeave(t) ==
    /\ pc[t] = "inserting"
    /\ sDecoder' = sDecoder \cup {tInstanceHandle[t]}
    /\ handedOut' = handedOut \cup {tInstanceHandle[t]}
    /\ pc' = [pc EXCEPT ![t] = "idle"]
    /\ UNCHANGED <<sDecoderInstanceCount, tInstanceHandle, tCount, instances>>

-----------------------------------------------------------------------------
(* getFrame on a grabber thread: sDecoder[pHandle] on a handle it holds    *)

findEnter(g) ==
    /\ pc[g] = "idle"
    /\ handedOut # {}
    /\ pc' = [pc EXCEPT ![g] = "finding"]
    /\ UNCHANGED <<sDecoderInstanceCount, sDecoder, tInstanceHandle, tCount,
                   handedOut, instances>>

findLeave(g) ==
    /\ pc[g] = "finding"
    /\ pc' = [pc EXCEPT ![g] = "idle"]
    /\ UNCHANGED <<sDecoderInstanceCount, sDecoder, tInstanceHandle, tCount,
                   handedOut, instances>>

-----------------------------------------------------------------------------
Init ==
    /\ sDecoderInstanceCount = 0
    /\ sDecoder = {}
    /\ pc = [t \in Threads |-> "idle"]
    /\ tInstanceHandle = [t \in Callers |-> 0]
    /\ tCount = [t \in Callers |-> 0]
    /\ handedOut = {}
    /\ instances = 0

Next ==
    \/ \E t \in Callers :
          \/ readHandle(t) \/ loadCounter(t) \/ storeCounter(t)
          \/ insertEnter(t) \/ insertLeave(t)
    \/ \E g \in Grabbers : findEnter(g) \/ findLeave(g)

Spec == Init /\ [][Next]_vars

-----------------------------------------------------------------------------
TypeOK ==
    /\ sDecoderInstanceCount \in HandleSpace
    /\ sDecoder \subseteq HandleSpace
    /\ \A t \in Callers : pc[t] \in CallerPcs
    /\ \A g \in Grabbers : pc[g] \in GrabberPcs
    /\ tInstanceHandle \in [Callers -> HandleSpace]
    /\ tCount \in [Callers -> HandleSpace]
    /\ handedOut \subseteq HandleSpace

\* a thread inside an operator[] that inserts, while another thread is
\* inside any operator[] on the same map
MapRace ==
    \E t \in Callers, u \in Threads :
        /\ t # u
        /\ pc[t] = "inserting"
        /\ pc[u] \in {"inserting", "finding"}

\* two callers between their read of the counter and their store to it
CounterRace ==
    \E t, u \in Callers :
        /\ t # u
        /\ pc[t] \in {"load", "store"}
        /\ pc[u] \in {"load", "store"}

\* No two Java threads touch the static map while one of them inserts,
\* and no two touch the counter while one of them increments it: the
\* registry is free of data races.
NoDataRace == ~MapRace /\ ~CounterRace
=============================================================================

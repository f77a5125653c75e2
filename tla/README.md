# TLA+ models of the FoG JNI proxies

This directory has the TLA+ models of the native (C++) JNI shims in this repository:

- `src/fog.video/src/jniImports/VideoDecoderProxy.C`: the video decoder facade.
- `src/fog.video/src/jniImports/VideoTranscoderProxy.C`: the video transcoder facade.
- `src/fog.emulator/src/jniImports/ProxyPacketFoG.C` (and its generated header `ProxyPacketFoG.h`): the FoG packet sender/receiver facade.

Java calls these facades through JNI. Each facade forwards to objects of external libraries that are not part of this repository: `MediaSourceMem`, `MediaSourceMuxer` and `MediaSinkMem` (Homer multimedia), and `PacketFoG` (LibNetInject).

## 1. Inventory

### Common pattern

All three facades have the same structure:

- a `static int` instance counter;
- a `static std::map<int, Struct>` registry from handle to the native objects of one session;
- `getInstance`, which takes the counter value as the new handle, increments the counter, and fills the map entry with `new` objects and `malloc` buffers;
- one entry point per library method. Each entry point looks up `map[pHandle]` (with `operator[]`, so an unknown key is default-inserted with NULL pointers) and calls through the pointer;
- for the video facades, `close`, which stops, deletes and frees the objects but never erases the map entry.

No call takes a lock. Java may call from several threads. The decoder's own comment on `stop` ("the grab loop in start will be broken here"), and the `StopGrabbing` call that opens each `close`, show the intended use: `stop`/`close` are called while another Java thread is blocked in `getFrame` → `GrabChunk`.

### Components, their state, operations and properties

| Component | State | Operations | What makes it correct |
|---|---|---|---|
| Video decoder proxy | `sDecoderInstanceCount`, `sDecoder: int -> {source, frameBuffer}` | getInstance, open, stop, close, addDataInput, getFrame, getStats, InitLogger | handles are never reissued; no call uses a deleted source or freed buffer; stop unblocks a grabbing getFrame; getStats writes defined values only inside the Java array; no native memory is lost per call |
| Video transcoder proxy | `sInstanceCount`, `sTranscoder: int -> {muxer, source, storage, frameBuffer, packetBuffer}` | getInstance, open, stop, close, addDataInput, getOutputPacket, getFrame, getStats, InitLogger | as for the decoder. In addition: no object is deleted while another live object still references it (muxer→source, muxer→storage), and storage is deleted exactly once (inside `UnregisterMediaSink`) |
| Packet-session proxy | `sInstanceCount`, `sPacketFogInstance: int -> {Sender, Receiver}` | getInstance, set source/destination address, set payload/route/reverse route/authentications, reset, set marking signaling/fragment, send, get default/send/receive device, set send/receive device, prepare receive, receive, get payload/source/destination address, is-last-fragment | handles are unique; a setter never writes past its 1500-byte stack buffer and never forwards uninitialised bytes; a getter never reads past its stack buffer; receive and getters come after a successful prepare |
| JNI header | none | declarations only | — (generated) |
| External libraries | opaque | GrabChunk, WriteFragment, StopGrabbing, ReadFragment, Send, Receive, … | out of scope; only the blocking behaviour of GrabChunk/StopGrabbing is assumed |

### What is hard to test

Section `hazards` of `PROJECT.json` lists every hazard at its source line. In summary:

- **close against a blocked getFrame.** `close` wakes the grabber with `StopGrabbing` and then deletes the source at once. The grabber returns into a deleted object and copies from a freed buffer. A unit test does not reach this because it needs a particular interleaving.
- **Counter overflow.** The `int` counters overflow after 2^31 sessions. Signed overflow is undefined; the build's plain add wraps, so the next handle is negative (INT_MIN) and a live handle is later handed out again.
- **Partial failure.** An unchecked or print-only `malloc` failure leaves NULL buffers that later calls use.
- **Uninitialised output.** `aStats[5]` is never written but is copied out. `aStats` itself and the `GetStringUTFChars` copies are never released.
- **Buffer bounds.** The fixed 1500-byte stack buffers of the PacketFoG setters get unchecked sizes. When the size exceeds the Java array, the JNI exception stays pending and the uninitialised buffer is still forwarded.
- **Call sequences.** Any call with an unknown handle default-inserts NULL pointers. A call after `close` is a use-after-free. Receive and the getters can run before prepare-receive.
- **Unsynchronised registry.** No call takes a lock. A getInstance for a new session inserts into the static map while the grabber thread of an open session looks up its own entry in it. Two callers of getInstance race on the counter.

## 2. Modules

| Module | Models | State ↔ code |
|---|---|---|
| `HandleRegistry` | the abstract promise of spec.md 3 and 4.1: `acquire` returns a never-issued handle from `Handles`, `release` ends a live session. The decoder instantiates it with `Handles` = the non-negative ints | `issued`, `live` |
| `VideoDecoderProxy` | `VideoDecoderProxy.C` | `sDecoderInstanceCount` = the static counter. An increment past `IntMax` adds `signed_overflow` to `ub` and leaves the two's-complement wrap in the counter, which is what the build's plain add produces. `sDecoder` = the map; `source`/`frameBuffer` are pointer states `live`/`freed`/`null`, and `opened`/`stopped`/`fragments` abstract the MediaSourceMem. `grabber[h]` is the pc of the Java thread in getFrame (`grab` = inside GrabChunk, `copy` = copying frameBuffer). `ctl` is the pc of the control thread inside close. `javaStats` = the Java int[] getStats fills. `ub`/`leaked` record undefined behaviour and lost allocations. `handedOut` is a history of returned handles |
| `MCVideoDecoderProxy` | TLC instance of the above | 3-bit int, stats array lengths {5, 6, 8} |
| `DecoderRegistryRace` | the static counter and map of `VideoDecoderProxy.C` as several Java threads reach them | `pc[t]` per thread. A caller runs `initDecoderInstance` as `readHandle` (line 61; the build may reuse this load for the increment), `loadCounter` and `storeCounter` (line 62), and `insertEnter` / `insertLeave` (the `operator[]` insert of line 67). A grabber runs getFrame's lookups (lines 132, 134) as `findEnter` / `findLeave`. `sDecoder` is the set of keys in the map. `MapRace` / `CounterRace` are the states where two unsynchronised accesses overlap and one of them writes |
| `MCDecoderRegistryRace` | TLC instance | one caller thread, one grabber thread |
| `VideoTranscoderProxy` | `VideoTranscoderProxy.C` | `sInstanceCount`, `sTranscoder` as for the decoder, with pointer states for `muxer`, `source`, `storage`, both buffers, and `registered` (the muxer still holds the storage sink). `grabber[h]` / `reader[h]` are the pcs of the getFrame and getOutputPacket threads. `ctl.pc` indexes the six steps of `close`. `stopRequested` is a history of the sessions stop or close was called on |
| `MCVideoTranscoderProxy` | TLC instance | stats array lengths {5, 6} |
| `PacketFoGProxy` | `ProxyPacketFoG.C` | `sInstanceCount`, `sPacketFogInstance` (Sender / Receiver pointers `live` or `null`, and what the Sender holds: for each byte field the origin of its bytes, `caller` or `garbage`, and the markings). `sent` is a history of the byte origins of every packet handed to `Send` |
| `MCPacketFoGProxy` | TLC instance | Java array lengths 0..2 (fitting) or 0..3, size arguments −1..4 |

### Actions of VideoDecoderProxy

- `initDecoderInstance` / `getInstance` (lines 59–71, 90–95): the new handle is the counter value; the counter gets `Wrap(c+1)`, and `Overflow(c)` records the undefined increment past `IntMax`; the entry is (over)written with a live source and a live or NULL buffer (lines 67–68). A grabber thread of an overwritten entry is not touched: the old thread goes on as it was.
- `open` (76–81): sets `opened`, clears `stopped`, and leaks the codec string.
- `addDataInput` (119–124): queues one fragment.
- `stop` (100–103): sets `stopped`.
- `getStats(h)` (154–172): `aStats = malloc(4 * 7)` may return NULL (when `MallocMayFail`), and the statistics are written through it unchecked. It copies `min(len,7)` slots of `aStats` (slot 5 undefined) into the Java array (`StatsWritten`, which keeps any slot written past the array's end), and leaks `aStats`.
- `close` (108–114), split into three steps because the grabber may run between them: `closeStop` (StopGrabbing), `closeDeleteSource`, `closeFreeBuffer`. The entry stays in the map.
- `getFrame` (129–149), split into three steps:
  - `getFrameEnter`: calls GrabChunk.
  - `getFrameGrabReturn`: GrabChunk returns ≤0 when stopped. With a fragment queued it returns a frame or a decode failure. Otherwise it keeps blocking. A non-positive result returns NULL at once.
  - `getFrameCopy`: copies frameBuffer to Java.

Each access through a pointer adds `Deref(p)` to `ub`. Each delete or free adds `Release(p)`.

### Actions of VideoTranscoderProxy

- `initTranscoderInstance` / `getInstance` (66–85): as for the decoder, overflow included; both mallocs may fail, which the code only prints.
- `open` (87–100): registers the storage sink with the muxer, opens the muxer, leaks both codec strings.
- `addDataInput`, `stop` (109–113: StopGrabbing on the muxer and StopProcessing on the storage), `getStats` (177–194).
- `close` (115–126): `closeBegin` (the call and its precondition), then `closeStep` walks `CloseOrder` = StopGrabbing, StopProcessing, UnregisterMediaSink (which deletes the storage), delete muxer, delete source, free the buffers. Each step is atomic; the worker threads may run between any two.
- `getFrame` (155–175): enter, return from the muxer's GrabChunk (which also pushes a muxed packet into a registered storage), copy.
- `getOutputPacket` (137–153): enter, return from the storage's ReadFragment (size 0 goes straight back), copy.

### Actions of PacketFoGProxy

- `initPacketFogInstance` / `getInstance` (37–54): the counter (overflow included) and map as in the other facades, with two `new PacketFoG()`.
- `SetBytes(h, field, len, size)` (74–104): the four byte-array setters. `GetByteArrayRegion` copies only if `0 ≤ size ≤ len`; otherwise the stack array stays uninitialised (`garbage`) and the code goes on. A copy larger than `StackBufferSize` is a stack overflow. A forwarded size larger than the array makes the Sender over-read it.
- `SetAddress` (56–72), `DeviceCall` (132–176), `SetMarking` (112–122), `DoReset` (106–110, Reset(true) clears the Sender), `DoSend` (124–128, records what it sends).
- `DoPrepareReceive` (180–187), `DoReceive` (228–232), `ReceiverGetter` (189–226): calls through the Receiver. What the Receiver reports changes no state of the facade.

Every call goes through `operator[]` (`Touched`): an unknown handle gets an entry with NULL pointers.

### The caller

Java code is not in `src/`. The caller is therefore modelled from the contract in spec.md §3 (`Usable`):

- calls only use handles that were returned and not closed;
- open is called once, before the other calls;
- getFrame runs on a separate thread per session.

The constant `ReuseClosedHandles` lets the caller call again with a handle it has closed (outside the contract; `decoder_closed_handle`).

The constant `JoinGrabberBeforeClose` selects one of two callers:

- TRUE: the caller stops the grabber and waits for it to return before `close`;
- FALSE: the caller closes while the grabber may be blocked, which is what the StopGrabbing in `close` is written for.

### Assumption about the library

`GrabChunk` on an opened source blocks until a fragment is queued or `StopGrabbing` is called. After a stop it returns a non-positive value. `OpenVideoGrabDevice` clears the stop flag.

## 3. Runs

| Run | cfg | Expect | Shows |
|---|---|---|---|
| decoder_joined | `VideoDecoderProxy.cfg` | pass | See below. |
| decoder_counter_wrap | `VideoDecoderProxy_counterWrap.cfg` | violation | On a 2-bit int the second getInstance pushes the counter past INT_MAX and the third returns −2: `RegistryRefinement` fails because spec.md 3 promises non-negative, never-recycled handles. |
| decoder_close_race | `VideoDecoderProxy_closeRace.cfg` | violation | open, getFrame blocks, close stops and deletes the source, then GrabChunk returns into the deleted object (use-after-free). |
| decoder_malloc_null | `VideoDecoderProxy_mallocNull.cfg` | violation | The shortest trace is getInstance, open, getStats with `aStats` NULL, written through at line 160. A NULL frameBuffer, written by GrabChunk, is reached by the same run in longer traces. The transcoder has the same defect (its malloc failure is only printed); `VideoTranscoderProxy.cfg` with `MallocMayFail = TRUE` shows it the same way, so it has no run of its own. |
| decoder_stats_garbage | `VideoDecoderProxy_statsGarbage.cfg` | violation | `aStats[5]` reaches Java. |
| decoder_leak | `VideoDecoderProxy_leak.cfg` | violation | open loses the `GetStringUTFChars` copy of the codec name (line 78). The per-call `aStats` leak of getStats is recorded the same way but needs a longer trace, so this run does not show it. |
| decoder_closed_handle | `VideoDecoderProxy_closedHandle.cfg` | violation | A caller that joins its grabber but calls `open` on a handle after `close` goes through the deleted source: close leaves the map entry behind, and nothing checks it (spec.md §8 wants `UnknownHandle`). |
| decoder_registry_race | `DecoderRegistryRace.cfg` | violation | One control thread and one grabber: after the first session is handed out and its getFrame is inside `sDecoder[pHandle]`, the second getInstance is inside the map insert. Concurrent insert and lookup on a `std::map` is a data race (`NoDataRace`). |
| transcoder_joined | `VideoTranscoderProxy.cfg` | pass | With a joining caller: no undefined behaviour, the close order never deletes an object another live one refers to (`NoDanglingReference`), and a stop releases both worker threads (`StopReleasesThreads`). |
| packetfog_oversize | `PacketFoGProxy_oversize.cfg` | violation | An array one byte longer than `MAX_ETH_PAYLOAD_SIZE` passed with its length overflows the stack array (spec.md requires it to be rejected). |
| packetfog_size_mismatch | `PacketFoGProxy_sizeMismatch.cfg` | violation | A size larger than the Java array leaves the JNI exception pending; the uninitialised stack array is forwarded and sent (`SentBytesFromCaller`). |
| packetfog_unknown_handle | `PacketFoGProxy_unknownHandle.cfg` | violation | A call with a handle never issued dereferences the NULL Sender default-inserted by `operator[]`. |

The `decoder_joined` run uses a joining caller and a `malloc` that succeeds. It checks three properties:

- `TypeOK`, which includes that the Java stats array is written only within its length.
- `NoUndefinedBehaviour`: the close order (stop, delete, free) never uses what it has just deleted, and the getStats loop stays inside the Java array for lengths 5, 6 and 8.
- `StopReleasesGrabber`: a getFrame blocked on a stopped source returns.

### Bounds

- `IntBits = 3`: handles are −4..3. With `MaxInstances = 3` the counter reaches INT_MAX (3) without passing it, so `NoUndefinedBehaviour` is about close, getFrame and getStats. `decoder_counter_wrap` uses `IntBits = 2` (−2..1), where the second call overflows and the third returns −2; five calls would re-issue 0.
- `MaxFragments = 1`: one queued fragment is enough for GrabChunk to return a frame as well as to block.
- `StatsLens = {5, 6, 8}`:
  - 5 is shorter than the 7 slots copied, so a wrong loop bound overflows;
  - 6 copies slot 5;
  - 8 is longer than 7, so the `min` matters.

- Transcoder: `IntBits = 3`, `MaxInstances = 2` (the counter stays below INT_MAX), one fragment and one packet. That is enough for a worker to be blocked, to return with data, and to be returning while close runs, on two sessions.
- Registry race: one caller and one grabber; `MaxInstances = 2` is the least that has a grabber on the first session while the second is inserted.
- PacketFoG: `IntBits = 2`, `MaxInstances = 1`: one session, and −2, −1 and 1 as handles never issued. `MaxEthPayload = 2` stands for 1500; it only matters where a length is compared with it. Fitting lengths 0..2, all lengths 0..3 (one over), sizes −1..4: negative, zero, equal to the array, one over the array, and one over the stack buffer.

### Fairness

Only the threads' own progress is assumed fair:

- `getFrameGrabReturn` and `getFrameCopy`: a runnable grabber thread is scheduled;
- the remaining steps of `close`.

The Java caller's calls are not fair: it may stop calling at any time.

The PacketFoG model has no threads and no fairness, and the caller can always make another call, so its runs check deadlock. It has no passing run: each of its runs asks whether one defect is reachable, and with a caller that keeps to every rule nothing in the facade can go wrong. The video runs set `CHECK_DEADLOCK FALSE`: every behaviour ends once `MaxInstances` sessions have been opened and closed and nothing remains to call, which is the real end of the caller.

## 4. Plan

1. **Done: `HandleRegistry` + `VideoDecoderProxy`.** This is the core: handle lifetime, close/getFrame concurrency, stats and leaks.
2. **Done: `VideoTranscoderProxy`.** The same registry plus the object graph muxer→source, muxer→storage. It gets a `NoDanglingReference` invariant for the deletion order in `close`. It also covers the close race with getFrame/getOutputPacket, and print-only malloc failure.
3. **Done: `PacketFoGProxy`.** Sender/receiver per handle. It adds:
   - the stack-buffer bound of every byte-array setter, with the size and the Java array length as inputs, and the pending-exception path;
   - unknown-handle default insertion.

   The getters' copy-back size and the prepare→receive ordering depend only on LibNetInject, which is not in the repository; they are listed as hazards without a property.
4. **Done: callers outside the contract, and the registry races.** A decoder caller reusing a closed handle. `DecoderRegistryRace` for the unsynchronised counter and map.

To keep the runs to one per distinct question, some variants have no run of their own. Each is reached by changing one constant of an existing cfg:
- `transcoder_joined` with `JoinThreadsBeforeClose = FALSE` shows the transcoder's close race (the same defect as `decoder_close_race`).
- `decoder_counter_wrap` with `MaxInstances = 5` shows handle 0 issued twice after the counter wraps; the transcoder and PacketFoG counters are the same code.
- `MCDecoderRegistryRace` with two caller threads shows the counter race.
- The transcoder has the same unsynchronised map, with two worker threads per session; `DecoderRegistryRace` stands for both facades.

## 5. Not modelled

- Logging (`InitLogger`, `printf`) and the global settings `DisableIPv6Support` / `DisableProcessStatisticSupport`: they hold no state the properties look at.
- String conversion of codec names and addresses: these are model values, except that the leak of the `GetStringUTFChars` copy is kept.
- The libraries' internals: decoding, muxing, RTP, packet framing.
- In `PacketFoGProxy`, the `GetStringUTFChars` copies that the address, device and filter calls never release. This is the same leak `decoder_leak` shows, so it is not repeated.
- The JNI header `ProxyPacketFoG.h` is generated declarations with no behaviour.
- What LibNetInject's Receiver does before a successful `PrepareReceive`, and the size its getters report back (`ProxyPacketFoG.C` lines 194, 205, 216), are up to the library. The facade keeps no state between these calls and passes the reported size on unchecked. A model could only restate an assumption about a library that is not in this repository. Both are listed as hazards without a property.
- The transcoder's stats slot 5, its leaks and its map race are the same code as in the decoder, and the transcoder module records them the same way (`javaStats`, `leaked`). The decoder's runs show them; the hazards list says so.

With these exclusions, every entry point of the three facades is an action of a module, and every line of their code other than includes, logging and `InitLogger` is mapped to a definition.

No further component can be modelled from this repository. The three facades share no state and never call each other, so there is nothing to compose across them. Each facade's threads already interact inside its own module. The open hazards are of two kinds. Some are decided by LibNetInject, which is not in the repository. The others repeat, in the transcoder, a defect that a decoder run already shows, and they would need runs of their own.

# RTP receiver and JPEG 2000 parser front end: specifications and proofs

This directory models the program in `src/`: a receiver of RTP streams of
JPEG 2000 codestreams (RFC 9828) that reorders packets in a ring of slabs,
assembles frames without copying, and walks the precincts of a frame while its
packets are still arriving. The specifications are TLA+, checked with TLC on
small instances; the theorems are checked by TLAPS for every value of the
constants. `PROJECT.json` maps every definition to the source lines it models,
and lists the runs, the hazards and the theorems.

## 1. The system

| Part | Source | Module | Status |
|---|---|---|---|
| RTP receiver: recv thread, jitter ring, job queue, worker, `start`/`stop` | `rtp_receiver.{hpp,cpp}` | `Receiver`; promise: `SlabChannel`; proofs: `ReceiverTypes`, `ReceiverOwnership`, `ReceiverProofs`, `ReceiverWindow`, `ReceiverOrder` | modelled |
| Frame handler: `pull_data`, latching, re-latch, aborts, gap acceptance | `frame_handler.hpp` | `FrameHandler`, `MCFrameHandler`; promise: `IncrementalDelivery`; proofs: `FrameInvariants`, `FrameProofs`, `FrameContractProofs` | modelled |
| Tile handler: signal queue, `parse`, `flush`, recovery, `create`, `restart` | `packet_parser/tile_handler.hpp` | `TileHandler`, `MCTileHandler` | modelled |
| Codestream: zero-copy chain of chunks, its cursor and bit reader | `packet_parser/type.hpp` | `Codestream`, `PacketHeader` | modelled |
| Precinct structure and progression orders | `packet_parser/j2k_packet.cpp` | `PrecinctOrder`, `Latch` | partly |
| Packet headers | `packet_parser/j2k_packet.cpp` | `PacketHeader`, `MCPacketHeader`; by their outcome in `TileHandler` | partly |
| Main header, `geometry_signature` | `packet_parser/j2k_header.cpp` | `MainHeader`, `Latch`, `MCLatch`; by its outcome in `FrameHandler` | modelled |
| Arena (`stackAlloc`) | `packet_parser/utils.cpp` | `Latch` | modelled |
| Logging | `packet_parser/utils.cpp` | none | not modelled |
| The program: wiring of receiver and handler, hook, `start`/`stop` | `main.cpp` | `Pipeline`, `MCPipeline` | partly (no option parsing, no statistics) |
| IRQ script, tests | `scripts/`, `tests/` | none | not modelled |

How they interact. The **recv thread** copies a datagram into the slab of its
sequence number, keeps up to `jitter_depth_` sequence numbers to reorder, and
dispatches the head of the window through a single-producer single-consumer
queue. The **worker thread** calls the hook (`main.cpp`), which calls
`frame_handler::pull_data` for each packet. The frame handler keeps the slabs of
a whole frame (their bytes are the chain the parser reads) and gives them back
with `release_slab`. A main packet latches the stream's structure or verifies
it; a body packet that carries a resync point (ORDB) queues a *signal* and lets
the tile handler walk up to it; the marker bit (EOC) flushes the rest, reports
the frame and restarts. A third thread, the application, calls `start` and
`stop`.

## 2. The modules

### Receiver

State: the members of `rtp::Receiver` under their names (`in_worker`, `filled`,
`next_seq`, `pending`, `job_head`, `job_tail`, the three counters), and a
program counter per thread: `mpc` for `start`/`stop`, `rpc` for the recv
thread, `wpc` for the worker. Each action holds at most one access to memory
that another thread writes, so the interleavings TLC explores are those of the
sequentially consistent program; the acquire/release orders of the code are
what makes that a fair picture, weaker orders are not modelled. The `memcpy`
into a slab takes two steps (`StoreBegin`, `StoreEnd`), between which the slab
holds no packet.

A packet is a natural number `n` that never wraps; the receiver sees
`SeqOf(n) = n % SeqMod`. That makes "late", "early" and "in order" facts of the
model and the 16-bit difference something that can be right or wrong
(`DistanceExact`). The network delivers any packet within `Reorder` behind and
`Outage` ahead of the newest, any number of times or never.

The timed wait of the worker has its own steps (predicate under the mutex, sleep,
notification, timeout), so a notification between the predicate and the sleep is
excluded by the mutex for `stop`, and is lost for `dispatch`, which does not lock.

`SlabChannel` is the promise to the hook: whole packets, in order, at most once,
each in a slab that nobody else writes until it is released. `Receiver`
implements it with `view` = the slabs the hook has and the packets in them.

### FrameHandler

State: the members of `frame_handler`, and what matters of the tile handler
(`ready`, `geom`, `dirty`). `pull_data` is cut at the places where its paths
meet: gap (`idle`), `cap`, `route`, `verify`, `latch`, `walk`, `eoc`. It runs on
one thread, so the cuts add no interleaving. The outcome of a walk, of a flush and
of both header readers, and the answers of the consumer's callbacks, are
nondeterministic. A header is a record: its signature, its geometry, whether
each reader accepts it and where it ends.

`IncrementalDelivery` is the contract of the comment at the top of the file:
contiguous chunks from offset 0, then one `frame_ready` or one `frame_abort`.

### Codestream, PrecinctOrder, TileHandler

`Codestream` has the functions of the chain reader as operators on a record
(chunks, current chunk, offset, bytes before). A chunk's bytes are represented
by the offset `org` in the sender's codestream at which they begin, so "what is
at the cursor" is a number and not a string of bytes.

`PrecinctOrder` has the geometry of resolutions and precincts and the two
progression orders as functions of the main header's values, and, separately, a
reference: each precinct's corner on the reference grid and the lexicographic
order the standard prescribes.

`TileHandler` puts them under the walk. A frame has a header of `sod` bytes and
one packet per precinct of a given length; it is cut into RTP packets anywhere,
any of which may signal the first precinct that begins in it, or be lost
without notice (the hook of `main.cpp` never passes `gap`). A packet header is
represented by its outcome: bytes that are the expected precinct parse and move
the cursor behind it; past the end of the chain every bit is 0, an empty packet;
any other bytes are accepted or refused and leave the cursor anywhere ahead.
`parse` reads `crp[crp_idx]` without comparing it with the length; the model
stops in `pc = "lost"` where that would be behind the end.

### MainHeader, Latch

`MainHeader` has the two readers of a main header as operators over a sequence of
marker segments. `geometry_signature` steps by the length each segment states;
`parse_main_header` steps by the bytes the parser of each segment happens to read
(`Reads`), which depends on its fields and on the segments before it. What the
parsers leave in `siz`, `cod`, `cocs` and `dfs` is a record that is never reset, as
in the code. A third, declarative reading (`Meant`) says what a header in scope
describes and is what the result is compared with.

`Latch` is a state machine around them: open a frame with some header (reuse,
invalidate, first latch, malformed), parse it segment by segment, `create` the
structure in the arena, walk (as far as it takes memory), `restart`. The arena is a
row of cells of one precinct each, and `own` remembers which resolution a cell was
handed to last. `tile_` leaves its resolutions uninitialised, so `Init` chooses what
the storage seems to hold, and a re-latched tile keeps what its levels do not
overwrite. Where the code would read bytes or pointers that mean nothing (a parser
inside a segment, `restart` on a dead pointer, a failed allocation), the model ends
in `astray`, `lost` or `full`.

### PacketHeader

`read_packet` and `parse_packet_header` bit by bit on the chain of `Codestream`: the
bit reader with its stuffing, tag trees of one node, the code of the pass counts,
`lblock`, the lengths of one or two segments in HT and MIXED streams, the flush and
the bodies. The other side is a sender that encodes packets as the standard says.
Frames are cut into chunks anywhere, chunks are lost, a failed walk resumes at the
start of a later precinct, and `restart` clears the blocks for the next frame. Bytes
have `W` bits: with four, a byte of ones is common and the stuffing is exercised
everywhere.

### Pipeline

The program as `main` puts it together: `Receiver` extended, `FrameHandler`
instantiated with the receiver's slabs and with its `lent` as a variable of its own
(`kept`), so that both sides keep their own account as in the code. The hook is
`ProcessJob` and `PullPlain` in one step; the steps of `pull_data` follow,
interleaved with those of the recv thread; a slab that `pull_data` gives up is
released by a `HookRelease` step each; then the hook returns. What a packet carries
is fixed by its number (`Payload`).

## 3. The runs

| Run | Instance | Shows |
|---|---|---|
| `receiver` | 4 slabs, 6 packets across the wrap of a 4-bit sequence number, jitter depth 3 | `SlabExclusive`, `OwnershipExact`, `JitterWindow`, `DistanceExact`, `Accounting`, `PromptRelease`, and the refinement `ImplementsChannel` |
| `receiver_restart` | 2 slabs, jitter depth 3, two sessions, fair threads | the channel across `stop` and `start`, with the alias branch taken (`ImplementsChannel`); `QueuedIsProcessed`, `StopReturns` |
| `frame_handler` | every packet kind, 4 slabs, cap 3, hatch at 1 | `SlabsAccounted`, `ConsumerAgrees` (contiguity and abort bookkeeping), `WalkOnLatched`, `BodyStart`, `ParkedInFlight`, `StreakExact`, `IntactMeansWhole` |
| `frame_contract` | whole headers, supported geometries, no resync point on the EOC packet, hatch at 2 | the delivery contract, `EveryFrameEnds`, `CacheFresh` |
| `tile_handler` | three walkable streams of five precincts, one unsupported, four header-only geometries; two frames | `CursorExact`, `CrpExact`, `LosslessWalk`, `RecoverySound`, `SignalsPoint`, `WalkAdvances` |
| `latch` | some thirty headers, in scope and out of it, three frames, up to 2 levels | `ReadersAgree`, `LatchedAsMeant`, `ArenaOwned`, `OneStream`, `RestartExact` |
| `packet_header` | bytes of 4 bits, three subbands, two precincts, two frames, chunks anywhere, one loss | `RoundTrip`, `ScupInside`, `NoStaleBytes`, `FlushSafe` |
| `pipeline` | 4 slabs, 7 packets across the wrap, a frame of two packets and one longer than the cap, fair worker | `OwnersAgree`, `ChainIsFrame`, `NeverStarved`, `FrameReleased` |
| `frame_both`, `frame_stale_cache`, `tile_tail`, `latch_stale` | small | a comment of the source that the code does not live up to (section 6) |

**Why the bounds are enough.**

- *Ring.* Four slabs and a jitter depth of three reach every branch of
  `handle_dgram` except the alias branch, which `JitterWindow` shows
  unreachable there; `receiver_restart` makes the jitter depth larger than the ring to take
  it. The queue has as many entries as the ring and holds one less, so it fills
  and wraps; packets 13..18 modulo 16 wrap the sequence number while packets
  are in the window. `MaxBusy` and `MaxLost` bound two counters that no guard of
  the code reads: they cut repetitions of the same events. The theorems do not
  depend on any of these values.
- *Constraints.* `SeqMod % kRingSize = 0` holds of 65536 and 16384.
  `Outage + jitter_depth <= SeqMod / 2` says the network never jumps by half the
  sequence space, without which a 16-bit difference means nothing.
- *Frames.* With a cap of three and four slabs a frame meets the cap with one
  slab to spare. Two frames (three in `frame_contract`) are needed to see state
  of one reach the next; a re-latch that fails and one that succeeds later need
  three. Body packets have one byte or none. Permuting slabs is sound: the handler
  compares none.
- *Tile.* Packets of 2, 3 and 4 bytes against precincts of 1 to 6 bytes put zero
  to three precinct starts in a packet and spread a precinct over several. A
  signal queue of two overflows. The six-byte precinct is what lets a walk that
  lost bytes run ahead of the signal it must recover at. Packets of fewer than
  two bytes are excluded (section 7).

- *Latch.* Three frames: one to leave something behind, one to fail or re-latch over
  it, one to reuse the result (`OneStream` cannot fail with fewer). The headers include every segment order that matters
  (COC before COD, QCD before DFS), lengths that lie, parsers that give up early and
  a header without SOD; one stream does not fit into the arena.
- *Packet header.* The blocks have 1 to 40 passes, so every branch of the pass code,
  one and two segments, placeholders ahead of a cleanup pass and placeholders alone; the properties depend on a byte's
  width only through the stuffing. A loss leads the parser through arbitrary bits.
- *Pipeline.* The cap is one below the ring, as the code's cap is below its own; the
  long frame reaches it whether or not packets are lost.

**Mutants.** For every property of a passing run the project names a change of a
mapped definition, of the kind a slip in that code would make (a dropped guard, a
missing reset, an unmasked index), which makes TLC report that property. They
stand next to the definition they vary and no specification uses them.

**Fairness** (`receiver_restart`, `pipeline`). Weak fairness of each thread's own
steps, in `pipeline` of the worker's only: the operating system schedules runnable
threads, the hook returns, `wait_for` expires after its millisecond, and `recv` on a
closed socket fails. Nothing is assumed of the network or of the application calling
`stop`, and outside `pipeline`, where `pull_data` decides, nothing of the hook's
releases.
`QueuedIsProcessed` holds thanks to the timeout: with an untimed wait (its
mutant) a skipped or lost notification leaves a job queued for ever.
`Finished` and `Rest` are stuttering steps for a system that may stop, so
deadlock checking stays on everywhere.

## 4. What is proved

The theorems are in two chains of modules, each module extending the one before:
`ReceiverTypes`, `ReceiverOwnership`, `ReceiverProofs`, `ReceiverWindow`,
`ReceiverOrder` for the receiver, and `FrameInvariants`, `FrameProofs`,
`FrameContractProofs` for the frame handler.

### The receiver

For every ring size, sequence space, jitter depth, set of packets, network bounds
and number of sessions:

| Theorem | States | Condition |
|---|---|---|
| `TypeCorrect` | `Spec => []TypeOK` | |
| `SlabOwnership` | `Spec => []OwnershipExact` | lent |
| `SlabExclusion` | `Spec => []SlabExclusive` | lent |
| `DistanceIsExact` | `Spec => []DistanceExact` | lent |
| `WindowHolds` | `Spec => []JitterWindow` | lent |
| `EveryPacketIsCounted` | `Spec => []Accounting` | lent, ring |
| `ReleaseIsPrompt` | `Spec => []PromptRelease` | lent, ring |
| `ReceiverIsAChannel` | `Spec => ImplementsChannel` (the refinement) | lent |

Assumptions: the named `ASSUME`s of `Receiver`, which TLC evaluates in every
receiver run. *lent* is `RestartWhileLent = FALSE`: `start` is called again only
after the hook has released its slabs. The condition is needed: `start` clears every
flag, also those of slabs that are still kept. `main` starts once, so the program
meets it. *ring* is `jitter_depth <= kRingSize`, without which the alias branch
counts a packet as lost that is counted once more when the head passes it.

**Ownership.** Neither property is inductive: from an arbitrary state that
satisfies `OwnershipExact`, the recv thread could be copying into a flagged slab.
`IInv` adds what each thread knows at its place in the code.

- `RecvInv`: the slot being copied to is unfilled and unflagged, the slot being
  dispatched is the ready head, the job about to be published is written and
  there is room for it, and a filled slot is flagged only while it is being
  dispatched. The last is the heart of it: a slot goes from the jitter buffer to
  the worker once, and the flag is raised before the job is visible.
- `WorkInv`: between reading a job and moving `job_head_`, the job is still the
  head of the queue.
- `JoinInv`: after the joins the threads are done, so `start` finds no thread
  that still holds a slab.

The proof has a lemma per group of actions (`OwnStore`, `OwnBegin`, `OwnPublish`,
`OwnPop`, `OwnProcess`, `OwnRelease`, `OwnStart`...), frame lemmas for the steps that
touch neither flags nor jobs, and three facts about the circular queue
(`TailIsFree`, `PushBetween`, `PopBetween`).

**The window** (`ReceiverWindow`). First the arithmetic: equal remainders of numbers
less than the divisor apart are equal numbers (`RemainderUnique`), so the signed
difference of two sequence numbers is the distance of the packets when that is less
than half the space (`DiffIsDistance`), and two packets in one slot are a ring apart
(`SlotUnique`, which uses that the ring divides the sequence space). Then
`WindowInv`: next to the window itself it says that the newest packet is inside the
window, *unless* it is the datagram the head is being advanced for. Without this a
datagram `Outage` ahead of the newest could be any distance ahead of the head.
`UnopenedInv` says that a session before its first datagram is empty, `CountInv` that
`pending_` counts.

**The order** (`ReceiverOrder`). `OrderInv`: the last packet handed over, the packet in
the worker's hands and the packets of the queued jobs, from head to tail, increase
and lie behind the head of the window. Publishing appends the packet expected; a
slab that is overwritten belongs to none of those jobs, by ownership. Hence a
`ProcessJob` step is a `Deliver` of the channel, `HookRelease` its `Release`,
`Start` its `NewSession`, and every other step a stutter.

### The frame handler

For every set of packets, slabs and geometries, every cap, every threshold of the
escape hatch and any number of frames:

| Theorem | States | Condition |
|---|---|---|
| `FrameTypeCorrect` | `Spec => []TypeOK` | |
| `SlabsNeverLeak` | `Spec => []SlabsAccounted` | |
| `ConsumerInStep` | `Spec => []ConsumerAgrees` | |
| `WalksAreLatched` | `Spec => []WalkOnLatched` | |
| `OwnBodyStart` | `Spec => []BodyStart` | |
| `ParkedWalks` | `Spec => []ParkedInFlight` | |
| `HatchCountsExactly` | `Spec => []StreakExact` | |
| `IntactFramesAreWhole` | `Spec => []IntactMeansWhole` | |
| `FramesAreClosed` | `Spec => []EveryFrameEnds` | `WholeHeaders(Pkts)` |
| `DeliveryContract` | `Spec => ImplementsDelivery` (the refinement) | `WholeHeaders(Pkts)` |
| `CachesAreFresh` | `Spec => []CacheFresh` | `SupportedHeaders(Pkts)` |

`WholeHeaders`: no main header is split over packets (MH = 1) and no packet with the
marker bit carries a resync point. `SupportedHeaders`: what `geometry_signature`
accepts can be latched. Section 6 says what goes wrong without them. An assumption of
`MCFrameHandler` makes TLC evaluate both on the packets of `frame_contract`; the
packets of `frame_handler` satisfy neither.

The properties speak mostly of the handler between calls, so none is inductive: the
invariant has to say what holds at every place inside `pull_data`. `IInv` of
`FrameInvariants` is a conjunction with one part per subject:

- `SlabInv`: behind the cap check there is room for one more slab;
- `FlagInv`: a frame being opened has neither flag yet, only a frame in flight is
  walked, and its slabs are held until EOC;
- `TellInv`: while a frame is opened or walked the consumer has all of its bytes, and
  an abort can fire if and only if the consumer has an open frame;
- `DamageInv`: the flags tell the damage done to the open frame, which is a history
  variable;
- `StreakInv`, `SodInv`: the streak and the start of the body, at each place.

Each part has a lemma with one step per action. `ContractInv` adds, for whole headers,
that a frame the consumer sees is in flight; `CacheInv`, for supported headers, that a
structure is dropped only by a header that replaces it in the same call.

Both `IInv`s, and the window and order invariants, were checked by TLC under the
configurations of the passing runs before they were proved.

## 5. What is only model-checked

- *Liveness* (`QueuedIsProcessed`, `StopReturns`, `FrameReleased`): out of reach of the
  prover.
- *The parser* (`TileHandler`, `Latch`, `PacketHeader`): what the walk, the header
  readers and the bit reader compute is defined by recursion over the loops of the
  code, and what `Crp` is for every geometry would need induction, which the prover
  cannot do.
- *The composition* (`Pipeline`): its parts are proved apart, for the promises they
  make to each other; that they meet is checked on the instance.

## 6. Where the code and its comments differ

Each of these has a run in which TLC violates what the comment says, and an entry
under `findings` that quotes it.

| Run | The comment | The code |
|---|---|---|
| `frame_both` | a frame ends in ready or abort, "never both" | a walk that fails on the EOC packet aborts, then reports ready |
| `frame_stale_cache` | on mismatch the structure changes and "this callback fires" | not if the first re-parse fails and a later header is accepted |
| `tile_tail` | a read past the end makes the frame "marked truncated" | zeros are empty packets, the walk completes and succeeds |
| `latch_stale` | an invalidated stream "re-parses from scratch and re-create()s" its structure | levels the new stream lacks keep the old pointers, which `restart` follows into the rebuilt arena |

Also met while modelling, without a run of their own:

- A main header split over packets (MH = 1) on a stream that is not latched opens
  a frame for the consumer; its EOC packet takes the skip path with neither flag
  set, so neither callback fires (`frame_handler.hpp:342`). `EveryFrameEnds` is
  therefore checked with whole headers only.
- `net_lost_packets_` counts a slot-busy drop a second time when the head passes
  the hole. `rtp_receiver.hpp:78` says so; the top-level `README.md:94`
  ("Packets lost before the recv thread saw them") and the counter's own comment
  do not. `Accounting` states what does hold.
- `README.md:95` and `:118` give 4096 slots; the ring has 16384.
- The gap is accepted with the gap callback alone (`frame_handler.hpp:311`); line
  254 says both must be set. Line 103 says the walk stays live after an accepted
  gap; line 147 and the code park it.
- The slab cap counts a truncated frame but no total frame (`frame_handler.hpp:330`).
- The worker drains its queue so that ownership flags "don't leak"
  (`rtp_receiver.cpp:292`), but the recv thread can queue one more job after the
  worker has drained and gone; the flag stays set until the next `start`.
- `start` clears every `in_worker` flag, although `rtp_receiver.hpp:56` says that
  until `release_slab` "recv will not reuse the slot".
- `frame_ready` is told `intact` "iff ... no precinct parse failure occurred"
  (`frame_handler.hpp:230`); the flag is taken before `flush` (line 486).
- `flush` never resumes a failed walk: `parse` runs after every signal is queued and
  leaves none ahead of the cursor (`SignalsPoint`), so the recovery at
  `tile_handler.hpp:274` finds none. For the same reason, and because `parse` has
  already incremented `crp_idx`, "resume at the same precinct" (line 343) does not
  happen: no precinct is read twice in a frame (`WalkAdvances`).
- A header without DFS after a stream with one is built with the old DFS; a COC ahead
  of COD is overwritten by it; QCD must follow COD and DFS. `InScope` says which
  headers the parser is written for. Outside it, `parse_COC` reads two bytes past its
  segment when SIZ announces SSO.
- A stream latched from a header that `geometry_signature` refuses and
  `parse_main_header` accepts adopts the signature of the next header unverified.
- `j2k_packet.cpp:547` says a body that spans slabs is staged with `stackAlloc`;
  `type.hpp:239` says not to, and the code does not.
- In a MIXED stream, bytes announced for a block whose passes hold no cleanup pass
  are not counted in its length (`j2k_packet.cpp:395`), and a block of one byte of the
  original coder puts the second byte of Scup before the block (line 554);
  `ScupInside` is stated without HT_MIXED.
- The comment in `parse` says signals are popped in each iteration
  (`tile_handler.hpp:217`); lines 299 and following, and the code, say not.

## 7. What is not modelled, and why

- *Other code-block styles* in packet headers (`j2k_packet.cpp:467-500`, `514-533`):
  for HT styles the placeholder flag is on and they are not reached. SOP and EPH
  markers are not read by the build (`USE_SOP_EPH` is not defined).
- *Several code-blocks in a subband*: `parse_packet_header` treats them alike, one
  after the other. Every block has its own node of each tag tree, and no parent is
  read.
- *Subband and code-block coordinates* (`cb & ncbw` among them): computed and read by
  nothing in the repository.
- *The hash* of `geometry_signature`: two headers have one signature if their hashed
  segments are the same; collisions are left out. *More levels than MAX_DWT_LEVEL*:
  the parser does not check, and the model assumes fewer.
- *Other tiles*: `parse` and `flush` walk tile 0 only. *Components*: always three,
  as `prepare_precinct_structure` assumes; the check of `try_recover` for a stream
  without components (`tile_handler.hpp:333`) is therefore left out.
- *Assertions*: every target is built with `NDEBUG`. The one that says something of the
  input, that a level count refers to the DFS segment that was read
  (`tile_handler.hpp:186`), does not run, and `LevelsOf` takes the last DFS, as the
  code does.
- *Payloads shorter than their header*: the hook passes `payload_len - 8`
  (`main.cpp:244`) without looking at `payload_len`. A size of 0 is among the packets
  of `frame_handler`, `frame_contract` and `pipeline`, and the theorems allow it. A
  payload of fewer than eight bytes gives a size near 2^64, with which nothing can be
  said of the chain; every payload is assumed to have its eight bytes.
- *Chunks of fewer than two bytes*: `packetheader_flush_bits` at the end of the
  chain steps one byte over it, and a one-byte chunk appended next would leave the
  cursor behind that chunk's end. `get_byte` looks for the end of a chunk after it has
  read, so it does not find the end of an empty one.
- *Tiles that begin off the grid of the smallest precinct*: the position loops step
  from the tile's corner and would miss corners; `CrpExact` is checked for origins
  on that grid.
- *Lost main packets* in `TileHandler`: with an EOC packet and the next main packet
  both lost, the next frame's body would be appended to this chain. `FrameHandler`
  covers the bookkeeping of that case, not the bytes.
- *Numbering of precincts*: PIDs are numbered in the order of the walk, as the
  lookup table of `create` is; whether a sender numbers them so is not decided here.
- *Weak memory*, CPU pinning, socket options, option parsing, logging, statistics:
  outside.
- A sender that restarts with a lower sequence number, and a timer that would
  release the jitter window when packets stop: the code has neither, and the network
  assumption excludes the first.


----------------------------- MODULE TileHandler -----------------------------
(***************************************************************************)
(* tile_handler (tile_handler.hpp): the walk of a frame's precincts over   *)
(* the chain of its packets, gated by the resync points the packets signal *)
(* and recovered at them, as pull_data() drives it.                        *)
(*                                                                         *)
(* The sender's codestream is a main header of sod bytes followed by one   *)
(* packet per precinct; lens[k] is the length of the k-th.  It is cut into *)
(* RTP packets anywhere; one that holds the start of a precinct may signal *)
(* the first such start (ORDB, POS, PID).  Packets get lost without the    *)
(* handler being told: the chain then closes up over the gap.  Where the   *)
(* cursor is at the start of the whole precinct that the walk expects, the *)
(* packet header parses and the cursor moves behind the precinct; anywhere *)
(* else the parser may accept or refuse what it reads and stop anywhere.   *)
(***************************************************************************)
EXTENDS Codestream, PrecinctOrder

CONSTANTS
  Frames,      \* frames that are sent: [g, sod, lens]; lens = <<>>: header only
  Sizes,       \* bound: lengths of body packets
  SignalCap,   \* 16384: the length at which signal_queue is cleared
  MaxFrames    \* bound: frames sent

ASSUME FrameAssumption ==
  \A f \in Frames : /\ f.sod \in Nat \ {0}
                    /\ f.lens # <<>> /\ Supported(f.g)
                         => Len(f.lens) = Len(Crp(f.g))
                    /\ \A k \in DOMAIN f.lens : f.lens[k] \in Nat \ {0}
ASSUME SizeAssumption == Sizes \subseteq Nat \ {0, 1}
ASSUME CapAssumption == SignalCap \in Nat \ {0} /\ MaxFrames \in Nat

VARIABLES
  ready,          \* is a structure latched?
  latched,        \* the geometry it was built from, <<>> before the first
  crp,            \* tiles[0].crp
  crp_idx,        \* tiles[0].crp_idx
  signal_queue,   \* resync points of the frame: [byte_offset, pid]
  cs,             \* the chain and its cursor
  live,           \* is_passed_header of the frame handler, and no failure
  pc,             \* "idle", "parse", "flush", "end", "lost"
  \* the sender
  frame, sent, sending, frames,
  \* history, read by no guard
  lossy,          \* a packet of the frame was lost
  fired,          \* indices into crp for which the precinct callback fired
  snapped,        \* the last step of the walk was a recovery
  overrun         \* a precinct was parsed from past the end of the chain

treeVars == <<ready, latched, crp>>
sendVars == <<frame, sent, sending, frames>>
vars == <<treeVars, crp_idx, signal_queue, cs, live, pc, sendVars,
          lossy, fired, snapped, overrun>>

Init ==
  /\ ready = FALSE /\ latched = <<>> /\ crp = <<>> /\ crp_idx = 0
  /\ signal_queue = <<>> /\ cs = NoChain /\ live = FALSE /\ pc = "idle"
  /\ frame \in Frames /\ sent = 0 /\ sending = FALSE /\ frames = 0
  /\ lossy = FALSE /\ fired = {} /\ snapped = FALSE /\ overrun = FALSE

-----------------------------------------------------------------------------
(***************************************************************************)
(* What is sent.                                                           *)
(***************************************************************************)
\* Where precinct k (from 0) of frame f begins, counted from the main header
Start(f, k) ==
  LET at[i \in 0 .. k] == IF i = 0 THEN f.sod ELSE at[i - 1] + f.lens[i]
  IN at[k]

Length(f) == Start(f, Len(f.lens))

\* The precincts of component c in the order of the walk: crp_idx_by_pid_[c]
ByComponent(walk, c) ==
  SelectSeq([i \in 1 .. Len(walk) |-> i - 1], LAMBDA k : walk[k + 1].c = c)

\* PID = c + s * num_components for the s-th precinct of component c
PID(walk, k) ==
  LET c == walk[k + 1].c
  IN c + 3 * Cardinality({j \in 0 .. k - 1 : walk[j + 1].c = c})

\* The precincts that begin in the next n bytes
StartsIn(n) ==
  {k \in 0 .. Len(frame.lens) - 1 : Start(frame, k) \in sent .. sent + n - 1}

-----------------------------------------------------------------------------
(***************************************************************************)
(* Frame boundaries.                                                       *)
(***************************************************************************)
\* release_held_slabs() and restart()
Restart == signal_queue' = <<>> /\ crp_idx' = 0 /\ cs' = NoChain

\* A main packet arrives while the last frame is still open: what it does
\* first.  Only the rest of it (Send) can follow.
MissedEOC ==
  /\ pc = "idle" /\ ~sending /\ cs # NoChain /\ frames < MaxFrames
  /\ Restart
  /\ live' = FALSE /\ snapped' = FALSE
  /\ UNCHANGED <<treeVars, pc, sendVars, lossy, fired, overrun>>

\* A main packet with the complete header of f
Send(f) ==
  /\ pc = "idle" /\ ~sending /\ cs = NoChain /\ frames < MaxFrames
  /\ frame' = f /\ sent' = f.sod /\ frames' = frames + 1
  /\ sending' = (f.lens # <<>>)
  /\ lossy' = FALSE /\ fired' = {} /\ snapped' = FALSE /\ overrun' = FALSE
  /\ UNCHANGED <<signal_queue, pc>>

\* The latched structure is for this geometry: reset(start_SOD).
MainReuse(f) ==
  /\ Send(f)
  /\ ready /\ latched = f.g
  /\ cs' = Reset(AppendChunk(cs, f.sod, 0), f.sod)
  /\ live' = TRUE
  /\ UNCHANGED <<treeVars, crp_idx>>

\* The header is parsed and create() builds the structure.
MainLatch(f) ==
  /\ Send(f)
  /\ ~(ready /\ latched = f.g) /\ Supported(f.g)
  /\ cs' = Advance(Reset(AppendChunk(cs, f.sod, 0), 0), f.sod)
  /\ ready' = TRUE /\ latched' = f.g /\ crp' = Crp(f.g) /\ crp_idx' = 0
  /\ live' = TRUE

\* create() fails and leaves a tile with no walk.
MainRefused(f) ==
  /\ Send(f)
  /\ ~(ready /\ latched = f.g) /\ ~Supported(f.g)
  /\ cs' = Advance(Reset(AppendChunk(cs, f.sod, 0), 0), f.sod)
  /\ ready' = FALSE /\ latched' = f.g /\ crp' = <<>> /\ crp_idx' = 0
  /\ live' = FALSE

-----------------------------------------------------------------------------
(***************************************************************************)
(* Body packets.                                                           *)
(***************************************************************************)
\* append_signal()
AppendSignal(q, off, pid) ==
  Append(IF Len(q) >= SignalCap THEN <<>> ELSE q,
         [byte_offset |-> off, pid |-> pid])

\* Mutant of ResyncByte: taken after the chain has grown.
ResyncAfter(n, k) == Total(cs) + n + Start(frame, k) - sent

\* resync_byte: the length of the chain before this packet, plus POS
ResyncByte(n, k) == Total(cs) + Start(frame, k) - sent

\* The next n bytes of the frame leave the sender.
Cut(n) ==
  /\ pc = "idle" /\ sending
  /\ \/ sent + n = Length(frame)
     \/ \E m \in Sizes : sent + n + m <= Length(frame)
  /\ sent' = sent + n
  /\ UNCHANGED <<treeVars, crp_idx, frame, frames, fired, overrun>>

EOC == sent = Length(frame)

\* The packet is lost, and the handler is not told.
Lose(n) ==
  /\ Cut(n)
  /\ lossy' = TRUE /\ sending' = ~EOC'
  /\ UNCHANGED <<signal_queue, cs, live, pc, snapped>>

\* A packet of a live frame that signals nothing
BodyPlain(n) ==
  /\ Cut(n) /\ live
  /\ cs' = AppendChunk(cs, n, sent)
  /\ pc' = IF EOC' THEN "flush" ELSE "idle"
  /\ snapped' = FALSE
  /\ UNCHANGED <<signal_queue, live, sending, lossy>>

\* A packet of a live frame that signals the first precinct that begins in it
BodySignal(n) ==
  /\ Cut(n) /\ live /\ StartsIn(n) # {}
  /\ LET k == CHOOSE k \in StartsIn(n) : \A j \in StartsIn(n) : k <= j
     IN signal_queue' =
          AppendSignal(signal_queue, ResyncByte(n, k), PID(Crp(frame.g), k))
  /\ cs' = AppendChunk(cs, n, sent)
  /\ pc' = "parse" /\ snapped' = FALSE
  /\ UNCHANGED <<live, sending, lossy>>

\* A packet of a frame that has failed; its EOC restarts.
BodySkipped(n) ==
  /\ Cut(n) /\ ~live
  /\ IF EOC' THEN Restart /\ sending' = FALSE
             ELSE UNCHANGED <<signal_queue, cs, sending>>
  /\ UNCHANGED <<live, pc, lossy, snapped>>

-----------------------------------------------------------------------------
(***************************************************************************)
(* parse_one_precinct() and try_recover().                                 *)
(***************************************************************************)
\* Are the bytes at the cursor precinct k, whole?
Whole(k) ==
  LET at == GetPos(cs) IN
  /\ at + frame.lens[k + 1] <= Total(cs)
  /\ \A j \in 0 .. frame.lens[k + 1] - 1 :
       OriginOf(cs, at + j) = Start(frame, k) + j

\* parse_one_precinct() on a precinct that is there: the header is read byte
\* by byte, the code-block bodies are taken.
ReadWhole(k) == TakeContiguous(GetByte(cs), frame.lens[k + 1] - 1)

\* ... on any other bytes: at least one is read; packetheader_flush_bits() may
\* step over one more, also at the end of the chain.
ReadOther ==
  {Advance(GetByte(cs), d) : d \in 0 .. Total(cs) - GetPos(cs)}

\* The outcomes of parse_one_precinct() for precinct k.  Past the end of the
\* chain every bit is 0, which is an empty packet.
Outcomes(k) ==
  IF AtEnd(cs) THEN {[ok |-> TRUE, cs |-> cs]}
  ELSE IF Whole(k) THEN {[ok |-> TRUE, cs |-> ReadWhole(k)]}
  ELSE [ok : BOOLEAN, cs : ReadOther]

\* Signals at or before position p at the front of q are popped.
PopUntil(q, p) ==
  LET ahead == {i \in DOMAIN q : q[i].byte_offset > p}
  IN IF ahead = {} THEN <<>>
     ELSE SubSeq(q, CHOOSE i \in ahead : \A j \in ahead : i <= j, Len(q))

\* Mutant of Target: the precinct after the one that is signalled.
TargetNext(pid) ==
  LET s == ByComponent(crp, pid % 3)
  IN IF pid \div 3 + 1 < Len(s) THEN s[pid \div 3 + 2] ELSE -1

\* The index of the precinct that pid identifies, or -1.  nc is three: the
\* answer for nc = 0 is not needed.
Target(pid) ==
  LET s == ByComponent(crp, pid % 3)
  IN IF pid \div 3 < Len(s) THEN s[pid \div 3 + 1] ELSE -1

\* Mutant of Usable: a signal that leads back is followed.
UsableBack(q, idx) == q # <<>> /\ Target(Head(q).pid) # -1

\* Can the walk, at index idx, resume at the first signal of q?
Usable(q, idx) ==
  q # <<>> /\ Target(Head(q).pid) # -1 /\ Target(Head(q).pid) >= idx

\* try_recover() with the cursor c and the index idx, where a walk that cannot
\* be recovered ends with pc = fail
TryRecover(c, idx, fail) ==
  LET q == PopUntil(signal_queue, GetPos(c)) IN
  IF Usable(q, idx)
    THEN /\ cs' = Reset(c, Head(q).byte_offset)
         /\ crp_idx' = Target(Head(q).pid)
         /\ signal_queue' = Tail(q)
         /\ snapped' = TRUE
         /\ UNCHANGED <<live, pc>>
    ELSE /\ cs' = c /\ crp_idx' = idx /\ signal_queue' = q
         /\ live' = FALSE /\ pc' = fail /\ snapped' = FALSE

-----------------------------------------------------------------------------
(***************************************************************************)
(* parse() and flush(), one step per precinct.                             *)
(***************************************************************************)
\* Mutant of Bounded: the precinct at the last signal is walked too.
BoundedLate ==
  /\ signal_queue # <<>>
  /\ GetPos(cs) <= signal_queue[Len(signal_queue)].byte_offset

\* The gate of parse(): everything before the last signal is in the chain.
Bounded ==
  /\ signal_queue # <<>>
  /\ GetPos(cs) < signal_queue[Len(signal_queue)].byte_offset

\* The precinct callback
Fire(o) ==
  /\ cs' = o.cs /\ crp_idx' = crp_idx + 1
  /\ fired' = fired \cup {crp_idx}
  /\ overrun' = (overrun \/ AtEnd(cs))
  /\ snapped' = FALSE
  /\ UNCHANGED <<treeVars, signal_queue, live, pc, sendVars, lossy>>

ParseStop ==
  /\ pc = "parse" /\ ~Bounded
  /\ pc' = IF EOC THEN "flush" ELSE "idle"
  /\ UNCHANGED <<treeVars, crp_idx, signal_queue, cs, live, sendVars, lossy,
                 fired, snapped, overrun>>

ParseOne(o) ==
  /\ pc = "parse" /\ Bounded /\ crp_idx < Len(crp)
  /\ o.ok /\ Fire(o)

\* A failure: crp_idx has moved on before try_recover() looks at it.
ParseFailed(o) ==
  /\ pc = "parse" /\ Bounded /\ crp_idx < Len(crp)
  /\ ~o.ok
  /\ TryRecover(o.cs, crp_idx + 1, IF EOC THEN "end" ELSE "idle")
  /\ UNCHANGED <<treeVars, sendVars, lossy, fired, overrun>>

\* parse() does not compare crp_idx with the length of the walk: what it does
\* with an entry behind the last one is undefined.
ParseOffEnd ==
  /\ pc = "parse" /\ Bounded /\ crp_idx >= Len(crp)
  /\ pc' = "lost"
  /\ UNCHANGED <<treeVars, crp_idx, signal_queue, cs, live, sendVars, lossy,
                 fired, snapped, overrun>>

FlushOne(o) ==
  /\ pc = "flush" /\ crp_idx < Len(crp)
  /\ o.ok /\ Fire(o)

FlushFailed(o) ==
  /\ pc = "flush" /\ crp_idx < Len(crp)
  /\ ~o.ok
  /\ TryRecover(o.cs, crp_idx, "end")
  /\ UNCHANGED <<treeVars, sendVars, lossy, fired, overrun>>

FlushStop ==
  /\ pc = "flush" /\ crp_idx >= Len(crp)
  /\ pc' = "end"
  /\ UNCHANGED <<treeVars, crp_idx, signal_queue, cs, live, sendVars, lossy,
                 fired, snapped, overrun>>

\* The rest of EOC: the frame is handed over, the chain cleared, restart().
Finish ==
  /\ pc = "end"
  /\ Restart
  /\ live' = FALSE /\ sending' = FALSE /\ pc' = "idle" /\ snapped' = FALSE
  /\ UNCHANGED <<treeVars, frame, sent, frames, lossy, fired, overrun>>

-----------------------------------------------------------------------------
\* Nothing more is sent, or nothing more can be said.
Rest ==
  /\ pc = "lost" \/ (pc = "idle" /\ ~sending /\ frames = MaxFrames)
  /\ UNCHANGED vars

Walk ==
  \/ pc \in {"parse", "flush"} /\ crp_idx < Len(crp)
     /\ \E o \in Outcomes(crp_idx) :
          ParseOne(o) \/ ParseFailed(o) \/ FlushOne(o) \/ FlushFailed(o)
  \/ ParseStop \/ ParseOffEnd \/ FlushStop

Next ==
  \/ MissedEOC
  \/ \E f \in Frames : MainReuse(f) \/ MainLatch(f) \/ MainRefused(f)
  \/ \E n \in Sizes : Lose(n) \/ BodyPlain(n) \/ BodySignal(n) \/ BodySkipped(n)
  \/ Walk \/ Finish \/ Rest

Spec == Init /\ [][Next]_vars

-----------------------------------------------------------------------------
(***************************************************************************)
(* Properties.                                                             *)
(***************************************************************************)
\* The cursor of the chain stays where a reader of one contiguous buffer would
\* be, whatever the walk, the recoveries and the arriving chunks do.
CursorExact == CursorOK(cs)

\* create() lists every precinct it allocated once, in the progression order.
CrpExact == ready => InProgressionOrder(latched, crp)

\* As long as no packet of a frame is lost, however it is cut into packets and
\* whatever is signalled, the walk neither fails nor reads a precinct that is
\* not all there nor leaves the structure, and at EOC it has reported every
\* precinct once.
LosslessWalk ==
  sending /\ ~lossy /\ Supported(frame.g) =>
    /\ live /\ pc # "lost"
    /\ GetPos(cs) = Start(frame, crp_idx)
    /\ fired = 0 .. crp_idx - 1
    /\ pc = "end" => crp_idx = Len(crp)

\* After a recovery the walk is back in step, although packets were lost: the
\* byte at the cursor is the first of the precinct it expects next.
RecoverySound ==
  snapped /\ pc \in {"parse", "flush"} =>
    OriginOf(cs, GetPos(cs)) = Start(frame, crp_idx)

\* Within a frame the walk only moves forward, in the codestream and in the
\* structure: precincts are reported in order, and none is read twice, not even
\* after a failure, so that its tag trees and lengths are those restart() left.
WalkAdvances ==
  [][(pc \in {"parse", "flush"} /\ pc' = pc)
       => /\ crp_idx' > crp_idx /\ GetPos(cs') >= GetPos(cs)
          /\ (\A k \in fired' \ fired, j \in fired : j < k)]_vars

\* The signal queue is within its cap; signals are in byte order, point into the
\* chain, and each at the precinct its PID identifies.  flush() begins where none
\* is ahead, parse() having been called for each of them: the recovery of
\* flush() has nothing to resume at.
SignalsPoint ==
  /\ Len(signal_queue) <= SignalCap
  /\ \A i \in DOMAIN signal_queue :
       /\ signal_queue[i].byte_offset < Total(cs)
       /\ Target(signal_queue[i].pid) # -1
       /\ OriginOf(cs, signal_queue[i].byte_offset)
            = Start(frame, Target(signal_queue[i].pid))
       /\ i > 1 => signal_queue[i - 1].byte_offset < signal_queue[i].byte_offset
       /\ pc = "flush" => signal_queue[i].byte_offset <= GetPos(cs)

-----------------------------------------------------------------------------
(***************************************************************************)
(* A claim of a comment.                                                   *)
(***************************************************************************)
\* A frame whose walk ran past the end of the chain is marked truncated.
OverrunIsTruncated == pc = "end" /\ overrun => ~live
=============================================================================

----------------------------- MODULE PacketHeader -----------------------------
(***************************************************************************)
(* read_packet() and parse_packet_header() (j2k_packet.cpp) on the bit     *)
(* reader of class codestream (type.hpp), for code-blocks of the HT coder: *)
(* what a packet says of the code-block of each subband, over frames that  *)
(* arrive in chunks and may lose some.                                     *)
(*                                                                         *)
(* A packet as the sender means it has, for every subband, no block or a   *)
(* record: kind ("ht"; "plain", a block of the original coder in a MIXED   *)
(* stream; "hold", placeholder passes without bytes), zbp, the number n of *)
(* passes, the increment inc of lblock, and the bytes len0 and len1 of the *)
(* two segments.  A precinct has one code-block in a subband, so that a    *)
(* tag tree is one node: the code reads no other node of a tree.           *)
(***************************************************************************)
EXTENDS Codestream, FiniteSets

CONSTANTS
  W,            \* bits of a byte (8 in the code)
  NBands,       \* subbands of a precinct
  NPrec,        \* precincts of a frame
  Packets,      \* the packets of streams without and with HT_MIXED
  Fills,        \* values of the bytes of code-blocks
  Sizes,        \* sizes of chunks
  MaxFrames, MaxChunks, MaxLost,   \* bounds: frames, chunks and losses of one
  MaxPasses,    \* JPEG2000_MAX_PASSES
  MaxBits       \* of a length

ASSUME WidthAssumption == W \in Nat \ {0, 1}
ASSUME SizeAssumption == Sizes \subseteq Nat \ {0}

VARIABLES
  mixed,        \* HT_MIXED is set in the code-block style of the stream
  pc,           \* "idle", "walk", "stuck"
  meant, data, start,       \* the frame, its bytes, where its packets begin
  arrived, lost,            \* bytes the network is done with, chunks lost
  cs, idx,      \* the chain and the next precinct
  blks,         \* the code-blocks of all precincts
  frames,
  log           \* history: how each precinct was read

Bands == 1 .. NBands
Precs == 1 .. NPrec
Ones  == 2 ^ W - 1
None  == [kind |-> "none"]
Log2(n) == CHOOSE k \in 0 .. n : 2 ^ k <= n /\ n < 2 ^ (k + 1)

\* The passes of the first segment, up to and with the cleanup pass, if z passes
\* were read before
FirstPasses(z, n) == n - ((z + n - 1) % 3)

-----------------------------------------------------------------------------
(***************************************************************************)
(* The sender.                                                             *)
(***************************************************************************)
Bin(v, n) == [i \in 1 .. n |-> (v \div 2 ^ (n - i)) % 2]
Rep(v, n) == [i \in 1 .. n |-> v]

PassCode(n) ==
  CASE n <= 2  -> Rep(1, n - 1) \o <<0>>
    [] n \in 3 .. 5   -> <<1, 1>> \o Bin(n - 3, 2)
    [] n \in 6 .. 36  -> Rep(1, 4) \o Bin(n - 6, 5)
    [] OTHER   -> Rep(1, 9) \o Bin(n - 37, 7)

Lengths(x) ==
  LET lblock == 3 + x.inc
      seg    == FirstPasses(0, x.n)
  IN IF x.kind # "ht" THEN Bin(x.len0, lblock + Log2(x.n))
     ELSE Bin(x.len0, lblock + Log2(seg))
            \o (IF seg = x.n THEN <<>> ELSE Bin(x.len1, lblock + Log2(x.n - seg)))

BlockBits(x) ==
  IF x = None THEN <<0>>
  ELSE <<1>> \o Rep(0, x.zbp) \o <<1>> \o PassCode(x.n)
         \o Rep(1, x.inc) \o <<0>> \o Lengths(x)

\* Bits to bytes: behind a byte of ones the next one begins with a 0, also if
\* no bit is left for it.
RECURSIVE Pack(_, _)
Pack(bits, room) ==
  IF bits = <<>> /\ room = W THEN <<>>
  ELSE LET m    == IF Len(bits) < room THEN Len(bits) ELSE room
           word == SubSeq(bits, 1, m) \o Rep(0, room - m)
           byte[i \in 0 .. room] == IF i = 0 THEN 0 ELSE 2 * byte[i - 1] + word[i]
       IN <<byte[room]>> \o Pack(SubSeq(bits, m + 1, Len(bits)),
                                 IF byte[room] = Ones THEN W - 1 ELSE W)

BytesOf(x) == IF x = None THEN 0 ELSE x.len0 + x.len1

BodyBefore(p, b) ==
  LET sum[k \in 0 .. NBands] == IF k = 0 THEN 0 ELSE sum[k - 1] + BytesOf(p[k])
  IN sum[b - 1]

HeaderOf(p) ==
  LET all[b \in 0 .. NBands] == IF b = 0 THEN <<1>> ELSE all[b - 1] \o BlockBits(p[b])
  IN Pack(IF p = <<>> THEN <<0>> ELSE all[NBands], W)

Encode(p, fill) ==
  HeaderOf(p) \o (IF p = <<>> THEN <<>> ELSE Rep(fill, BodyBefore(p, NBands + 1)))

-----------------------------------------------------------------------------
(***************************************************************************)
(* The bit reader: r has the chain, tmp, bits and the value read last.     *)
(***************************************************************************)
ByteAt(d, c) ==
  IF AtEnd(c) THEN 0 ELSE d[c.chunks[c.cur_chunk + 1].org + c.cur_offset + 1]

\* Mutant of GetBit: a byte of ones is followed by a whole one.
GetBitUnstuffed(d, r) ==
  LET fresh == r.bits = 0
      left  == IF fresh THEN W ELSE r.bits
      byte  == IF fresh THEN ByteAt(d, r.cs) ELSE r.tmp
  IN [cs |-> IF fresh THEN GetByte(r.cs) ELSE r.cs, tmp |-> byte,
      bits |-> left - 1, val |-> (byte \div 2 ^ (left - 1)) % 2]

\* get_bit()
GetBit(d, r) ==
  LET fresh == r.bits = 0
      left  == IF ~fresh THEN r.bits ELSE IF r.tmp = Ones THEN W - 1 ELSE W
      byte  == IF fresh THEN ByteAt(d, r.cs) ELSE r.tmp
  IN [cs |-> IF fresh THEN GetByte(r.cs) ELSE r.cs, tmp |-> byte,
      bits |-> left - 1, val |-> (byte \div 2 ^ (left - 1)) % 2]

\* q, with its bit behind those of r.val
Behind(r, q) == [q EXCEPT !.val = 2 * r.val + @]

\* n more bits behind those of r.val
RECURSIVE Extend(_, _, _)
Extend(d, r, n) == IF n = 0 THEN r ELSE Extend(d, Behind(r, GetBit(d, r)), n - 1)

\* packetheader_get_bits()
GetBits(d, r, n) == Extend(d, [r EXCEPT !.val = 0], n)

\* Mutant of FlushBits: the byte behind the stuffed one is skipped too.
FlushWord(r) ==
  [r EXCEPT !.cs = IF r.tmp = Ones THEN Advance(@, 2) ELSE @, !.tmp = 0, !.bits = 0]

\* packetheader_flush_bits()
FlushBits(r) ==
  [r EXCEPT !.cs = IF r.tmp = Ones THEN Advance(@, 1) ELSE @, !.tmp = 0, !.bits = 0]

\* As many of the following bits as differ from `last' are added to val, of which
\* there is no more than max; q is r with the next bit read.
RECURSIVE Count(_, _, _, _, _)
Count(d, val, q, last, max) ==
  IF q.val = last THEN [q EXCEPT !.val = val]
  ELSE IF val + 1 = max THEN [q EXCEPT !.val = max]
  ELSE Count(d, val + 1, GetBit(d, q), last, max)

\* tag_tree_decode(), of a node with the value val
TagTreeDecode(d, r, val, threshold) ==
  IF val >= threshold THEN [r EXCEPT !.val = val]
                      ELSE Count(d, val, GetBit(d, r), 1, threshold)

\* getlblockinc(), which ends at the end of the chain if not before
GetLblockInc(d, r) == Count(d, 0, GetBit(d, r), 0, -1)

\* The number of passes, with n more bits if it is at least `least'
More(d, r, least, n) ==
  IF r.val < least THEN r ELSE [GetBits(d, r, n) EXCEPT !.val = r.val + @]

NewPasses(d, r) ==
  More(d, More(d, More(d, More(d, More(d, [r EXCEPT !.val = 1], 1, 1), 2, 1), 3, 2),
               6, 5), 37, 7)

-----------------------------------------------------------------------------
(***************************************************************************)
(* parse_packet_header().                                                  *)
(***************************************************************************)
\* A code-block: incl and zbp are its nodes of the two tag trees, and at is where
\* data points to.
Blank == [incl |-> 0, zbp |-> 0, npasses |-> 0, len0 |-> 0, len1 |-> 0, at |-> -1]

\* After a step of the parser: the reader, the block, and is it to go on?
Failed(r, b) == [r |-> r, b |-> b, ok |-> FALSE]
Parsed(r, b) == [r |-> r, b |-> b, ok |-> TRUE]

\* The one segment of a block without a cleanup pass of the HT coder: no bytes,
\* or a block of the original coder, whose bytes count only if `kept'
OneSegment(q, b, n, kept) ==
  IF q.val > 0 /\ ~mixed THEN Failed(q, b)
  ELSE Parsed(q, [b EXCEPT !.npasses = @ + n,
                           !.len0 = IF q.val > 0 /\ kept THEN q.val ELSE @])

\* The segment of the refinement passes, at most two
Refined(q, b, n) ==
  Parsed(q, [b EXCEPT !.npasses = @ + n, !.len1 = @ + q.val])

\* Mutant of FirstSegment: one byte will do for an HT block.
FirstSegmentAny(d, q, b, n, lblock, width) ==
  LET seg == FirstPasses(b.npasses, n)
  IN IF seg < 1 THEN OneSegment(q, b, n, FALSE)
     ELSE IF q.val > 0
     THEN Refined(IF seg = n THEN [q EXCEPT !.val = 0]
                             ELSE GetBits(d, q, lblock + Log2(n - seg)),
                  [b EXCEPT !.len0 = q.val], n)
     ELSE OneSegment(Extend(d, q, Log2(n) - Log2(seg)), b, n, TRUE)

\* q.val is the length of the first segment, read with `width' bits.  If it is
\* none of an HT block it is read on as that of a single segment.
FirstSegment(d, q, b, n, lblock, width) ==
  LET seg == FirstPasses(b.npasses, n)
      ht  == IF mixed THEN lblock > 3 /\ q.val > 1 /\ q.val < 2 ^ (width - 1)
                      ELSE q.val > 1
  IN IF seg < 1 THEN OneSegment(q, b, n, FALSE)
     ELSE IF ht
     THEN Refined(IF seg = n THEN [q EXCEPT !.val = 0]
                             ELSE GetBits(d, q, lblock + Log2(n - seg)),
                  [b EXCEPT !.len0 = q.val], n)
     ELSE IF q.val > 0 /\ ~mixed THEN Failed(q, b)
     ELSE OneSegment(Extend(d, q, Log2(n) - Log2(seg)), b, n, TRUE)

Segments(d, r, b, n, lblock) ==
  LET seg   == FirstPasses(b.npasses, n)
      width == lblock + Log2(IF seg < 1 THEN n ELSE seg)
  IN FirstSegment(d, GetBits(d, r, width), b, n, lblock, width)

\* r.val is what getlblockinc() found, n the number of new passes.
Lblock(d, r, b, n) ==
  IF 3 + r.val + Log2(n) > MaxBits THEN Failed(r, b)
  ELSE Segments(d, r, b, n, 3 + r.val)

\* r.val is the number of new passes.
Passes(d, r, b) ==
  IF b.npasses + r.val >= MaxPasses THEN Failed(r, b)
  ELSE Lblock(d, GetLblockInc(d, r), b, r.val)

\* r.val is the new value of the node of zbp.
Included(d, r, b) == Passes(d, NewPasses(d, r), [b EXCEPT !.zbp = r.val])

\* r.val is the new value of the node of incl.
Inclusion(d, r, b) ==
  IF r.val # 0 THEN Parsed(r, b)
  ELSE Included(d, TagTreeDecode(d, r, b.zbp, 14), b)

ReadBlock(d, r, b) ==
  LET q == TagTreeDecode(d, r, b.incl, 1) IN Inclusion(d, q, [b EXCEPT !.incl = q.val])

\* The blocks of the subbands from k on
With(y, x, k) == [r |-> x.r, ok |-> x.ok, bs |-> [y.bs EXCEPT ![k] = x.b]]

RECURSIVE ReadBlocks(_, _, _)
ReadBlocks(d, y, k) ==
  IF k > NBands \/ ~y.ok THEN y
  ELSE ReadBlocks(d, With(y, ReadBlock(d, y.r, y.bs[k]), k), k + 1)

RECURSIVE TakeBodies(_, _, _)
TakeBodies(c, bs, k) ==
  IF k > NBands THEN [cs |-> c, bs |-> bs, ok |-> TRUE]
  ELSE TakeBodies(TakeContiguous(c, bs[k].len0 + bs[k].len1),
                  [bs EXCEPT ![k].at = IF AtEnd(c) THEN -1
                     ELSE c.chunks[c.cur_chunk + 1].org + c.cur_offset], k + 1)

Bodies(y) ==
  IF y.ok THEN TakeBodies(FlushBits(y.r).cs, y.bs, 1)
          ELSE [cs |-> y.r.cs, bs |-> y.bs, ok |-> FALSE]

NotEmpty(d, r, bs) ==
  IF r.val = 0 THEN [cs |-> FlushBits(r).cs, bs |-> bs, ok |-> TRUE]
  ELSE Bodies(ReadBlocks(d, [r |-> r, bs |-> bs, ok |-> TRUE], 1))

\* read_packet().  The bit reader is reset by whatever precedes a packet: a flush,
\* reset() or clear().
ReadPacket(d, c, bs) ==
  NotEmpty(d, GetBit(d, [cs |-> c, tmp |-> 0, bits |-> 0, val |-> 0]), bs)

-----------------------------------------------------------------------------
(***************************************************************************)
(* Frames.                                                                 *)
(***************************************************************************)
netVars == <<mixed, meant, data, start>>
vars == <<netVars, pc, arrived, lost, cs, idx, blks, frames, log>>

NotRead == [read |-> FALSE, whole |-> FALSE, ok |-> FALSE, n |-> 0]
EOC == <<Ones, 0>>

Init ==
  /\ mixed \in BOOLEAN
  /\ pc = "idle" /\ meant = <<>> /\ data = <<>> /\ start = <<>>
  /\ arrived = 0 /\ lost = 0 /\ cs = NoChain /\ idx = 1 /\ frames = 0
  /\ blks = [k \in Precs |-> [b \in Bands |-> Blank]]
  /\ log = [k \in Precs |-> NotRead]

Open(ps, fill) ==
  LET bytes[k \in 0 .. NPrec] == IF k = 0 THEN <<>>
                                 ELSE bytes[k - 1] \o Encode(ps[k], fill)
  IN /\ pc = "idle" /\ frames < MaxFrames
     /\ pc' = "walk" /\ frames' = frames + 1
     /\ meant' = ps /\ data' = bytes[NPrec] \o EOC
     /\ start' = [k \in 1 .. NPrec + 1 |-> Len(bytes[k - 1])]
     /\ UNCHANGED <<mixed, arrived, lost, cs, idx, blks, log>>

\* A chunk of n bytes, or of all there are; the last has at least the two of EOC.
Cut(n) ==
  /\ pc = "walk" /\ n > 0
  /\ \/ arrived + n = Len(data)
     \/ n \in Sizes /\ arrived + n <= Len(data) - 2
        /\ lost + Len(cs.chunks) < MaxChunks
  /\ arrived' = arrived + n

Arrive(n) ==
  /\ Cut(n) /\ cs' = AppendChunk(cs, n, arrived)
  /\ UNCHANGED <<netVars, pc, lost, idx, blks, frames, log>>

Lose(n) ==
  /\ Cut(n) /\ lost < MaxLost /\ lost' = lost + 1
  /\ UNCHANGED <<netVars, pc, cs, idx, blks, frames, log>>

\* The packet of precinct k lies at position p of the chain, all of it.
WholeAt(k, p) ==
  LET n == start[k + 1] - start[k]
  IN /\ p + n <= Total(cs) /\ OriginOf(cs, p) = start[k]
     /\ OriginOf(cs, p + n - 1) = start[k + 1] - 1

After(x, whole) ==
  /\ cs' = x.cs /\ blks' = [blks EXCEPT ![idx] = x.bs]
  /\ log' = [log EXCEPT ![idx] = [read |-> TRUE, whole |-> whole, ok |-> x.ok,
                                  n |-> GetPos(x.cs) - GetPos(cs)]]
  /\ idx' = idx + 1 /\ pc' = IF x.ok THEN "walk" ELSE "stuck"

\* The walk does not get ahead of what has arrived, unless it was led astray.
Read ==
  /\ pc = "walk" /\ idx <= NPrec
  /\ lost > 0 \/ WholeAt(idx, GetPos(cs))
  /\ After(ReadPacket(data, cs, blks[idx]), WholeAt(idx, GetPos(cs)))
  /\ UNCHANGED <<netVars, arrived, lost, frames>>

\* try_recover(), after a failure in parse(): to a signalled position further on,
\* the start of a later precinct.  flush() has none (SignalsPoint in
\* TileHandler), so no precinct is read twice.
Recover(k, p) ==
  /\ pc = "stuck" /\ k >= idx /\ p > GetPos(cs)
  /\ OriginOf(cs, p) = start[k]
  /\ cs' = Reset(cs, p) /\ idx' = k /\ pc' = "walk"
  /\ UNCHANGED <<netVars, arrived, lost, blks, frames, log>>

\* Mutant of Cleared: the bytes of refinement passes stay.
ClearedHalf(b) ==
  [b EXCEPT !.incl = 0, !.zbp = 0, !.npasses = 0, !.len0 = 0, !.at = -1]

\* restart(): data stays, but points to nothing any more.
Cleared(b) ==
  [b EXCEPT !.incl = 0, !.zbp = 0, !.npasses = 0, !.len0 = 0, !.len1 = 0,
            !.at = -1]

\* The frame ends, in one way or another.
Restart ==
  /\ pc # "idle" /\ pc' = "idle"
  /\ arrived' = 0 /\ lost' = 0 /\ cs' = NoChain /\ idx' = 1
  /\ blks' = [k \in Precs |-> [b \in Bands |-> Cleared(blks[k][b])]]
  /\ log' = [k \in Precs |-> NotRead]
  /\ meant' = <<>> /\ data' = <<>> /\ start' = <<>>
  /\ UNCHANGED <<mixed, frames>>

\* No more frames
Rest == pc = "idle" /\ frames = MaxFrames /\ UNCHANGED vars

Next ==
  \/ \E ps \in [Precs -> Packets[mixed]], fill \in Fills : Open(ps, fill)
  \/ \E n \in Sizes \cup {Len(data) - arrived} : Arrive(n) \/ Lose(n)
  \/ Read
  \/ \E k \in Precs, p \in 0 .. Total(cs) - 1 : Recover(k, p)
  \/ Restart \/ Rest

Spec == Init /\ [][Next]_vars

-----------------------------------------------------------------------------
(***************************************************************************)
(* Properties.                                                             *)
(***************************************************************************)
\* What the sender put into the packet of precinct k was read, and no byte more.
ReadAsMeant(k) ==
  /\ log[k].ok /\ log[k].n = start[k + 1] - start[k]
  /\ \A b \in Bands :
       LET x == IF meant[k] = <<>> THEN None ELSE meant[k][b]
           y == blks[k][b]
       IN IF x = None THEN y.npasses = 0 /\ y.len0 = 0 /\ y.len1 = 0
          ELSE /\ y.zbp = x.zbp /\ y.npasses = x.n
               /\ y.len0 = x.len0 /\ y.len1 = x.len1
               /\ BytesOf(x) > 0 =>
                    y.at = start[k + 1] - BodyBefore(meant[k], NBands + 1)
                                        + BodyBefore(meant[k], b)

\* However it is cut into chunks, whatever the precinct held in the last frame and
\* whatever was misread before it, a packet that is all there is read for what
\* it says: passes, lengths, the place of every code-block, and its own end.
RoundTrip == \A k \in Precs : log[k].whole => ReadAsMeant(k)

\* Scup is read from the last two bytes of the first segment of every block that
\* has bytes: without HT_MIXED there are two, whatever was misread.
ScupInside ==
  ~mixed => \A k \in Precs, b \in Bands :
              blks[k][b].len0 + blks[k][b].len1 > 0 => blks[k][b].len0 >= 2

\* No block of a precinct that was not read in this frame has bytes: its data
\* points into slabs that were given back.
NoStaleBytes ==
  \A k \in Precs : ~log[k].read =>
    \A b \in Bands : blks[k][b].len0 + blks[k][b].len1 = 0

\* A flush at the very end of the chain moves the cursor past it; with the next
\* chunk, of two bytes or more, it points at a byte again.
FlushSafe == CursorOK(cs)

=============================================================================

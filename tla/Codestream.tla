------------------------------ MODULE Codestream ------------------------------
(***************************************************************************)
(* class codestream (type.hpp): a reader over a chain of chunks, one per   *)
(* RTP packet, that are never copied together.                             *)
(*                                                                         *)
(* A chain is a record with the chunks and the cursor: cur_chunk counts    *)
(* from 0, cur_offset is relative to that chunk, and consumed is           *)
(* consumed_before_cur_chunk_.  A chunk is its length and org, the offset  *)
(* in the sender's codestream of its first byte, which stands for its      *)
(* bytes.  The bit reader is used within one packet header only; it is     *)
(* modelled, with the bits it reads, in PacketHeader.                      *)
(***************************************************************************)
EXTENDS Integers, Sequences

\* clear()
NoChain == [chunks |-> <<>>, cur_chunk |-> 0, cur_offset |-> 0, consumed |-> 0]

\* append_chunk()
AppendChunk(cs, len, org) ==
  [cs EXCEPT !.chunks = Append(@, [len |-> len, org |-> org])]

\* The length of the first k chunks
Prefix(cs, k) ==
  LET sum[i \in 0 .. k] == IF i = 0 THEN 0 ELSE sum[i - 1] + cs.chunks[i].len
  IN sum[k]

Total(cs) == Prefix(cs, Len(cs.chunks))

\* get_pos()
GetPos(cs) == cs.consumed + cs.cur_offset

AtEnd(cs) == cs.cur_chunk >= Len(cs.chunks)

\* advance(): to the first chunk from the current one on that holds the byte,
\* or past the last one.
Advance(cs, n) ==
  LET base == Prefix(cs, cs.cur_chunk)
      rel  == cs.cur_offset + n
      k    == CHOOSE k \in cs.cur_chunk .. Len(cs.chunks) :
                /\ rel >= Prefix(cs, k) - base
                /\ k < Len(cs.chunks) => rel < Prefix(cs, k + 1) - base
      gone == Prefix(cs, k) - base
  IN [cs EXCEPT !.cur_chunk = k, !.cur_offset = rel - gone,
                !.consumed = @ + gone]

\* reset()
Reset(cs, p) ==
  Advance([cs EXCEPT !.cur_chunk = 0, !.cur_offset = 0, !.consumed = 0], p)

\* Mutant of GetByte: the cursor stays behind the last byte of a chunk.
GetByteStays(cs) ==
  IF AtEnd(cs) THEN cs ELSE [cs EXCEPT !.cur_offset = @ + 1]

\* get_byte(): past the end of the chain it returns 0 and does not move.
GetByte(cs) ==
  IF AtEnd(cs) THEN cs
  ELSE IF cs.cur_offset + 1 = cs.chunks[cs.cur_chunk + 1].len
  THEN [cs EXCEPT !.consumed = @ + cs.chunks[cs.cur_chunk + 1].len,
                  !.cur_chunk = @ + 1, !.cur_offset = 0]
  ELSE [cs EXCEPT !.cur_offset = @ + 1]

\* take_contiguous(): len bytes, in place or copied together, or as many as
\* there are
TakeContiguous(cs, len) ==
  IF AtEnd(cs) \/ len = 0 THEN cs
  ELSE IF GetPos(cs) + len <= Total(cs) THEN Advance(cs, len)
  ELSE Advance(cs, Total(cs) - GetPos(cs))

\* The offset in the sender's codestream of the byte at position p
OriginOf(cs, p) ==
  LET at == Reset(cs, p)
  IN cs.chunks[at.cur_chunk + 1].org + at.cur_offset

\* The cursor is where a reader of one contiguous buffer would be, and points
\* at a byte of its chunk unless it is past the end.
CursorOK(cs) ==
  /\ cs.cur_chunk \in 0 .. Len(cs.chunks)
  /\ cs.consumed = Prefix(cs, cs.cur_chunk)
  /\ ~AtEnd(cs) => cs.cur_offset < cs.chunks[cs.cur_chunk + 1].len
=============================================================================

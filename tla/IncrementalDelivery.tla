-------------------------- MODULE IncrementalDelivery --------------------------
(***************************************************************************)
(* The contract of frame_handler with an incremental consumer, as the      *)
(* comment at the top of frame_handler.hpp states it: the bytes of a frame *)
(* arrive in contiguous chunks from offset 0, and the frame ends in either *)
(* one frame_ready or one frame_abort, before the next frame begins.       *)
(***************************************************************************)
EXTENDS Integers

CONSTANT Sizes     \* chunk lengths

VARIABLES phase,   \* what the consumer knows of the current frame
          off      \* bytes of it that were delivered

delivery == <<phase, off>>

Init == phase = "none" /\ off = 0

FirstChunk(n) == phase # "open" /\ phase' = "open" /\ off' = n

NextChunk(n) == phase = "open" /\ off' = off + n /\ UNCHANGED phase

Ready == phase = "open" /\ phase' = "done" /\ UNCHANGED off

Abort == phase = "open" /\ phase' = "dead" /\ UNCHANGED off

Next == (\E n \in Sizes : FirstChunk(n) \/ NextChunk(n)) \/ Ready \/ Abort

Spec == Init /\ [][Next]_delivery
=============================================================================

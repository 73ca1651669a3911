---------------------------- MODULE MCPacketHeader ----------------------------
(***************************************************************************)
(* Packets for PacketHeader.                                               *)
(***************************************************************************)
EXTENDS PacketHeader

Block(kind, zbp, n, inc, len0, len1) ==
  [kind |-> kind, zbp |-> zbp, n |-> n, inc |-> inc, len0 |-> len0, len1 |-> len1]

Short  == Block("ht", 0, 1, 0, 2, 0)
Long   == Block("ht", 2, 1, 0, 7, 0)
Empty2 == Block("ht", 1, 2, 0, 3, 0)      \* a refinement pass without bytes
Three  == Block("ht", 0, 3, 1, 2, 15)
Late   == Block("ht", 0, 6, 0, 2, 3)      \* three placeholder passes come first
Full   == Block("ht", 0, 1, 1, 15, 0)     \* ends a header with ones
Many   == Block("ht", 0, 40, 0, 9, 0)
Hold   == Block("hold", 3, 3, 0, 0, 0)

HTMixed == Block("ht", 0, 3, 1, 7, 3)
Plain1  == Block("plain", 0, 1, 0, 5, 0)
Plain4  == Block("plain", 1, 4, 0, 9, 0)

Skipped == {<<>>, <<None, None, None>>}

PacketsMC ==
  [m \in BOOLEAN |-> Skipped \cup
     IF m THEN {<<HTMixed, None, Plain1>>, <<Plain4, Plain1, None>>}
          ELSE {<<Short, None, Many>>, <<Short, Long, Short>>, <<None, None, Full>>,
                <<Hold, Three, Long>>, <<None, Late, Empty2>>}]
=============================================================================

---------------------------- MODULE MCTileHandler ----------------------------
(***************************************************************************)
(* Small streams for TileHandler.                                          *)
(***************************************************************************)
EXTENDS TileHandler

One == [x |-> 1, y |-> 1]
Two == [x |-> 2, y |-> 2]
Each(v0, v1, v2) == [c \in 0 .. 2 |-> IF c = 0 THEN v0 ELSE IF c = 1 THEN v1 ELSE v2]
Res1(a) == [r \in 0 .. 0 |-> a]
Res2(a, b) == [r \in 0 .. 1 |-> IF r = 0 THEN a ELSE b]
Depth == [l \in 0 .. 1 |-> l]
Flat == [l \in 0 .. 1 |-> 0]

\* 4:2:0, one level for luma: five precincts
Small(po) ==
  [PO |-> po, x0 |-> 0, x1 |-> 4, y0 |-> 0, y1 |-> 2,
   sub |-> Each(One, Two, Two), NL |-> Each(1, 0, 0),
   prw |-> Each(Res2(1, 1), Res1(1), Res1(1)),
   prh |-> Each(Res2(1, 1), Res1(1), Res1(1)), hor |-> Depth, ver |-> Depth]

\* A tile that does not begin at a precinct boundary
Offset(po) ==
  [PO |-> po, x0 |-> 2, x1 |-> 9, y0 |-> 2, y1 |-> 7,
   sub |-> Each(One, One, Two), NL |-> Each(1, 1, 0),
   prw |-> Each(Res2(1, 2), Res2(2, 1), Res1(1)),
   prh |-> Each(Res2(1, 2), Res2(1, 1), Res1(2)), hor |-> Depth, ver |-> Depth]

\* Horizontal splits only
Wide(po) ==
  [PO |-> po, x0 |-> 0, x1 |-> 8, y0 |-> 0, y1 |-> 4,
   sub |-> Each(One, Two, Two), NL |-> Each(1, 1, 1),
   prw |-> Each(Res2(1, 1), Res2(1, 1), Res2(0, 1)),
   prh |-> Each(Res2(1, 1), Res2(1, 1), Res2(1, 1)), hor |-> Depth, ver |-> Flat]

Header(g) == [g |-> g, sod |-> 1, lens |-> <<>>]
Orders == {"PCRL", "PRCL"}

FramesMC ==
  {[g |-> Small("PCRL"), sod |-> 2, lens |-> <<1, 6, 1, 1, 2>>],
   [g |-> Small("PCRL"), sod |-> 3, lens |-> <<1, 2, 1, 3, 1>>],
   [g |-> Small("PRCL"), sod |-> 1, lens |-> <<2, 1, 1, 2, 2>>],
   [g |-> Small("LRCP"), sod |-> 1, lens |-> <<4>>]}
  \cup {Header(Offset(po)) : po \in Orders}
  \cup {Header(Wide(po)) : po \in Orders}
=============================================================================

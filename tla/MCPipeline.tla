------------------------------ MODULE MCPipeline ------------------------------
(***************************************************************************)
(* An instance of Pipeline: a short frame, then one longer than the cap.   *)
(***************************************************************************)
EXTENDS Pipeline

Main == [MH |-> 2, marker |-> FALSE, ORDB |-> FALSE, size |-> 1,
         hdr |-> [sig |-> 1, geom |-> 1, parses |-> TRUE, creates |-> TRUE,
                  sod |-> 1]]
Body == [Main EXCEPT !.MH = 0]
Last == [Body EXCEPT !.marker = TRUE, !.size = 0]
Signal == [Body EXCEPT !.ORDB = TRUE]

PayloadMC == [n \in Packets |->
  CASE n \in {6, 8} -> Main
    [] n = 10 -> Signal
    [] n \in {7, 12} -> Last
    [] OTHER -> Body]
=============================================================================

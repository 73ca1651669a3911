---------------------------- MODULE MCFrameHandler ----------------------------
(***************************************************************************)
(* Instances of FrameHandler: the main headers and the packets TLC sends.  *)
(***************************************************************************)
EXTENDS FrameHandler, TLC

\* Two supported geometries, the first with headers of two lengths.
HdrA == [sig |-> 1, geom |-> 1, parses |-> TRUE, creates |-> TRUE, sod |-> 1]
HdrALong == [HdrA EXCEPT !.sod = 2]
HdrB == [HdrA EXCEPT !.sig = 2, !.geom = 2]
\* A clean header of a geometry create() refuses
HdrUnsupported == [HdrA EXCEPT !.sig = 3, !.geom = 3, !.creates = FALSE]
\* A header neither reader accepts, and one only parse_main_header() accepts
HdrMalformed == [HdrA EXCEPT !.sig = 0, !.parses = FALSE]
HdrLenient == [HdrA EXCEPT !.sig = 0]

Main(mh, hs) == [MH : {mh}, marker : BOOLEAN, ORDB : {FALSE}, size : {2},
                 hdr : hs]
Body(sets) == {[MH |-> 0, marker |-> m, ORDB |-> o, size |-> 1,
                hdr |-> HdrA] : <<m, o>> \in sets}

\* What is left of a payload that is its payload header and nothing else
Empty == {[p EXCEPT !.size = 0] : p \in Body(BOOLEAN \X {FALSE})}

AnyBody == BOOLEAN \X BOOLEAN
\* Bodies whose EOC packet carries no resync point
PlainEOC == AnyBody \ {<<TRUE, TRUE>>}

AllPkts == Main(1, {HdrA}) \cup Body(AnyBody) \cup Empty
             \cup Main(2, {HdrA, HdrALong, HdrB, HdrUnsupported, HdrMalformed,
                           HdrLenient})
\* Whole headers of supported geometries only
WholePkts == Body(PlainEOC) \cup Empty
               \cup Main(2, {HdrA, HdrB, HdrMalformed})
ASSUME WholeInstance == WholeHeaders(WholePkts) /\ SupportedHeaders(WholePkts)

StreamPkts == Body(AnyBody) \cup Main(2, {HdrA})
RedialPkts == Body(PlainEOC) \cup Main(2, {HdrA, HdrB, HdrUnsupported})

\* The handler never tells one slab from another.
SlabSymmetry == Permutations(Slabs)
=============================================================================

-------------------------------- MODULE Latch --------------------------------
(***************************************************************************)
(* How a stream is latched: frame_handler reads a frame's complete main    *)
(* header (MainHeader), tile_handler::create() builds the precinct         *)
(* structure from it in the arena of stackAlloc() (utils.cpp), frames with *)
(* the same signature reuse it, and restart() resets it between frames.    *)
(*                                                                         *)
(* The arena is a row of cells, one per precinct: prec_, pband_, tag trees *)
(* and blk_ of a precinct are allocated together.  tile holds, for every   *)
(* component and every resolution up to MAX_DWT_LEVEL, the number of       *)
(* precincts and the cell of the first: res_::npw * nph and res_::prec.    *)
(***************************************************************************)
EXTENDS MainHeader

CONSTANTS
  Streams,      \* the main headers frames begin with
  BUFSIZE,      \* cells of the arena
  Storage,      \* numbers of precincts that fresh storage may seem to hold
  MaxFrames,    \* bound: frames
  MaxStaged     \* bound: code-blocks of a frame that are copied together

ASSUME ArenaAssumption == BUFSIZE \in Nat \ {0}
ASSUME StorageAssumption == Storage \subseteq Nat
ASSUME BoundAssumption == {MaxFrames, MaxStaged} \subseteq Nat

VARIABLES
  pc,        \* "idle", "parse", "astray", "create", "frame", "dead", "full", "lost"
  hdr,       \* the main header of the open frame
  i, pos,    \* the next segment and the cursor of parse_main_header()
  st,        \* siz, cod, cocs and dfs
  ready, geom_sig, start_SOD,
  tile,      \* tiles[0].tcomp[..].res[..]
  index,     \* of stackAlloc()
  staging,   \* staging buffers of the frame's chain
  frames,
  \* history, read by no guard
  own,       \* which resolution each cell was handed to last
  deepest,   \* for every component the highest resolution that tile ever held
  from,      \* the header that tile was built from
  shape      \* and the geometry, <<>> while there is no tile

readVars  == <<hdr, i, pos>>
buildVars == <<tile, index, own, deepest, from, shape>>
vars == <<pc, readVars, st, ready, geom_sig, start_SOD, buildVars, staging,
          frames>>

Cells  == 0 .. BUFSIZE - 1
Nobody == <<-1, -1>>
Staged == <<-1, 0>>

\* Nothing initialises the storage of the first tile.
Init ==
  /\ pc = "idle" /\ hdr = (CHOOSE h \in Streams : TRUE) /\ i = 0 /\ pos = 0
  /\ st = NoMarkers /\ ready = FALSE /\ geom_sig = NoSig /\ start_SOD = 0
  /\ \E n \in Storage :
       /\ tile = [c \in Components |-> [r \in Levels |-> [n |-> n, at |-> 0]]]
       /\ deepest = [c \in Components |-> IF n = 0 THEN 0 ELSE MaxLevel]
  /\ index = 0 /\ staging = 0 /\ frames = 0
  /\ own = [k \in Cells |-> Nobody]
  /\ from = hdr /\ shape = <<>>

-----------------------------------------------------------------------------
(***************************************************************************)
(* A packet with a complete main header: the signature is verified before  *)
(* latched state is trusted.                                               *)
(***************************************************************************)
Open(h) ==
  /\ pc = "idle" /\ frames < MaxFrames
  /\ frames' = frames + 1 /\ hdr' = h /\ i' = 1 /\ pos' = 2

\* geom_sig_, where a stream latched without one adopts that of the next header
Adopted(h) == IF geom_sig = NoSig THEN Signature(h) ELSE geom_sig

\* A malformed header on a latched stream
OpenMalformed(h) ==
  /\ Open(h) /\ ready /\ Signature(h) = NoSig
  /\ pc' = "dead"
  /\ UNCHANGED <<st, ready, geom_sig, start_SOD, buildVars, staging>>

OpenReuse(h) ==
  /\ Open(h) /\ ready /\ Signature(h) # NoSig /\ Signature(h) = Adopted(h)
  /\ geom_sig' = Adopted(h) /\ start_SOD' = SodOff(h) /\ pc' = "frame"
  /\ UNCHANGED <<st, ready, buildVars, staging>>

\* Mutant of OpenInvalidate: what is latched stays so until it is replaced.
InvalidateLate(h) ==
  /\ Open(h) /\ ready /\ Signature(h) # NoSig
  /\ geom_sig' = Adopted(h)
  /\ pc' = "parse"
  /\ UNCHANGED <<st, ready, start_SOD, buildVars, staging>>

\* invalidate(): by a new geometry or, whatever the signature, by the escape
\* hatch for frames that keep failing
OpenInvalidate(h) ==
  /\ Open(h) /\ ready /\ Signature(h) # NoSig
  /\ geom_sig' = Adopted(h) /\ ready' = FALSE
  /\ pc' = "parse"
  /\ UNCHANGED <<st, start_SOD, buildVars, staging>>

OpenFirst(h) ==
  /\ Open(h) /\ ~ready
  /\ IF h.soc THEN pc' = "parse" /\ UNCHANGED start_SOD
              ELSE pc' = "dead" /\ start_SOD' = 0
  /\ UNCHANGED <<st, ready, geom_sig, buildVars, staging>>

-----------------------------------------------------------------------------
(***************************************************************************)
(* parse_main_header(), one step per segment.                              *)
(***************************************************************************)
notParse == <<hdr, ready, geom_sig, buildVars, staging, frames>>

\* The parser of the segment reads on to its end, or ends up elsewhere: the
\* return value of the segment parsers is not looked at.
ParseNext ==
  /\ pc = "parse" /\ i <= Len(hdr.segs) /\ Legal(hdr.segs[i])
  /\ LET s == hdr.segs[i] IN
     /\ st' = ParseSegment(st, s)
     /\ pos' = pos + 2 + Reads(st, s)
     /\ pc' = IF Reads(st, s) = Extent(s) THEN "parse" ELSE "astray"
  /\ i' = i + 1
  /\ UNCHANGED <<notParse, start_SOD>>

\* Between two segments, the next word is no marker, or EOC, or 0 because the
\* chain ends.
ParseRefused ==
  /\ pc = "parse"
  /\ IF i <= Len(hdr.segs) THEN ~Legal(hdr.segs[i]) ELSE ~hdr.sod
  /\ start_SOD' = 0 /\ pc' = "dead"
  /\ UNCHANGED <<notParse, i, pos, st>>

ParseSOD ==
  /\ pc = "parse" /\ i > Len(hdr.segs) /\ hdr.sod
  /\ start_SOD' = pos + 2 /\ pc' = "create"
  /\ UNCHANGED <<notParse, i, pos, st>>

\* Inside a segment, the next word is most likely no marker; if it is one,
\* nothing more can be said.
ParseAstray ==
  /\ pc = "astray"
  /\ \/ start_SOD' = 0 /\ pc' = "dead"
     \/ pc' = "lost" /\ UNCHANGED start_SOD
  /\ UNCHANGED <<notParse, i, pos, st>>

-----------------------------------------------------------------------------
(***************************************************************************)
(* create(), and the arena.                                                *)
(***************************************************************************)
\* stackAlloc(0, 1)
ResetArena(k) == 0

\* The order in which parepare_tcomp_structure() takes cells: component by
\* component, from the highest resolution down
Earlier(g, c, r) ==
  {v \in Resolutions(g) : v.c < c \/ (v.c = c /\ v.r > r)}

Count(g, c, r) == npw(g, c, r) * nph(g, c, r)

SumOver(g, V) ==
  Cardinality({q \in Precincts(g) : [c |-> q.c, r |-> q.r] \in V})

\* Mutant of Built: the lowest resolution is forgotten.
BuiltShort(g, base) ==
  [c \in Components |-> [r \in Levels |->
     IF r <= g.NL[c] /\ r > 0
       THEN [n |-> Count(g, c, r),
             at |-> base + SumOver(g, Earlier(g, c, r))]
       ELSE tile[c][r]]]

\* parepare_tcomp_structure() for all components.  The tile is constructed in
\* the storage of the last one without initialising tcomp: a resolution that
\* the new stream does not have keeps what was there.
Built(g, base) ==
  [c \in Components |-> [r \in Levels |->
     IF r <= g.NL[c] THEN [n |-> Count(g, c, r),
                           at |-> base + SumOver(g, Earlier(g, c, r))]
                     ELSE tile[c][r]]]

Block(b) == b.at .. b.at + b.n - 1

\* A reference of coc->NL to DFS is replaced by what it refers to.
Resolved == [st EXCEPT !.cocs = [c \in Components |->
                                   [@[c] EXCEPT !.NL = LevelsOf(st, c)]]]

Build(g) ==
  LET base == ResetArena(index) IN
  /\ pc = "create"
  /\ base + Cardinality(Precincts(g)) <= BUFSIZE
  /\ tile' = Built(g, base)
  /\ index' = base + Cardinality(Precincts(g))
  /\ own' = [k \in Cells |->
               IF \E v \in Resolutions(g) : k \in Block(tile'[v.c][v.r])
                 THEN LET v == CHOOSE v \in Resolutions(g) :
                                 k \in Block(tile'[v.c][v.r])
                      IN <<v.c, v.r>>
                 ELSE own[k]]
  /\ deepest' = [c \in Components |->
                   IF g.NL[c] > deepest[c] THEN g.NL[c] ELSE deepest[c]]
  /\ from' = hdr /\ shape' = g
  /\ st' = Resolved
  /\ UNCHANGED <<readVars, start_SOD, staging, frames>>

Create ==
  /\ Build(GeometryOf(st)) /\ Supported(GeometryOf(st))
  /\ ready' = TRUE /\ geom_sig' = Signature(hdr)
  /\ pc' = "frame"

\* prepare_precinct_structure() knows no other progression order.
CreateRefused ==
  /\ Build(GeometryOf(st)) /\ ~Supported(GeometryOf(st))
  /\ pc' = "dead"
  /\ UNCHANGED <<ready, geom_sig>>

\* stackAlloc() returns NULL, which nobody looks at.
CreateFull ==
  /\ pc = "create"
  /\ ResetArena(index) + Cardinality(Precincts(GeometryOf(st))) > BUFSIZE
  /\ pc' = "full"
  /\ UNCHANGED <<readVars, st, ready, geom_sig, start_SOD, buildVars, staging,
                 frames>>

-----------------------------------------------------------------------------
(***************************************************************************)
(* The walk, and restart().                                                *)
(***************************************************************************)
\* Mutant of Stage: the staging buffer comes from the arena.
StageInArena ==
  /\ pc = "frame" /\ staging < MaxStaged
  /\ staging' = staging + 1 /\ index' = index + 1
  /\ own' = [own EXCEPT ![index] = Staged]
  /\ UNCHANGED <<pc, readVars, st, ready, geom_sig, start_SOD, tile, deepest,
                 from, shape, frames>>

\* take_contiguous() copies a code-block together in a buffer of its own.
Stage ==
  /\ pc = "frame" /\ staging < MaxStaged
  /\ staging' = staging + 1
  /\ UNCHANGED <<pc, readVars, st, ready, geom_sig, start_SOD, buildVars,
                 frames>>

\* The frame ends in one way or another: release_held_slabs() and restart().
Restart ==
  /\ pc \in {"frame", "dead"}
  /\ index' = ResetArena(index) /\ staging' = 0
  /\ pc' = "idle"
  /\ UNCHANGED <<readVars, st, ready, geom_sig, start_SOD, tile, own, deepest,
                 from, shape, frames>>

\* The precincts that restart() visits: those of every resolution of the tile,
\* whether the stream has it or not
Walked ==
  UNION {{[c |-> c, r |-> r, p |-> p] : p \in 0 .. tile[c][r].n - 1}
           : c \in Components, r \in Levels}

\* restart() follows what is no pointer to a precinct.
RestartAstray ==
  /\ pc \in {"frame", "dead"} /\ shape # <<>> /\ Walked # Precincts(shape)
  /\ pc' = "lost"
  /\ UNCHANGED <<readVars, st, ready, geom_sig, start_SOD, buildVars, staging,
                 frames>>

\* No more frames, or nothing more can be said
Rest ==
  /\ pc \in {"full", "lost"} \/ (pc = "idle" /\ frames = MaxFrames)
  /\ UNCHANGED vars

Next ==
  \/ \E h \in Streams : \/ OpenMalformed(h) \/ OpenReuse(h)
                        \/ OpenInvalidate(h) \/ OpenFirst(h)
  \/ ParseNext \/ ParseRefused \/ ParseSOD \/ ParseAstray
  \/ Create \/ CreateRefused \/ CreateFull
  \/ Stage \/ Restart \/ RestartAstray \/ Rest

Spec == Init /\ [][Next]_vars

-----------------------------------------------------------------------------
(***************************************************************************)
(* Properties.                                                             *)
(***************************************************************************)
\* The two readers agree: a header in scope is read segment by segment to its
\* end, where both find the same offset for the body, and only an unsupported
\* progression order makes it fail.
ReadersAgree ==
  InScope(hdr) => /\ pc # "astray"
                  /\ pc \in {"create", "frame"} => start_SOD = SodOff(hdr)
                  /\ pc = "dead" => ~Supported(Meant(hdr))

\* Whether it was built for this frame or an earlier one with the same
\* signature, and whatever was latched before, the structure a frame is walked
\* with is the one its own main header describes.
LatchedAsMeant ==
  pc = "frame" /\ InScope(hdr) /\ WellFormed(from) =>
    /\ GeometryOf(st) = Meant(hdr)
    /\ \A v \in Resolutions(Meant(hdr)) :
         tile[v.c][v.r].n = Count(Meant(hdr), v.c, v.r)

\* No cell of a latched structure is handed out a second time, although
\* restart() sets the arena back under it after every frame.
ArenaOwned ==
  ready => \A v \in Resolutions(GeometryOf(st)) :
             \A k \in Block(tile[v.c][v.r]) :
               k \in Cells /\ own[k] = <<v.c, v.r>>

\* A frame is walked with the tile, the markers and the signature of one header,
\* in scope or not.  parse_one_precinct() reads cocs next to the tile; a header
\* that fails half way overwrites the first and not the second, or both and not
\* the signature, and no later frame is taken for a latched one on that.
OneStream ==
  pc = "frame" =>
    /\ GeometryOf(st) = shape
    /\ \A v \in Resolutions(shape) : tile[v.c][v.r].n = Count(shape, v.c, v.r)
    /\ Signature(from) # NoSig => geom_sig = Signature(from)

\* restart() visits the precincts of the structure, all of them and no other, if
\* no component had more levels in an earlier stream and the storage was zero.
\* It does so too for a frame that failed and left siz and cocs half read.
RestartExact ==
  shape # <<>> /\ (\A c \in Components : shape.NL[c] = deepest[c])
    => Walked = Precincts(shape)

-----------------------------------------------------------------------------
(***************************************************************************)
(* A claim of a comment.                                                   *)
(***************************************************************************)
\* A re-latched stream's structure is built from scratch: nothing of the one
\* it replaces is left in it for restart() to visit.
FromScratch == pc = "frame" => Walked = Precincts(shape)
=============================================================================

------------------------------ MODULE MainHeader ------------------------------
(***************************************************************************)
(* The two readers of a main header (j2k_header.cpp).                      *)
(* geometry_signature() steps from one marker segment to the next by the   *)
(* segment's length; parse_main_header() steps by as many bytes as the     *)
(* parser of each segment reads, which follows from the fields it reads    *)
(* and from the segments before it.                                        *)
(*                                                                         *)
(* A header h is a record: h.soc, does it begin with SOC; h.segs, its      *)
(* marker segments; h.sod, are they followed by SOD or does the packet end *)
(* there.  A segment s has its marker s.m, its length s.L (which counts    *)
(* its own two bytes but not the marker's) and the fields that matter here. *)
(* The marker "none" is a word that is no marker, "skip" any marker that   *)
(* neither reader looks into.  Precincts are square and the image begins   *)
(* at the origin: one exponent per resolution, one corner.                 *)
(***************************************************************************)
EXTENDS PrecinctOrder

CONSTANT MaxLevel        \* MAX_DWT_LEVEL

ASSUME LevelAssumption == MaxLevel \in 1 .. 5

Levels == 0 .. MaxLevel
ByDFS  == 128            \* an NL that refers to the DFS segment
Legal(s) == s.m \notin {"none", "EOC"}

\* The bytes of s behind its marker: at least those of its length
Extent(s) == IF s.L < 2 THEN 2 ELSE s.L

-----------------------------------------------------------------------------
(***************************************************************************)
(* geometry_signature(): the hash of the hashed segments is abstracted to  *)
(* the segments themselves.                                                *)
(***************************************************************************)
NoSig == <<"malformed">>

WellFormed(h) ==
  h.soc /\ h.sod /\ \A i \in DOMAIN h.segs : Legal(h.segs[i]) /\ h.segs[i].L >= 2

\* Mutant of Hashed: DFS is taken for a segment that says nothing of geometry.
HashedNoDFS(s) == s.m \in {"SIZ", "COD", "COC", "QCD", "QCC", "ATK"}

Hashed(s) == s.m \in {"SIZ", "COD", "COC", "QCD", "QCC", "DFS", "ATK"}

Signature(h) == IF WellFormed(h) THEN SelectSeq(h.segs, Hashed) ELSE NoSig

\* *sod_off
SodOff(h) ==
  LET at[i \in 0 .. Len(h.segs)] ==
        IF i = 0 THEN 2 ELSE at[i - 1] + 2 + h.segs[i].L
  IN at[Len(h.segs)] + 2

-----------------------------------------------------------------------------
(***************************************************************************)
(* parse_main_header(): what its segment parsers leave in siz, cod, cocs   *)
(* and dfs, the members of tile_handler that are never reset, here the     *)
(* fields of a record.                                                     *)
(***************************************************************************)
Zeros == [l \in Levels |-> 0]
NoType == [l \in Levels |-> "NONE"]

\* tile_handler(): all members are zero.
NoMarkers ==
  [siz  |-> [Csiz |-> 0, sso |-> FALSE, x1 |-> 0, y1 |-> 0,
             sub |-> [c \in Components |-> [x |-> 0, y |-> 0]]],
   cod  |-> [PO |-> "LRCP", NL |-> 0, pr |-> Zeros],
   cocs |-> [c \in Components |-> [PO |-> "LRCP", NL |-> 0, pr |-> Zeros]],
   dfs  |-> [Idfs |-> 0, type |-> NoType, hor |-> Zeros, ver |-> Zeros]]

\* The first entries of new, the others of old
Over(new, old) == [l \in Levels |-> IF l \in DOMAIN new THEN new[l] ELSE old[l]]

\* parse_SIZ() gives up before it reads the components of an unsupported Csiz.
ParseSIZ(st, s) ==
  [st EXCEPT !.siz = [Csiz |-> s.Csiz, sso |-> s.sso, x1 |-> s.x1, y1 |-> s.y1,
                      sub |-> IF s.Csiz = 3 THEN s.sub ELSE @.sub]]

\* copy_cod()
CopyCod(cod, coc) ==
  [PO |-> cod.PO, NL |-> cod.NL,
   pr |-> Over([l \in 0 .. cod.NL |-> cod.pr[l]], coc.pr)]

\* parse_COD() gives up before the precinct sizes of an unsupported code-block
\* height; it takes them to be there whatever Scod says.  copy_cod() follows,
\* for all components.
ParseCOD(st, s) ==
  LET cod == [PO |-> s.PO, NL |-> s.NL,
              pr |-> IF s.cbh <= 4 /\ s.defined THEN Over(s.pr, st.cod.pr)
                                                ELSE st.cod.pr]
  IN [st EXCEPT !.cod = cod,
                !.cocs = [c \in Components |-> CopyCod(cod, @[c])]]

\* parse_COC() leaves the progression order that copy_cod() put there.
ParseCOC(st, s) ==
  [st EXCEPT !.cocs[s.c] =
     [PO |-> @.PO, NL |-> s.NL,
      pr |-> IF s.cbh <= 4 THEN Over(s.pr, @.pr) ELSE @.pr]]

\* Horizontal or vertical splits among the first l levels, where a level of the
\* type `whole' has none
Depth(type, l, whole) == Cardinality({k \in 1 .. l : type[k] # whole})

\* parse_DFS(): what lies beyond Idfs stays.
ParseDFS(st, s) ==
  LET type == Over(s.type, st.dfs.type)
  IN IF s.L < 5 THEN st ELSE
     [st EXCEPT !.dfs =
        [Idfs |-> Len(s.type), type |-> type,
         hor |-> [l \in Levels |-> IF l <= Len(s.type) THEN Depth(type, l, "VERT")
                                                       ELSE @.hor[l]],
         ver |-> [l \in Levels |-> IF l <= Len(s.type) THEN Depth(type, l, "HORZ")
                                                       ELSE @.ver[l]]]]

ParseSegment(st, s) ==
  CASE s.m = "SIZ" -> ParseSIZ(st, s)
    [] s.m = "COD" -> ParseCOD(st, s)
    [] s.m = "COC" -> ParseCOC(st, s)
    [] s.m = "DFS" -> ParseDFS(st, s)
    [] OTHER -> st            \* QCD and CAP leave nothing that is used

\* The number of subbands, as parse_QCD() counts them
Bands(st, NL) ==
  1 + NL + 2 * Cardinality({l \in 1 .. NL : st.dfs.type[l] = "BOTH"})

\* parse_CAP() reads a word for every part that Pcap names, and what is left of
\* the segment by words.
CapReads(s) ==
  LET words == IF s.L < 6 THEN 0 ELSE (s.L - 6) \div 2
  IN 6 + 2 * (IF words < s.parts THEN s.parts ELSE words)

\* Mutant of Reads: the length of a COC does not count its own two bytes.
ReadsCOCLong(st, s) ==
  LET sso == IF st.siz.sso THEN 2 ELSE 0 IN
  CASE s.m = "SIZ" -> IF s.Csiz = 3 THEN 47 ELSE 38
    [] s.m = "COD" -> IF s.cbh > 4 THEN 10 ELSE 13 + sso + s.NL
    [] s.m = "COC" -> IF s.cbh > 4 THEN 7 ELSE s.L + 2 + sso
    [] s.m = "QCD" ->
         3 + (IF s.style = 0 THEN 1 ELSE 2)
             * Bands(st, IF s.style = 1 THEN 1 ELSE st.cod.NL)
    [] s.m = "CAP" -> CapReads(s)
    [] s.m = "DFS" /\ s.L < 5 -> 2
    [] OTHER -> Extent(s)

\* How many bytes behind the marker of s are read, whatever s.L says.  parse_COC()
\* does not count the SSO word as part of the segment.
Reads(st, s) ==
  LET sso == IF st.siz.sso THEN 2 ELSE 0 IN
  CASE s.m = "SIZ" -> IF s.Csiz = 3 THEN 47 ELSE 38
    [] s.m = "COD" -> IF s.cbh > 4 THEN 10 ELSE 13 + sso + s.NL
    [] s.m = "COC" -> IF s.cbh > 4 THEN 7 ELSE s.L + sso
    [] s.m = "QCD" ->
         3 + (IF s.style = 0 THEN 1 ELSE 2)
             * Bands(st, IF s.style = 1 THEN 1 ELSE st.cod.NL)
    [] s.m = "CAP" -> CapReads(s)
    [] s.m = "DFS" /\ s.L < 5 -> 2
    [] OTHER -> Extent(s)

-----------------------------------------------------------------------------
(***************************************************************************)
(* The geometry create() builds from the members.                          *)
(***************************************************************************)
\* coc->NL, after a reference to DFS is resolved.  Which DFS it names is only
\* asserted, and every target is built with NDEBUG.
LevelsOf(st, c) ==
  IF st.cocs[c].NL > 32 THEN st.dfs.Idfs ELSE st.cocs[c].NL

\* NL and pr give the levels and the precinct sizes of each component.
Geometry(PO, siz, NL, pr, hor, ver) ==
  LET P == [c \in Components |-> [r \in 0 .. NL[c] |-> pr[c][r]]]
      L == UNION {0 .. NL[c] : c \in Components}
  IN [PO |-> PO, x0 |-> 0, x1 |-> siz.x1, y0 |-> 0, y1 |-> siz.y1,
      sub |-> siz.sub, NL |-> NL, prw |-> P, prh |-> P,
      hor |-> [l \in L |-> hor[l]], ver |-> [l \in L |-> ver[l]]]

GeometryOf(st) ==
  Geometry(st.cocs[0].PO, st.siz, [c \in Components |-> LevelsOf(st, c)],
           [c \in Components |-> st.cocs[c].pr], st.dfs.hor, st.dfs.ver)

-----------------------------------------------------------------------------
(***************************************************************************)
(* The reference: what a header means, read as a set of declarations.      *)
(***************************************************************************)
At(h, m)  == {i \in DOMAIN h.segs : h.segs[i].m = m}
Seg(h, m) == h.segs[CHOOSE i \in At(h, m) : TRUE]
Ahead(h, m, n) == \A i \in At(h, m), j \in At(h, n) : i < j

\* The headers the parser is written for: three components, a DFS segment, sizes
\* of precincts given, and no segment ahead of one it is read with.
InScope(h) ==
  /\ WellFormed(h)
  /\ \A m \in {"SIZ", "COD", "QCD", "DFS"} : Cardinality(At(h, m)) = 1
  /\ 1 \in At(h, "SIZ") /\ Ahead(h, "COD", "COC")
  /\ Ahead(h, "COD", "QCD") /\ Ahead(h, "DFS", "QCD")
  /\ Seg(h, "SIZ").Csiz = 3 /\ (At(h, "COC") # {} => ~Seg(h, "SIZ").sso)
  /\ Seg(h, "COD").defined /\ Seg(h, "QCD").style # 1
  /\ \A i \in At(h, "COD") \cup At(h, "COC") : h.segs[i].cbh <= 4

\* The COC of component c, or else COD
For(h, c) ==
  LET own == {i \in At(h, "COC") : h.segs[i].c = c}
  IN IF own = {} THEN Seg(h, "COD") ELSE h.segs[CHOOSE i \in own : TRUE]

Meant(h) ==
  LET type == Seg(h, "DFS").type
      splits(in) == [l \in 0 .. Len(type) |->
                       Cardinality({k \in 1 .. l : type[k] \in in})]
  IN Geometry(Seg(h, "COD").PO, Seg(h, "SIZ"),
              [c \in Components |->
                 IF For(h, c).NL = ByDFS THEN Len(type) ELSE For(h, c).NL],
              [c \in Components |-> For(h, c).pr],
              splits({"BOTH", "HORZ"}), splits({"BOTH", "VERT"}))
=============================================================================

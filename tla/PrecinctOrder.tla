---------------------------- MODULE PrecinctOrder ----------------------------
(***************************************************************************)
(* The precinct structure of a tile and the order in which its packets     *)
(* follow each other in the codestream: parepare_tcomp_structure() and     *)
(* prepare_precinct_structure() of j2k_packet.cpp, as functions of what    *)
(* the main header says.                                                   *)
(*                                                                         *)
(* A geometry g has the progression order g.PO, the tile's coordinates     *)
(* g.x0, g.x1, g.y0, g.y1, for every component c the subsampling g.sub[c], *)
(* the number of levels g.NL[c] and the precinct exponents g.prw[c][r] and *)
(* g.prh[c][r] of every resolution r, and the number g.hor[l], g.ver[l] of *)
(* horizontal and vertical splits of every level l.                        *)
(***************************************************************************)
EXTENDS Integers, Sequences, FiniteSets

Components == 0 .. 2       \* CE is 3, whatever Csiz says

CeilDiv(a, b) == (a + b - 1) \div b
LOCAL Least(S) == CHOOSE n \in S : \A k \in S : n <= k
LOCAL Greatest(S) == CHOOSE n \in S : \A k \in S : n >= k

\* The splits between resolution r of component c and the tile component
xNL(g, c, r) == g.hor[g.NL[c] - r]
yNL(g, c, r) == g.ver[g.NL[c] - r]

\* res_::coord
Res(g, c, r) ==
  [x0 |-> CeilDiv(CeilDiv(g.x0, g.sub[c].x), 2 ^ xNL(g, c, r)),
   x1 |-> CeilDiv(CeilDiv(g.x1, g.sub[c].x), 2 ^ xNL(g, c, r)),
   y0 |-> CeilDiv(CeilDiv(g.y0, g.sub[c].y), 2 ^ yNL(g, c, r)),
   y1 |-> CeilDiv(CeilDiv(g.y1, g.sub[c].y), 2 ^ yNL(g, c, r))]

\* The number of precincts that the interval from a to b meets
Across(a, b, exp) ==
  IF b > a THEN CeilDiv(b, 2 ^ exp) - a \div 2 ^ exp ELSE 0

npw(g, c, r) == Across(Res(g, c, r).x0, Res(g, c, r).x1, g.prw[c][r])
nph(g, c, r) == Across(Res(g, c, r).y0, Res(g, c, r).y1, g.prh[c][r])

\* The resolutions of all components, and the precincts that are allocated
Resolutions(g) == {v \in [c : Components, r : 0 .. 5] : v.r <= g.NL[v.c]}

Precincts(g) ==
  UNION {{[c |-> v.c, r |-> v.r, p |-> p] :
            p \in 0 .. npw(g, v.c, v.r) * nph(g, v.c, v.r) - 1}
           : v \in Resolutions(g)}

-----------------------------------------------------------------------------
\* step_x and step_y
Step(g, pr) ==
  2 ^ Least({32} \cup {pr[v.c][v.r] : v \in Resolutions(g)})

\* The values of a loop from lo to below hi
Loop(lo, hi, step) ==
  [i \in 1 .. CeilDiv(hi - lo, step) |-> lo + (i - 1) * step]

\* The inner two loops: components then resolutions for PCRL, resolutions then
\* components for PRCL.
Inner(g) ==
  LET n == 1 + Greatest({g.NL[c] : c \in Components}) IN
  SelectSeq([i \in 1 .. 3 * n |->
               IF g.PO = "PCRL" THEN [c |-> (i - 1) \div n, r |-> (i - 1) % n]
                                ELSE [c |-> (i - 1) % 3, r |-> (i - 1) \div 3]],
            LAMBDA v : v.r <= g.NL[v.c])

\* Mutant of Hit: a precinct that begins before the tile is not met.
HitInside(z, z0, sub, res0, exp, d) == z % (sub * 2 ^ (exp + d)) = 0

\* Does a precinct begin at coordinate z of the reference grid, or before the
\* tile and z is where the tile begins?
Hit(z, z0, sub, res0, exp, d) ==
  \/ z % (sub * 2 ^ (exp + d)) = 0
  \/ z = z0 /\ (res0 * 2 ^ d) % 2 ^ (exp + d) # 0

\* All rounds of the four nested loops, y outermost
Rounds(g) ==
  LET ys == Loop(g.y0, g.y1, Step(g, g.prh))
      xs == Loop(g.x0, g.x1, Step(g, g.prw))
      cr == Inner(g)
  IN [i \in 1 .. Len(ys) * Len(xs) * Len(cr) |->
        [y |-> ys[1 + ((i - 1) \div (Len(xs) * Len(cr)))],
         x |-> xs[1 + (((i - 1) \div Len(cr)) % Len(xs))],
         c |-> cr[1 + ((i - 1) % Len(cr))].c,
         r |-> cr[1 + ((i - 1) % Len(cr))].r]]

\* prepare_precinct_structure(): the walk of the tile.  px and py count the
\* precincts of a resolution in raster order, so that py * npw + px is how
\* many of them were met before.
Crp(g) ==
  LET hits == SelectSeq(Rounds(g), LAMBDA v :
                /\ Hit(v.x, g.x0, g.sub[v.c].x, Res(g, v.c, v.r).x0,
                       g.prw[v.c][v.r], xNL(g, v.c, v.r))
                /\ Hit(v.y, g.y0, g.sub[v.c].y, Res(g, v.c, v.r).y0,
                       g.prh[v.c][v.r], yNL(g, v.c, v.r)))
  IN [i \in DOMAIN hits |->
        [c |-> hits[i].c, r |-> hits[i].r,
         p |-> Cardinality({j \in 1 .. i - 1 : /\ hits[j].c = hits[i].c
                                               /\ hits[j].r = hits[i].r})]]

Supported(g) == g.PO \in {"PCRL", "PRCL"}

-----------------------------------------------------------------------------
(***************************************************************************)
(* The reference: where a precinct begins on the reference grid, and the   *)
(* order the standard gives packets of one layer.                          *)
(***************************************************************************)
LOCAL Origin(z0, sub, d, exp, i) == Greatest({z0, sub * 2 ^ (d + exp) * i})

Place(g, q) ==
  LET w == npw(g, q.c, q.r)
      R == Res(g, q.c, q.r)
      X == Origin(g.x0, g.sub[q.c].x, xNL(g, q.c, q.r), g.prw[q.c][q.r],
                  (q.p % w) + R.x0 \div 2 ^ g.prw[q.c][q.r])
      Y == Origin(g.y0, g.sub[q.c].y, yNL(g, q.c, q.r), g.prh[q.c][q.r],
                  q.p \div w + R.y0 \div 2 ^ g.prh[q.c][q.r])
  IN IF g.PO = "PCRL" THEN <<Y, X, q.c, q.r>> ELSE <<Y, X, q.r, q.c>>

\* Lexicographic order of tuples of the same length
Before(s, t) ==
  \E i \in DOMAIN s : s[i] < t[i] /\ \A j \in 1 .. i - 1 : s[j] = t[j]

\* walk lists every precinct of g once, in progression order.
InProgressionOrder(g, walk) ==
  /\ {walk[i] : i \in DOMAIN walk} = Precincts(g)
  /\ \A i \in 1 .. Len(walk) - 1 :
       Before(Place(g, walk[i]), Place(g, walk[i + 1]))
=============================================================================

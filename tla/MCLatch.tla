------------------------------- MODULE MCLatch -------------------------------
(***************************************************************************)
(* Main headers for Latch.  Their lengths are the ones the standard gives. *)
(***************************************************************************)
EXTENDS Latch

One == [x |-> 1, y |-> 1]
Two == [x |-> 2, y |-> 2]
S420 == [c \in Components |-> IF c = 0 THEN One ELSE Two]
Same(n, e) == [r \in 0 .. n |-> e]

SIZ(n, sso) == [m |-> "SIZ", L |-> 38 + 3 * n, Csiz |-> n, sso |-> sso,
                x1 |-> 4, y1 |-> 2, sub |-> S420]
COD(po, n, e, defined, cbh) ==
  [m |-> "COD", L |-> 12 + (IF defined THEN n + 1 ELSE 0), PO |-> po, NL |-> n,
   pr |-> Same(n, e), defined |-> defined, cbh |-> cbh]
COC(c, nl, n, e) ==
  [m |-> "COC", L |-> 9 + n + 1, c |-> c, NL |-> nl, pr |-> Same(n, e), cbh |-> 3]
DFS(type) == [m |-> "DFS", L |-> 5 + CeilDiv(Len(type), 4), type |-> type]
QCD(style, bands) ==
  [m |-> "QCD", style |-> style,
   L |-> IF style = 1 THEN 5 ELSE 3 + (IF style = 0 THEN 1 ELSE 2) * bands]
CAP(parts) == [m |-> "CAP", L |-> 6 + 2 * parts, parts |-> parts]
COM(n) == [m |-> "skip", L |-> n]
ATK(n) == [m |-> "ATK", L |-> n]

\* With the overlap word that SSO adds
Wide(s) == [s EXCEPT !.L = @ + 2]

Header(segs) == [soc |-> TRUE, segs |-> segs, sod |-> TRUE]

BothBoth == <<"BOTH", "BOTH">>
HorzBoth == <<"HORZ", "BOTH">>
S3 == SIZ(3, FALSE)
Large == [S3 EXCEPT !.x1 = 16]
Deep(po) == COD(po, 2, 1, TRUE, 3)
Shallow == COD("PCRL", 1, 1, TRUE, 3)

Orders(S) == {f \in [1 .. Cardinality(S) -> S] : \A a, b \in DOMAIN f : a # b => f[a] # f[b]}

\* Every order of the segments after SIZ
AnyOrder == {Header(<<S3>> \o f) :
               f \in Orders({Deep("PCRL"), DFS(BothBoth), QCD(0, 7), COC(1, ByDFS, 2, 0)})}

\* Other streams in scope
Supported2 ==
  {Header(<<S3, CAP(2), Deep("PRCL"), DFS(HorzBoth), COC(2, 1, 1, 2),
            QCD(2, 5), COM(9)>>),
   Header(<<SIZ(3, TRUE), Wide(Deep("PCRL")), DFS(BothBoth), QCD(0, 7)>>),
   Header(<<S3, Deep("PCRL"), DFS(BothBoth), ATK(7), QCD(0, 7)>>),
   Header(<<S3, Deep("PCRL"), DFS(BothBoth), COM(20), ATK(7), QCD(0, 7)>>),
   Header(<<Large, Deep("PCRL"), DFS(BothBoth), QCD(0, 7)>>),
   Header(<<S3, Deep("PCRL"), DFS(HorzBoth), QCD(0, 5)>>),
   Header(<<S3, Deep("PCRL"), DFS(<<"BOTH", "VERT">>), QCD(0, 5)>>),
   Header(<<S3, Shallow, DFS(<<"VERT">>), QCD(0, 2)>>),
   Header(<<S3, Deep("LRCP"), DFS(BothBoth), QCD(0, 7)>>)}

\* Headers that are not
Outside ==
  {Header(<<SIZ(4, FALSE), Deep("PCRL"), DFS(BothBoth), QCD(0, 7)>>),
   Header(<<SIZ(3, TRUE), Wide(Deep("PCRL")), DFS(BothBoth),
            Wide(COC(1, 2, 2, 0)), QCD(0, 7)>>),
   Header(<<S3, COD("PCRL", 2, 1, FALSE, 3), DFS(BothBoth), QCD(0, 7)>>),
   Header(<<S3, COD("PCRL", 2, 1, TRUE, 6), DFS(BothBoth), QCD(0, 7)>>),
   Header(<<S3, Deep("PCRL"), QCD(0, 7)>>),
   Header(<<S3, Deep("PCRL"), DFS(BothBoth), QCD(1, 7)>>),
   Header(<<S3, COM(0), Deep("PCRL"), DFS(BothBoth), QCD(0, 7)>>),
   Header(<<S3, Deep("PCRL"), [m |-> "EOC", L |-> 2]>>),
   [soc |-> FALSE, segs |-> <<S3>>, sod |-> TRUE],
   [soc |-> TRUE, segs |-> <<S3, Deep("PCRL")>>, sod |-> FALSE]}

StreamsMC == AnyOrder \cup Supported2 \cup Outside
StreamsRelatch == Supported2
=============================================================================

---------------------------- MODULE FrameInvariants ----------------------------
(***************************************************************************)
(* Type correctness of FrameHandler and its inductive invariant, for every *)
(* set of packets, slabs and geometries, every cap and every setting of    *)
(* the escape hatch: what pull_data() knows at each of its places of the   *)
(* slabs it holds, of its flags, of the consumer and of the damage done to *)
(* the open frame.                                                         *)
(***************************************************************************)
EXTENDS FrameHandler, FiniteSetTheorems, TLAPS

\* The names of groups of variables are always expanded.
USE DEF countVars, streakVars, resyncVars, flagVars, chainVars, latchVars,
        callVars, tellVars, notLatch

\* The fields of a packet at hand have their types.
LEMMA PacketTypes ==
  ASSUME NEW p \in Pkts
  PROVE  /\ p.MH \in 0 .. 3 /\ p.marker \in BOOLEAN /\ p.ORDB \in BOOLEAN
         /\ p.size \in Nat /\ p.hdr.sod \in Nat \ {0}
         /\ p.hdr.sig \in Geoms \cup {0} /\ p.hdr.geom \in Geoms
         /\ p.hdr.parses \in BOOLEAN /\ p.hdr.creates \in BOOLEAN
BY PktAssumption DEF Headers

\* start_SOD stays within its width when a split header is added up.
LEMMA SodRange ==
  ASSUME NEW a \in Nat
  PROVE  a % SodMod \in Nat
BY CountAssumption

-----------------------------------------------------------------------------
(***************************************************************************)
(* The types of the flags and of all else are proved apart: Zenon knows    *)
(* truth values best, SMT the numbers and sets.                            *)
(***************************************************************************)
FlagTypes ==
  /\ is_parsing_failure \in BOOLEAN /\ is_passed_header \in BOOLEAN
  /\ frame_parse_failed \in BOOLEAN
  /\ resync_armed \in BOOLEAN /\ resync_soft \in BOOLEAN
  /\ abort_armed \in BOOLEAN /\ ready \in BOOLEAN /\ dirty \in BOOLEAN

DataTypes ==
  /\ held_slabs \subseteq Slabs /\ lent \subseteq Slabs
  /\ chain_total \in Nat /\ off \in Nat \cup {-1}
  /\ total_frames \in Nat /\ trunc_frames \in Nat /\ relatches \in Nat
  /\ start_SOD \in Nat /\ frameSod \in Nat
  /\ geom_sig \in Geoms \cup {0} /\ geom \in Geoms \cup {0}
  /\ cached \in Geoms \cup {0}
  /\ parse_fail_streak \in Nat /\ deadRun \in Nat
  /\ pc \in {"idle", "cap", "route", "verify", "latch", "walk", "eoc"}
  /\ pc = "idle" => pk = NoCall /\ slab = NoSlab
  /\ pc # "idle" => pk \in Pkts /\ slab \in Slabs
  /\ relatch \in {"none", "geometry", "parsefail"}
  /\ cbs \subseteq {"gap", "point"}
  /\ phase \in {"none", "open", "done", "dead", "both", "twice"}

TellTypes ==
  /\ damage \subseteq Damages
  /\ reported \in [intact : BOOLEAN, damage : SUBSET Damages]

\* The three parts are TypeOK.
LEMMA TypeParts == TypeOK <=> FlagTypes /\ DataTypes /\ TellTypes
BY Zenon DEF TypeOK, FlagTypes, DataTypes, TellTypes

\* Init establishes the types.
LEMMA TypeInit == Init => TypeOK
<1>1. Init => FlagTypes
  BY Zenon DEF Init, FlagTypes
<1>2. Init => DataTypes
  BY DEF Init, DataTypes
<1>3. Init => TellTypes
  BY DEF Init, TellTypes
<1>4. QED
  BY <1>1, <1>2, <1>3, TypeParts

\* The flags are truth values after every step.
LEMMA FlagStep ==
  ASSUME FlagTypes, Next
  PROVE  FlagTypes'
<1>1. ASSUME NEW p \in Pkts, NEW i \in Slabs,
             PullPlain(p, i) \/ PullGapAccepted(p, i) \/ PullGapAborted(p, i)
      PROVE  FlagTypes'
  BY Zenon, <1>1 DEF FlagTypes, PullPlain, PullGapAccepted, PullGapAborted,
     Call, FireAbort
<1>2. CASE CapFire \/ CapPass
  BY Zenon, <1>2 DEF FlagTypes, CapFire, CapPass, FireAbort, EndFrameStreak
<1>3. CASE SkipBody \/ SkipEnd \/ SkipStray
  BY Zenon, <1>3 DEF FlagTypes, SkipBody, SkipEnd, SkipStray, FireAbort,
     EndFrameStreak
<1>4. CASE MissedEOC \/ MainAppend
  BY Zenon, <1>4 DEF FlagTypes, MissedEOC, MainAppend, FireAbort,
     EndFrameStreak, DeliverChunk
<1>5. CASE VerifyMalformed \/ VerifyLatched \/ VerifyNothing
  BY Zenon, <1>5 DEF FlagTypes, VerifyMalformed, VerifyLatched, VerifyNothing,
     RefuseHeader, FireAbort
<1>6. CASE LatchFail \/ LatchNew
  BY Zenon, <1>6 DEF FlagTypes, LatchFail, LatchNew, RefuseHeader, FireAbort
<1>7. CASE LatchSplit \/ LatchReuse
  BY Zenon, <1>7 DEF FlagTypes, LatchSplit, LatchReuse
<1>8. CASE BodyAppend \/ WalkFailed \/ NotEOC
  BY Zenon, <1>8 DEF FlagTypes, BodyAppend, WalkFailed, NotEOC, FireAbort,
     DeliverChunk
<1>9. ASSUME NEW b \in BOOLEAN, WalkParked(b) \/ WalkParsed(b) \/ EOC(b)
      PROVE  FlagTypes'
  BY Zenon, <1>9 DEF FlagTypes, WalkParked, WalkParsed, OfferPoint, EOC,
     EndFrameStreak
<1>10. CASE Rest
  BY Zenon, <1>10 DEF FlagTypes, Rest, vars
<1>11. QED
  BY Zenon, <1>1, <1>2, <1>3, <1>4, <1>5, <1>6, <1>7, <1>8, <1>9, <1>10
     DEF Next, MainStep, BodyStep

\* Counters, sets and the call in progress keep their types.
LEMMA DataStep ==
  ASSUME DataTypes, Next
  PROVE  DataTypes'
<1>1. ASSUME NEW p \in Pkts, NEW i \in Slabs,
             PullPlain(p, i) \/ PullGapAccepted(p, i) \/ PullGapAborted(p, i)
      PROVE  DataTypes'
  BY Zenon, <1>1 DEF DataTypes, PullPlain, PullGapAccepted, PullGapAborted,
     Call,
     FireAbort
<1>2. CASE CapFire
  BY <1>2 DEF DataTypes, CapFire, FireAbort, ReleaseHeld, EndFrameStreak,
     EndHistory
<1>3. CASE CapPass
  BY <1>3 DEF DataTypes, CapPass
<1>4. CASE SkipBody
  BY <1>4 DEF DataTypes, SkipBody, Skipping, Return
<1>5. CASE SkipEnd
  BY <1>5 DEF DataTypes, SkipEnd, Skipping, FireAbort, ReleaseHeld,
     EndFrameStreak, EndHistory, Return
<1>6. CASE SkipStray
  BY <1>6 DEF DataTypes, SkipStray, Skipping, ReleaseHeld, EndHistory, Return
<1>7. CASE MissedEOC
  BY <1>7 DEF DataTypes, MissedEOC, FireAbort, ReleaseHeld, EndFrameStreak,
     EndHistory
<1>8. CASE MainAppend
  BY <1>8, PacketTypes DEF DataTypes, MainAppend, DeliverChunk
<1>9. CASE VerifyMalformed
  BY <1>9 DEF DataTypes, VerifyMalformed, RefuseHeader, FireAbort, Return
<1>10. CASE VerifyLatched
  BY <1>10, PacketTypes DEF DataTypes, VerifyLatched
<1>11. CASE VerifyNothing
  BY <1>11 DEF DataTypes, VerifyNothing
<1>12. CASE LatchFail
  BY <1>12, PacketTypes DEF DataTypes, LatchFail, RefuseHeader, FireAbort,
     Return
<1>13. CASE LatchNew
  BY <1>13, PacketTypes DEF DataTypes, LatchNew
<1>14. CASE LatchSplit
  BY <1>14, PacketTypes, SodRange DEF DataTypes, LatchSplit, Return
<1>15. CASE LatchReuse
  BY <1>15, PacketTypes DEF DataTypes, LatchReuse
<1>16. CASE BodyAppend
  BY <1>16, PacketTypes DEF DataTypes, BodyAppend, DeliverChunk
<1>17. CASE WalkFailed
  BY <1>17 DEF DataTypes, WalkFailed, FireAbort
<1>18. CASE NotEOC
  BY <1>18 DEF DataTypes, NotEOC, Return
<1>19. ASSUME NEW b \in BOOLEAN, WalkParked(b) \/ WalkParsed(b)
       PROVE  DataTypes'
  BY Zenon, <1>19 DEF DataTypes, WalkParked, WalkParsed
<1>20. ASSUME NEW b \in BOOLEAN, EOC(b) PROVE DataTypes'
  BY <1>20 DEF DataTypes, EOC, ReleaseHeld, EndFrameStreak, EndHistory, Return
<1>21. CASE Rest
  BY <1>21 DEF DataTypes, Rest, vars
<1>22. QED
  BY Zenon, <1>1, <1>2, <1>3, <1>4, <1>5, <1>6, <1>7, <1>8, <1>9, <1>10, <1>11,
     <1>12, <1>13, <1>14, <1>15, <1>16, <1>17, <1>18, <1>19, <1>20, <1>21
     DEF Next, MainStep, BodyStep

\* The history of the open frame and the last report keep their types.
LEMMA TellStep ==
  ASSUME TellTypes, Next
  PROVE  TellTypes'
<1>1. damage' \subseteq Damages
  <2>1. \/ damage' = damage \/ damage' = {}
        \/ \E d \in Damages : damage' = damage \cup {d}
    BY Zenon DEF Next, MainStep, BodyStep, PullPlain, PullGapAccepted,
           PullGapAborted, CapFire, CapPass, SkipBody, SkipEnd, SkipStray,
           MissedEOC, MainAppend, VerifyMalformed, VerifyLatched, VerifyNothing,
           LatchFail, LatchNew, LatchSplit, LatchReuse, RefuseHeader, BodyAppend,
           WalkFailed, NotEOC, WalkParked, WalkParsed, EOC, EndHistory, Rest,
           vars, Damages
  <2>2. QED
    BY <2>1 DEF TellTypes
<1>2. reported' = reported \/ \E b \in BOOLEAN : EOC(b)
  BY Zenon DEF Next, MainStep, BodyStep, PullPlain, PullGapAccepted,
         PullGapAborted, Call, CapFire, CapPass, SkipBody, SkipEnd, SkipStray,
         MissedEOC, MainAppend, VerifyMalformed, VerifyLatched, VerifyNothing,
         LatchFail, LatchNew, LatchSplit, LatchReuse, RefuseHeader, BodyAppend,
         WalkFailed, NotEOC, WalkParked, WalkParsed, Rest, vars
<1>3. ASSUME NEW b \in BOOLEAN, EOC(b)
      PROVE  reported' \in [intact : BOOLEAN, damage : SUBSET Damages]
  <2>1. FrameIntact \in BOOLEAN
    BY Zenon DEF FrameIntact
  <2>2. PICK d \in SUBSET Damages :
          reported' = [intact |-> FrameIntact, damage |-> d]
    BY <1>3 DEF EOC, TellTypes, Damages
  <2>3. QED
    BY Zenon, <2>1, <2>2
<1>4. QED
  BY <1>1, <1>2, <1>3 DEF TellTypes

\* Every step preserves the types.
LEMMA TypeStep ==
  ASSUME TypeOK, [Next]_vars
  PROVE  TypeOK'
<1>1. CASE Next
  BY Zenon, <1>1, TypeParts, FlagStep, DataStep, TellStep
     DEF TypeOK, FlagTypes, DataTypes, TellTypes
<1>2. CASE UNCHANGED vars
  BY <1>2 DEF vars, TypeOK
<1>3. QED
  BY <1>1, <1>2

\* The members of frame_handler and the call in progress always have their
\* types, whatever packets pull_data() is given.
THEOREM FrameTypeCorrect == Spec => []TypeOK
BY TypeInit, TypeStep, PTL DEF Spec

-----------------------------------------------------------------------------
(***************************************************************************)
(* The invariant.                                                          *)
(***************************************************************************)
\* A main packet has opened a frame and is still being verified or latched.
Opening == pc \in {"verify", "latch"}

\* A frame whose bytes are walked, or parked, but not given up
Walking == is_passed_header /\ ~is_parsing_failure

\* Behind the cap check there is room for one slab more.
SlabInv ==
  /\ SlabsAccounted
  /\ pc = "route" => Cardinality(held_slabs) < SlabCap

\* A frame that is being opened has no flag yet, only a frame in flight is
\* walked, and its slabs are held until EOC.
FlagInv ==
  /\ WalkOnLatched
  /\ Opening => ~is_passed_header /\ ~is_parsing_failure
  /\ pc = "walk" => Walking
  /\ Opening \/ pc = "eoc" => held_slabs # {}

\* While a frame is opened or walked the consumer has all of its bytes; an
\* abort can fire if and only if the consumer has an open frame.
TellInv ==
  /\ abort_armed <=> phase = "open"
  /\ off # -1 /\ phase # "twice"
  /\ held_slabs = {} => chain_total = 0
  /\ Walking \/ Opening => phase = "open" /\ off = chain_total

\* The flags of the handler tell the damage of the open frame: none while it is
\* walked and not parked, some once it is given up, and a parse failure exactly
\* if frame_parse_failed says so.
DamageInv ==
  /\ held_slabs = {} \/ Opening => damage = {}
  /\ Walking /\ ~resync_soft => damage = {}
  /\ is_parsing_failure /\ held_slabs # {} => damage # {}
  /\ pc = "eoc" /\ ~is_passed_header /\ ~is_parsing_failure => damage # {}
  /\ frame_parse_failed <=> "parse" \in damage
  /\ "parse" \in damage => is_parsing_failure
  /\ "flush" \notin damage

\* The streak is exact inside a call too.
StreakInv == parse_fail_streak = deadRun

\* The offset of the body is that of the open frame's own header.
SodInv ==
  /\ is_passed_header /\ frameSod # 0 => start_SOD = frameSod
  /\ Opening => frameSod = IF pk.MH >= 2 THEN pk.hdr.sod ELSE 0

IInv ==
  /\ TypeOK /\ SlabInv /\ FlagInv /\ TellInv /\ ParkedInFlight /\ DamageInv
  /\ StreakInv /\ SodInv /\ IntactMeansWhole

-----------------------------------------------------------------------------
\* The sizes of the sets of slabs that pull_data() holds.
LEMMA SlabCounts ==
  /\ Cardinality({}) = 0
  /\ \A s \in Slabs : Cardinality({s}) = 1
  /\ \A S \in SUBSET Slabs : Cardinality(S) \in Nat
  /\ \A S \in SUBSET Slabs : \A s \in Slabs \ S :
       Cardinality(S \cup {s}) = Cardinality(S) + 1
<1>1. \A S \in SUBSET Slabs : IsFiniteSet(S)
  BY SlabAssumption, FS_Subset
<1>2. QED
  BY Zenon, <1>1, FS_EmptySet, FS_Singleton, FS_AddElement, FS_CardinalityType

\* A slab is released once, and one more is held only below the cap.
LEMMA SlabPreserved ==
  ASSUME TypeOK, SlabInv, Next
  PROVE  SlabInv'
<1>1. ASSUME NEW p \in Pkts, NEW i \in Slabs, PullPlain(p, i)
      PROVE  SlabInv'
  BY <1>1 DEF TypeOK, SlabInv, SlabsAccounted, PullPlain, Call
<1>2. ASSUME NEW p \in Pkts, NEW i \in Slabs, PullGapAccepted(p, i)
      PROVE  SlabInv'
  BY <1>2 DEF TypeOK, SlabInv, SlabsAccounted, PullGapAccepted, Call, InFlight
<1>3. ASSUME NEW p \in Pkts, NEW i \in Slabs, PullGapAborted(p, i)
      PROVE  SlabInv'
  BY <1>3 DEF TypeOK, SlabInv, SlabsAccounted, PullGapAborted, Call, InFlight,
     FireAbort
<1>4. CASE CapFire
  BY <1>4, SlabCounts, CapAssumption DEF TypeOK, SlabInv, SlabsAccounted,
     CapFire, FireAbort, ReleaseHeld, EndFrameStreak, EndHistory
<1>5. CASE CapPass \/ SkipBody
  BY <1>5 DEF TypeOK, SlabInv, SlabsAccounted, CapPass, SkipBody, Skipping,
     Return
<1>6. CASE SkipEnd
  BY <1>6, SlabCounts, CapAssumption DEF TypeOK, SlabInv, SlabsAccounted,
     SkipEnd, Skipping, FireAbort, ReleaseHeld, EndFrameStreak, EndHistory,
     Return
<1>7. CASE SkipStray
  BY <1>7, SlabCounts, CapAssumption DEF TypeOK, SlabInv, SlabsAccounted,
     SkipStray, Skipping, ReleaseHeld, EndHistory, Return
<1>8. CASE MissedEOC
  BY <1>8, SlabCounts, CapAssumption DEF TypeOK, SlabInv, SlabsAccounted,
     MissedEOC, FireAbort, ReleaseHeld, EndFrameStreak, EndHistory
<1>9. CASE MainAppend
  BY <1>9, SlabCounts, CapAssumption DEF TypeOK, SlabInv, SlabsAccounted,
     MainAppend, DeliverChunk
<1>10. CASE VerifyMalformed \/ LatchFail
  BY <1>10 DEF TypeOK, SlabInv, SlabsAccounted, VerifyMalformed, RefuseHeader,
     FireAbort, Return, LatchFail
<1>11. CASE VerifyLatched \/ VerifyNothing
  BY <1>11 DEF TypeOK, SlabInv, SlabsAccounted, VerifyLatched, VerifyNothing
<1>12. CASE LatchNew \/ LatchReuse
  BY <1>12 DEF TypeOK, SlabInv, SlabsAccounted, LatchNew, LatchReuse
<1>13. CASE LatchSplit
  BY <1>13 DEF TypeOK, SlabInv, SlabsAccounted, LatchSplit, Return
<1>14. CASE BodyAppend
  BY <1>14, SlabCounts, CapAssumption DEF TypeOK, SlabInv, SlabsAccounted,
     BodyAppend, DeliverChunk
<1>15. ASSUME NEW b \in BOOLEAN, WalkParked(b) \/ WalkParsed(b)
       PROVE  SlabInv'
  BY <1>15 DEF TypeOK, SlabInv, SlabsAccounted, WalkParked, WalkParsed,
     OfferPoint
<1>16. CASE WalkFailed
  BY <1>16 DEF TypeOK, SlabInv, SlabsAccounted, WalkFailed, FireAbort
<1>17. CASE NotEOC \/ Rest
  BY <1>17 DEF TypeOK, SlabInv, SlabsAccounted, NotEOC, Return, Rest, vars
<1>18. ASSUME NEW b \in BOOLEAN, EOC(b)
       PROVE  SlabInv'
  BY <1>18, SlabCounts, CapAssumption DEF TypeOK, SlabInv, SlabsAccounted, EOC,
     FrameIntact, ReleaseHeld, EndFrameStreak, EndHistory, Return
<1>19. QED
  BY Zenon, <1>1, <1>2, <1>3, <1>4, <1>5, <1>6, <1>7, <1>8, <1>9, <1>10, <1>11,
     <1>12, <1>13, <1>14, <1>15, <1>16, <1>17, <1>18 DEF Next, MainStep,
     BodyStep

\* No frame is in flight without a latched structure and slabs to walk.
LEMMA FlagPreserved ==
  ASSUME TypeOK, FlagInv, Next
  PROVE  FlagInv'
<1>1. ASSUME NEW p \in Pkts, NEW i \in Slabs, PullPlain(p, i)
      PROVE  FlagInv'
  BY <1>1 DEF FlagInv, WalkOnLatched, Opening, Walking, PullPlain, Call
<1>2. ASSUME NEW p \in Pkts, NEW i \in Slabs, PullGapAccepted(p, i)
      PROVE  FlagInv'
  BY <1>2 DEF FlagInv, WalkOnLatched, Opening, Walking, PullGapAccepted, Call,
     InFlight
<1>3. ASSUME NEW p \in Pkts, NEW i \in Slabs, PullGapAborted(p, i)
      PROVE  FlagInv'
  BY <1>3 DEF FlagInv, WalkOnLatched, Opening, Walking, PullGapAborted, Call,
     InFlight, FireAbort
<1>4. CASE CapFire
  BY <1>4 DEF FlagInv, WalkOnLatched, Opening, Walking, CapFire, FireAbort,
     ReleaseHeld, EndFrameStreak, EndHistory
<1>5. CASE CapPass \/ SkipBody
  BY <1>5 DEF FlagInv, WalkOnLatched, Opening, Walking, CapPass, SkipBody,
     Skipping, Return
<1>6. CASE SkipEnd
  BY <1>6 DEF FlagInv, WalkOnLatched, Opening, Walking, SkipEnd, Skipping,
     FireAbort, ReleaseHeld, EndFrameStreak, EndHistory, Return
<1>7. CASE SkipStray
  BY <1>7 DEF FlagInv, WalkOnLatched, Opening, Walking, SkipStray, Skipping,
     ReleaseHeld, EndHistory, Return
<1>8. CASE MissedEOC
  BY <1>8 DEF FlagInv, WalkOnLatched, Opening, Walking, MissedEOC, FireAbort,
     ReleaseHeld, EndFrameStreak, EndHistory
<1>9. CASE MainAppend
  BY <1>9 DEF FlagInv, WalkOnLatched, Opening, Walking, MainAppend,
     DeliverChunk
<1>10. CASE VerifyMalformed \/ LatchFail
  BY <1>10 DEF FlagInv, WalkOnLatched, Opening, Walking, VerifyMalformed,
     RefuseHeader, FireAbort, Return, LatchFail
<1>11. CASE VerifyLatched \/ VerifyNothing
  BY <1>11 DEF FlagInv, WalkOnLatched, Opening, Walking, VerifyLatched,
     VerifyNothing
<1>12. CASE LatchNew \/ LatchReuse
  BY <1>12 DEF FlagInv, WalkOnLatched, Opening, Walking, LatchNew, LatchReuse
<1>13. CASE LatchSplit
  BY <1>13 DEF FlagInv, WalkOnLatched, Opening, Walking, LatchSplit, Return
<1>14. CASE BodyAppend
  BY <1>14 DEF FlagInv, WalkOnLatched, Opening, Walking, BodyAppend,
     DeliverChunk
<1>15. ASSUME NEW b \in BOOLEAN, WalkParked(b) \/ WalkParsed(b)
       PROVE  FlagInv'
  BY <1>15 DEF FlagInv, WalkOnLatched, Opening, Walking, WalkParked,
     WalkParsed, OfferPoint
<1>16. CASE WalkFailed
  BY <1>16 DEF FlagInv, WalkOnLatched, Opening, Walking, WalkFailed, FireAbort
<1>17. CASE NotEOC \/ Rest
  BY <1>17 DEF FlagInv, WalkOnLatched, Opening, Walking, NotEOC, Return, Rest,
     vars
<1>18. ASSUME NEW b \in BOOLEAN, EOC(b)
       PROVE  FlagInv'
  BY <1>18 DEF FlagInv, WalkOnLatched, Opening, Walking, EOC, FrameIntact,
     ReleaseHeld, EndFrameStreak, EndHistory, Return
<1>19. QED
  BY Zenon, <1>1, <1>2, <1>3, <1>4, <1>5, <1>6, <1>7, <1>8, <1>9, <1>10, <1>11,
     <1>12, <1>13, <1>14, <1>15, <1>16, <1>17, <1>18 DEF Next, MainStep,
     BodyStep

\* The consumer gets every byte of the chain once and at most one abort.
LEMMA TellPreserved ==
  ASSUME TypeOK, FlagInv, TellInv, Next
  PROVE  TellInv'
<1>1. ASSUME NEW p \in Pkts, NEW i \in Slabs, PullPlain(p, i)
      PROVE  TellInv'
  BY <1>1 DEF TellInv, FlagInv, WalkOnLatched, Opening, Walking, PullPlain,
     Call
<1>2. ASSUME NEW p \in Pkts, NEW i \in Slabs, PullGapAccepted(p, i)
      PROVE  TellInv'
  BY <1>2 DEF TellInv, FlagInv, WalkOnLatched, Opening, Walking,
     PullGapAccepted, Call, InFlight
<1>3. ASSUME NEW p \in Pkts, NEW i \in Slabs, PullGapAborted(p, i)
      PROVE  TellInv'
  BY <1>3 DEF TellInv, FlagInv, WalkOnLatched, Opening, Walking,
     PullGapAborted, Call, InFlight, FireAbort
<1>4. CASE CapFire
  BY <1>4 DEF TellInv, FlagInv, WalkOnLatched, Opening, Walking, CapFire,
     FireAbort, ReleaseHeld, EndFrameStreak, EndHistory
<1>5. CASE CapPass \/ SkipBody
  BY <1>5 DEF TellInv, FlagInv, WalkOnLatched, Opening, Walking, CapPass,
     SkipBody, Skipping, Return
<1>6. CASE SkipEnd
  BY <1>6 DEF TellInv, FlagInv, WalkOnLatched, Opening, Walking, SkipEnd,
     Skipping, FireAbort, ReleaseHeld, EndFrameStreak, EndHistory, Return
<1>7. CASE SkipStray
  BY <1>7 DEF TellInv, FlagInv, WalkOnLatched, Opening, Walking, SkipStray,
     Skipping, ReleaseHeld, EndHistory, Return
<1>8. CASE MissedEOC
  BY <1>8 DEF TellInv, FlagInv, WalkOnLatched, Opening, Walking, MissedEOC,
     FireAbort, ReleaseHeld, EndFrameStreak, EndHistory
<1>9. CASE MainAppend
  <2>1. pk.size \in Nat /\ chain_total = 0
    BY <1>9, PacketTypes DEF TypeOK, MainAppend, TellInv
  <2>2. off' = chain_total' /\ off' # -1 /\ held_slabs' # {}
    BY <1>9, <2>1 DEF MainAppend, DeliverChunk
  <2>3. QED
    BY Zenon, <1>9, <2>2 DEF MainAppend, DeliverChunk, TellInv
<1>10. CASE VerifyMalformed \/ LatchFail
  BY <1>10 DEF TellInv, FlagInv, WalkOnLatched, Opening, Walking,
     VerifyMalformed, RefuseHeader, FireAbort, Return, LatchFail
<1>11. CASE VerifyLatched \/ VerifyNothing
  BY <1>11 DEF TellInv, FlagInv, WalkOnLatched, Opening, Walking,
     VerifyLatched, VerifyNothing
<1>12. CASE LatchNew \/ LatchReuse
  BY <1>12 DEF TellInv, FlagInv, WalkOnLatched, Opening, Walking, LatchNew,
     LatchReuse
<1>13. CASE LatchSplit
  BY <1>13 DEF TellInv, FlagInv, WalkOnLatched, Opening, Walking, LatchSplit,
     Return
<1>14. CASE BodyAppend
  <2>1. /\ pk.size \in Nat /\ chain_total \in Nat
        /\ phase = "open" /\ off = chain_total
    BY <1>14, PacketTypes DEF TypeOK, BodyAppend, TellInv, Walking
  <2>2. off' = chain_total' /\ off' # -1 /\ held_slabs' # {}
    BY <1>14, <2>1 DEF BodyAppend, DeliverChunk
  <2>3. QED
    BY Zenon, <1>14, <2>2 DEF BodyAppend, DeliverChunk, TellInv
<1>15. ASSUME NEW b \in BOOLEAN, WalkParked(b) \/ WalkParsed(b)
       PROVE  TellInv'
  BY <1>15 DEF TellInv, FlagInv, WalkOnLatched, Opening, Walking, WalkParked,
     WalkParsed, OfferPoint
<1>16. CASE WalkFailed
  BY <1>16 DEF TellInv, FlagInv, WalkOnLatched, Opening, Walking, WalkFailed,
     FireAbort
<1>17. CASE NotEOC \/ Rest
  BY <1>17 DEF TellInv, FlagInv, WalkOnLatched, Opening, Walking, NotEOC,
     Return, Rest, vars
<1>18. ASSUME NEW b \in BOOLEAN, EOC(b)
       PROVE  TellInv'
  BY <1>18 DEF TellInv, FlagInv, WalkOnLatched, Opening, Walking, EOC,
     FrameIntact, ReleaseHeld, EndFrameStreak, EndHistory, Return
<1>19. QED
  BY Zenon, <1>1, <1>2, <1>3, <1>4, <1>5, <1>6, <1>7, <1>8, <1>9, <1>10, <1>11,
     <1>12, <1>13, <1>14, <1>15, <1>16, <1>17, <1>18 DEF Next, MainStep,
     BodyStep
=============================================================================

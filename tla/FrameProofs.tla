------------------------------ MODULE FrameProofs ------------------------------
(***************************************************************************)
(* The properties of FrameHandler that hold for every stream of packets,   *)
(* with any gaps, headers and answers of the parser and of the consumer.   *)
(***************************************************************************)
EXTENDS FrameInvariants

\* The names of groups of variables are always expanded.
USE DEF countVars, streakVars, resyncVars, flagVars, chainVars, latchVars,
        callVars, tellVars, notLatch

-----------------------------------------------------------------------------
\* A walk is parked only by an accepted gap of the frame in flight.
LEMMA ParkedPreserved ==
  ASSUME TypeOK, FlagInv, ParkedInFlight, Next
  PROVE  ParkedInFlight'
<1>1. ASSUME NEW p \in Pkts, NEW i \in Slabs, PullPlain(p, i)
      PROVE  ParkedInFlight'
  BY <1>1 DEF ParkedInFlight, FlagInv, WalkOnLatched, Opening, Walking,
     PullPlain, Call
<1>2. ASSUME NEW p \in Pkts, NEW i \in Slabs, PullGapAccepted(p, i)
      PROVE  ParkedInFlight'
  BY <1>2 DEF ParkedInFlight, FlagInv, WalkOnLatched, Opening, Walking,
     PullGapAccepted, Call, InFlight
<1>3. ASSUME NEW p \in Pkts, NEW i \in Slabs, PullGapAborted(p, i)
      PROVE  ParkedInFlight'
  BY <1>3 DEF ParkedInFlight, FlagInv, WalkOnLatched, Opening, Walking,
     PullGapAborted, Call, InFlight, FireAbort
<1>4. CASE CapFire
  BY <1>4 DEF ParkedInFlight, FlagInv, WalkOnLatched, Opening, Walking,
     CapFire, FireAbort, ReleaseHeld, EndFrameStreak, EndHistory
<1>5. CASE CapPass \/ SkipBody
  BY <1>5 DEF ParkedInFlight, FlagInv, WalkOnLatched, Opening, Walking,
     CapPass, SkipBody, Skipping, Return
<1>6. CASE SkipEnd
  BY <1>6 DEF ParkedInFlight, FlagInv, WalkOnLatched, Opening, Walking,
     SkipEnd, Skipping, FireAbort, ReleaseHeld, EndFrameStreak, EndHistory,
     Return
<1>7. CASE SkipStray
  BY <1>7 DEF ParkedInFlight, FlagInv, WalkOnLatched, Opening, Walking,
     SkipStray, Skipping, ReleaseHeld, EndHistory, Return
<1>8. CASE MissedEOC
  BY <1>8 DEF ParkedInFlight, FlagInv, WalkOnLatched, Opening, Walking,
     MissedEOC, FireAbort, ReleaseHeld, EndFrameStreak, EndHistory
<1>9. CASE MainAppend
  BY <1>9 DEF ParkedInFlight, FlagInv, WalkOnLatched, Opening, Walking,
     MainAppend, DeliverChunk
<1>10. CASE VerifyMalformed \/ LatchFail
  BY <1>10 DEF ParkedInFlight, FlagInv, WalkOnLatched, Opening, Walking,
     VerifyMalformed, RefuseHeader, FireAbort, Return, LatchFail
<1>11. CASE VerifyLatched \/ VerifyNothing
  BY <1>11 DEF ParkedInFlight, FlagInv, WalkOnLatched, Opening, Walking,
     VerifyLatched, VerifyNothing
<1>12. CASE LatchNew \/ LatchReuse
  BY <1>12 DEF ParkedInFlight, FlagInv, WalkOnLatched, Opening, Walking,
     LatchNew, LatchReuse
<1>13. CASE LatchSplit
  BY <1>13 DEF ParkedInFlight, FlagInv, WalkOnLatched, Opening, Walking,
     LatchSplit, Return
<1>14. CASE BodyAppend
  BY <1>14 DEF ParkedInFlight, FlagInv, WalkOnLatched, Opening, Walking,
     BodyAppend, DeliverChunk
<1>15. ASSUME NEW b \in BOOLEAN, WalkParked(b) \/ WalkParsed(b)
       PROVE  ParkedInFlight'
  <2>1. resync_armed' => resync_armed
    BY Zenon, <1>15 DEF WalkParked, WalkParsed, OfferPoint
  <2>2. QED
    BY <1>15, <2>1 DEF WalkParked, WalkParsed, ParkedInFlight
<1>16. CASE WalkFailed
  BY <1>16 DEF ParkedInFlight, FlagInv, WalkOnLatched, Opening, Walking,
     WalkFailed, FireAbort
<1>17. CASE NotEOC \/ Rest
  BY <1>17 DEF ParkedInFlight, FlagInv, WalkOnLatched, Opening, Walking,
     NotEOC, Return, Rest, vars
<1>18. ASSUME NEW b \in BOOLEAN, EOC(b)
       PROVE  ParkedInFlight'
  BY <1>18 DEF ParkedInFlight, FlagInv, WalkOnLatched, Opening, Walking, EOC,
     FrameIntact, ReleaseHeld, EndFrameStreak, EndHistory, Return
<1>19. QED
  BY Zenon, <1>1, <1>2, <1>3, <1>4, <1>5, <1>6, <1>7, <1>8, <1>9, <1>10, <1>11,
     <1>12, <1>13, <1>14, <1>15, <1>16, <1>17, <1>18 DEF Next, MainStep,
     BodyStep

\* The flags tell what has gone wrong with the bytes of the open frame.
LEMMA DamagePreserved ==
  ASSUME TypeOK, FlagInv, ParkedInFlight, DamageInv, Next
  PROVE  DamageInv'
<1>1. ASSUME NEW p \in Pkts, NEW i \in Slabs, PullPlain(p, i)
      PROVE  DamageInv'
  BY <1>1 DEF DamageInv, ParkedInFlight, FlagInv, WalkOnLatched, Opening,
     Walking, PullPlain, Call
<1>2. ASSUME NEW p \in Pkts, NEW i \in Slabs, PullGapAccepted(p, i)
      PROVE  DamageInv'
  BY <1>2 DEF DamageInv, ParkedInFlight, FlagInv, WalkOnLatched, Opening,
     Walking, PullGapAccepted, Call, InFlight
<1>3. ASSUME NEW p \in Pkts, NEW i \in Slabs, PullGapAborted(p, i)
      PROVE  DamageInv'
  BY <1>3 DEF DamageInv, ParkedInFlight, FlagInv, WalkOnLatched, Opening,
     Walking, PullGapAborted, Call, InFlight, FireAbort
<1>4. CASE CapFire
  BY <1>4 DEF DamageInv, ParkedInFlight, FlagInv, WalkOnLatched, Opening,
     Walking, CapFire, FireAbort, ReleaseHeld, EndFrameStreak, EndHistory
<1>5. CASE CapPass \/ SkipBody
  BY <1>5 DEF DamageInv, ParkedInFlight, FlagInv, WalkOnLatched, Opening,
     Walking, CapPass, SkipBody, Skipping, Return
<1>6. CASE SkipEnd
  BY <1>6 DEF DamageInv, ParkedInFlight, FlagInv, WalkOnLatched, Opening,
     Walking, SkipEnd, Skipping, FireAbort, ReleaseHeld, EndFrameStreak,
     EndHistory, Return
<1>7. CASE SkipStray
  BY <1>7 DEF DamageInv, ParkedInFlight, FlagInv, WalkOnLatched, Opening,
     Walking, SkipStray, Skipping, ReleaseHeld, EndHistory, Return
<1>8. CASE MissedEOC
  BY <1>8 DEF DamageInv, ParkedInFlight, FlagInv, WalkOnLatched, Opening,
     Walking, MissedEOC, FireAbort, ReleaseHeld, EndFrameStreak, EndHistory
<1>9. CASE MainAppend
  BY <1>9 DEF DamageInv, ParkedInFlight, FlagInv, WalkOnLatched, Opening,
     Walking, MainAppend, DeliverChunk
<1>10. CASE VerifyMalformed \/ LatchFail
  BY <1>10 DEF DamageInv, ParkedInFlight, FlagInv, WalkOnLatched, Opening,
     Walking, VerifyMalformed, RefuseHeader, FireAbort, Return, LatchFail
<1>11. CASE VerifyLatched \/ VerifyNothing
  BY <1>11 DEF DamageInv, ParkedInFlight, FlagInv, WalkOnLatched, Opening,
     Walking, VerifyLatched, VerifyNothing
<1>12. CASE LatchNew \/ LatchReuse
  BY <1>12 DEF DamageInv, ParkedInFlight, FlagInv, WalkOnLatched, Opening,
     Walking, LatchNew, LatchReuse
<1>13. CASE LatchSplit
  BY <1>13 DEF DamageInv, ParkedInFlight, FlagInv, WalkOnLatched, Opening,
     Walking, LatchSplit, Return
<1>14. CASE BodyAppend
  BY <1>14 DEF DamageInv, ParkedInFlight, FlagInv, WalkOnLatched, Opening,
     Walking, BodyAppend, DeliverChunk
<1>15. ASSUME NEW b \in BOOLEAN, WalkParked(b) \/ WalkParsed(b)
       PROVE  DamageInv'
  BY <1>15 DEF DamageInv, ParkedInFlight, FlagInv, WalkOnLatched, Opening,
     Walking, WalkParked, WalkParsed, OfferPoint
<1>16. CASE WalkFailed
  BY <1>16 DEF DamageInv, ParkedInFlight, FlagInv, WalkOnLatched, Opening,
     Walking, WalkFailed, FireAbort
<1>17. CASE NotEOC \/ Rest
  BY <1>17 DEF DamageInv, ParkedInFlight, FlagInv, WalkOnLatched, Opening,
     Walking, NotEOC, Return, Rest, vars
<1>18. ASSUME NEW b \in BOOLEAN, EOC(b)
       PROVE  DamageInv'
  BY <1>18 DEF DamageInv, ParkedInFlight, FlagInv, WalkOnLatched, Opening,
     Walking, EOC, FrameIntact, ReleaseHeld, EndFrameStreak, EndHistory, Return
<1>19. QED
  BY Zenon, <1>1, <1>2, <1>3, <1>4, <1>5, <1>6, <1>7, <1>8, <1>9, <1>10, <1>11,
     <1>12, <1>13, <1>14, <1>15, <1>16, <1>17, <1>18 DEF Next, MainStep,
     BodyStep

\* A frame counts for the escape hatch exactly if its bytes did not parse.
LEMMA StreakPreserved ==
  ASSUME TypeOK, FlagInv, ParkedInFlight, DamageInv, StreakInv, Next
  PROVE  StreakInv'
<1>1. ASSUME NEW p \in Pkts, NEW i \in Slabs, PullPlain(p, i)
      PROVE  StreakInv'
  BY <1>1 DEF StreakInv, DamageInv, ParkedInFlight, FlagInv, WalkOnLatched,
     Opening, Walking, PullPlain, Call
<1>2. ASSUME NEW p \in Pkts, NEW i \in Slabs, PullGapAccepted(p, i)
      PROVE  StreakInv'
  BY <1>2 DEF StreakInv, DamageInv, ParkedInFlight, FlagInv, WalkOnLatched,
     Opening, Walking, PullGapAccepted, Call, InFlight
<1>3. ASSUME NEW p \in Pkts, NEW i \in Slabs, PullGapAborted(p, i)
      PROVE  StreakInv'
  BY <1>3 DEF StreakInv, DamageInv, ParkedInFlight, FlagInv, WalkOnLatched,
     Opening, Walking, PullGapAborted, Call, InFlight, FireAbort
<1>4. CASE CapFire
  BY <1>4 DEF StreakInv, DamageInv, ParkedInFlight, FlagInv, WalkOnLatched,
     Opening, Walking, CapFire, FireAbort, ReleaseHeld, EndFrameStreak,
     EndHistory
<1>5. CASE CapPass \/ SkipBody
  BY <1>5 DEF StreakInv, DamageInv, ParkedInFlight, FlagInv, WalkOnLatched,
     Opening, Walking, CapPass, SkipBody, Skipping, Return
<1>6. CASE SkipEnd
  BY <1>6 DEF StreakInv, DamageInv, ParkedInFlight, FlagInv, WalkOnLatched,
     Opening, Walking, SkipEnd, Skipping, FireAbort, ReleaseHeld,
     EndFrameStreak, EndHistory, Return
<1>7. CASE SkipStray
  BY <1>7 DEF StreakInv, DamageInv, ParkedInFlight, FlagInv, WalkOnLatched,
     Opening, Walking, SkipStray, Skipping, ReleaseHeld, EndHistory, Return
<1>8. CASE MissedEOC
  BY <1>8 DEF StreakInv, DamageInv, ParkedInFlight, FlagInv, WalkOnLatched,
     Opening, Walking, MissedEOC, FireAbort, ReleaseHeld, EndFrameStreak,
     EndHistory
<1>9. CASE MainAppend
  BY <1>9 DEF StreakInv, DamageInv, ParkedInFlight, FlagInv, WalkOnLatched,
     Opening, Walking, MainAppend, DeliverChunk
<1>10. CASE VerifyMalformed \/ LatchFail
  BY <1>10 DEF StreakInv, DamageInv, ParkedInFlight, FlagInv, WalkOnLatched,
     Opening, Walking, VerifyMalformed, RefuseHeader, FireAbort, Return,
     LatchFail
<1>11. CASE VerifyLatched \/ VerifyNothing
  BY <1>11 DEF StreakInv, DamageInv, ParkedInFlight, FlagInv, WalkOnLatched,
     Opening, Walking, VerifyLatched, VerifyNothing
<1>12. CASE LatchNew \/ LatchReuse
  BY <1>12 DEF StreakInv, DamageInv, ParkedInFlight, FlagInv, WalkOnLatched,
     Opening, Walking, LatchNew, LatchReuse
<1>13. CASE LatchSplit
  BY <1>13 DEF StreakInv, DamageInv, ParkedInFlight, FlagInv, WalkOnLatched,
     Opening, Walking, LatchSplit, Return
<1>14. CASE BodyAppend
  BY <1>14 DEF StreakInv, DamageInv, ParkedInFlight, FlagInv, WalkOnLatched,
     Opening, Walking, BodyAppend, DeliverChunk
<1>15. ASSUME NEW b \in BOOLEAN, WalkParked(b) \/ WalkParsed(b)
       PROVE  StreakInv'
  BY <1>15 DEF StreakInv, DamageInv, ParkedInFlight, FlagInv, WalkOnLatched,
     Opening, Walking, WalkParked, WalkParsed, OfferPoint
<1>16. CASE WalkFailed
  BY <1>16 DEF StreakInv, DamageInv, ParkedInFlight, FlagInv, WalkOnLatched,
     Opening, Walking, WalkFailed, FireAbort
<1>17. CASE NotEOC \/ Rest
  BY <1>17 DEF StreakInv, DamageInv, ParkedInFlight, FlagInv, WalkOnLatched,
     Opening, Walking, NotEOC, Return, Rest, vars
<1>18. ASSUME NEW b \in BOOLEAN, EOC(b)
       PROVE  StreakInv'
  <2> DEFINE failed == FrameIntact /\ ~b
             d == IF failed THEN damage \cup {"flush"} ELSE damage
  <2>1. FrameIntact => damage = {}
    BY <1>18 DEF EOC, FrameIntact, DamageInv, Walking
  <2>2. ~FrameIntact => damage # {}
    BY <1>18 DEF EOC, FrameIntact, DamageInv, ParkedInFlight, FlagInv,
             WalkOnLatched
  <2>3. (FrameIntact /\ b) <=> d = {}
    BY <2>1, <2>2
  <2>4. (frame_parse_failed \/ failed) <=> d \cap {"parse", "flush"} # {}
    BY <2>1, <2>2 DEF DamageInv
  <2>5. QED
    BY <1>18, <2>3, <2>4 DEF EOC, EndFrameStreak, EndHistory, StreakInv
<1>19. QED
  BY Zenon, <1>1, <1>2, <1>3, <1>4, <1>5, <1>6, <1>7, <1>8, <1>9, <1>10, <1>11,
     <1>12, <1>13, <1>14, <1>15, <1>16, <1>17, <1>18 DEF Next, MainStep,
     BodyStep

\* start_SOD is set from the header of the frame that is about to be walked.
LEMMA SodPreserved ==
  ASSUME TypeOK, FlagInv, SodInv, Next
  PROVE  SodInv'
<1>1. ASSUME NEW p \in Pkts, NEW i \in Slabs, PullPlain(p, i)
      PROVE  SodInv'
  BY <1>1 DEF SodInv, FlagInv, WalkOnLatched, Opening, Walking, PullPlain, Call
<1>2. ASSUME NEW p \in Pkts, NEW i \in Slabs, PullGapAccepted(p, i)
      PROVE  SodInv'
  BY <1>2 DEF SodInv, FlagInv, WalkOnLatched, Opening, Walking,
     PullGapAccepted, Call, InFlight
<1>3. ASSUME NEW p \in Pkts, NEW i \in Slabs, PullGapAborted(p, i)
      PROVE  SodInv'
  BY <1>3 DEF SodInv, FlagInv, WalkOnLatched, Opening, Walking, PullGapAborted,
     Call, InFlight, FireAbort
<1>4. CASE CapFire
  BY <1>4 DEF SodInv, FlagInv, WalkOnLatched, Opening, Walking, CapFire,
     FireAbort, ReleaseHeld, EndFrameStreak, EndHistory
<1>5. CASE CapPass \/ SkipBody
  BY <1>5 DEF SodInv, FlagInv, WalkOnLatched, Opening, Walking, CapPass,
     SkipBody, Skipping, Return
<1>6. CASE SkipEnd
  BY <1>6 DEF SodInv, FlagInv, WalkOnLatched, Opening, Walking, SkipEnd,
     Skipping, FireAbort, ReleaseHeld, EndFrameStreak, EndHistory, Return
<1>7. CASE SkipStray
  BY <1>7 DEF SodInv, FlagInv, WalkOnLatched, Opening, Walking, SkipStray,
     Skipping, ReleaseHeld, EndHistory, Return
<1>8. CASE MissedEOC
  BY <1>8 DEF SodInv, FlagInv, WalkOnLatched, Opening, Walking, MissedEOC,
     FireAbort, ReleaseHeld, EndFrameStreak, EndHistory
<1>9. CASE MainAppend
  BY <1>9 DEF SodInv, FlagInv, WalkOnLatched, Opening, Walking, MainAppend,
     DeliverChunk
<1>10. CASE VerifyMalformed \/ LatchFail
  BY <1>10 DEF SodInv, FlagInv, WalkOnLatched, Opening, Walking,
     VerifyMalformed, RefuseHeader, FireAbort, Return, LatchFail
<1>11. CASE VerifyLatched \/ VerifyNothing
  BY <1>11 DEF SodInv, FlagInv, WalkOnLatched, Opening, Walking, VerifyLatched,
     VerifyNothing
<1>12. CASE LatchNew \/ LatchReuse
  BY Zenon, <1>12 DEF SodInv, FlagInv, WalkOnLatched, Opening, Walking,
     LatchNew,
     LatchReuse
<1>13. CASE LatchSplit
  BY Zenon, <1>13 DEF SodInv, FlagInv, WalkOnLatched, Opening, Walking,
     LatchSplit,
     Return
<1>14. CASE BodyAppend
  BY Zenon, <1>14 DEF SodInv, FlagInv, WalkOnLatched, Opening, Walking, BodyAppend,
     DeliverChunk
<1>15. ASSUME NEW b \in BOOLEAN, WalkParked(b) \/ WalkParsed(b)
       PROVE  SodInv'
  BY <1>15 DEF SodInv, FlagInv, WalkOnLatched, Opening, Walking, WalkParked,
     WalkParsed, OfferPoint
<1>16. CASE WalkFailed
  BY <1>16 DEF SodInv, FlagInv, WalkOnLatched, Opening, Walking, WalkFailed,
     FireAbort
<1>17. CASE NotEOC \/ Rest
  BY <1>17 DEF SodInv, FlagInv, WalkOnLatched, Opening, Walking, NotEOC,
     Return, Rest, vars
<1>18. ASSUME NEW b \in BOOLEAN, EOC(b)
       PROVE  SodInv'
  BY <1>18 DEF SodInv, FlagInv, WalkOnLatched, Opening, Walking, EOC,
     FrameIntact, ReleaseHeld, EndFrameStreak, EndHistory, Return
<1>19. QED
  BY Zenon, <1>1, <1>2, <1>3, <1>4, <1>5, <1>6, <1>7, <1>8, <1>9, <1>10, <1>11,
     <1>12, <1>13, <1>14, <1>15, <1>16, <1>17, <1>18 DEF Next, MainStep,
     BodyStep

\* A frame is reported intact only if nothing had gone wrong before EOC.
LEMMA IntactPreserved ==
  ASSUME IInv, Next
  PROVE  IntactMeansWhole'
<1>1. reported' = reported \/ \E b \in BOOLEAN : EOC(b)
  BY Zenon DEF Next, MainStep, BodyStep, PullPlain, PullGapAccepted,
     PullGapAborted,
         Call, CapFire, CapPass, SkipBody, SkipEnd, SkipStray, MissedEOC,
         MainAppend, VerifyMalformed, VerifyLatched, VerifyNothing, LatchFail,
         LatchNew, LatchSplit, LatchReuse, RefuseHeader, BodyAppend,
         WalkFailed, NotEOC, WalkParked, WalkParsed, Rest, vars
<1>2. ASSUME NEW b \in BOOLEAN, EOC(b)
      PROVE  IntactMeansWhole'
  <2>1. FrameIntact => damage = {}
    BY DEF IInv, FrameIntact, DamageInv, Walking
  <2>2. QED
    BY <1>2, <2>1 DEF EOC, IntactMeansWhole
<1>3. QED
  BY <1>1, <1>2 DEF IInv, IntactMeansWhole

-----------------------------------------------------------------------------
(***************************************************************************)
(* The invariant is inductive, and the theorems that follow from it.       *)
(***************************************************************************)
\* Init establishes the invariant.
LEMMA FrameInit == Init => IInv
<1> SUFFICES ASSUME Init PROVE IInv
  OBVIOUS
<1>1. TypeOK
  BY TypeInit
<1>2. SlabInv
  BY SlabCounts, CapAssumption DEF Init, SlabInv, SlabsAccounted
<1>3. FlagInv /\ ParkedInFlight /\ SodInv
  BY DEF Init, FlagInv, WalkOnLatched, Opening, ParkedInFlight, SodInv
<1>4. TellInv
  BY DEF Init, TellInv, Opening, Walking
<1>5. DamageInv /\ StreakInv /\ IntactMeansWhole
  BY DEF Init, DamageInv, StreakInv, IntactMeansWhole, Opening, Walking
<1>6. QED
  BY <1>1, <1>2, <1>3, <1>4, <1>5 DEF IInv

\* Every step preserves it.
LEMMA FrameStep ==
  ASSUME IInv, [Next]_vars
  PROVE  IInv'
<1>1. TypeOK'
  BY TypeStep DEF IInv
<1>2. CASE Next
  BY Zenon, <1>1, <1>2, SlabPreserved, FlagPreserved, TellPreserved,
     ParkedPreserved, DamagePreserved, StreakPreserved, SodPreserved,
     IntactPreserved DEF IInv
<1>3. CASE UNCHANGED vars
  BY <1>1, <1>3
     DEF vars, IInv, SlabInv, SlabsAccounted, FlagInv, WalkOnLatched, TellInv,
         ParkedInFlight, DamageInv, StreakInv, SodInv, IntactMeansWhole,
         Opening, Walking
<1>4. QED
  BY <1>2, <1>3

\* The invariant holds throughout.
THEOREM FrameInvariant == Spec => []IInv
BY FrameInit, FrameStep, PTL DEF Spec

\* pull_data() leaks no slab: each is released or held for the open frame, and
\* no more than the cap are held, whatever way frames end.
THEOREM SlabsNeverLeak == Spec => []SlabsAccounted
<1>1. IInv => SlabsAccounted
  BY DEF IInv, SlabInv
<1>2. QED
  BY <1>1, FrameInvariant, PTL

\* Handler and consumer agree on the open frame and its bytes; no abort is
\* repeated.
THEOREM ConsumerInStep == Spec => []ConsumerAgrees
<1>1. IInv => ConsumerAgrees
  BY DEF IInv, TellInv, ConsumerAgrees, Walking
<1>2. QED
  BY <1>1, FrameInvariant, PTL

\* No frame is walked without a latched structure, without its slabs, or from
\* a tile that was not restarted.
THEOREM WalksAreLatched == Spec => []WalkOnLatched
<1>1. IInv => WalkOnLatched
  BY DEF IInv, FlagInv
<1>2. QED
  BY <1>1, FrameInvariant, PTL

\* A frame with a complete header is walked from the end of that header.
THEOREM OwnBodyStart == Spec => []BodyStart
<1>1. IInv => BodyStart
  BY DEF IInv, SodInv, BodyStart
<1>2. QED
  BY <1>1, FrameInvariant, PTL

\* A parked walk belongs to the frame in flight, which lost packets.
THEOREM ParkedWalks == Spec => []ParkedInFlight
<1>1. IInv => ParkedInFlight
  BY DEF IInv
<1>2. QED
  BY <1>1, FrameInvariant, PTL

\* The streak of the escape hatch is the number of frames whose bytes did not
\* parse since the last clean frame or latch.
THEOREM HatchCountsExactly == Spec => []StreakExact
<1>1. IInv => StreakExact
  BY DEF IInv, StreakInv, StreakExact
<1>2. QED
  BY <1>1, FrameInvariant, PTL

\* A frame reported intact lost no packet and failed in no walk before EOC.
THEOREM IntactFramesAreWhole == Spec => []IntactMeansWhole
<1>1. IInv => IntactMeansWhole
  BY DEF IInv
<1>2. QED
  BY <1>1, FrameInvariant, PTL
=============================================================================

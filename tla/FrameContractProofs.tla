-------------------------- MODULE FrameContractProofs --------------------------
(***************************************************************************)
(* What the comments promise an incremental consumer, for the streams that *)
(* the promise holds for: FrameHandler implements IncrementalDelivery, and *)
(* the caches of a consumer are those of the geometry that is walked.      *)
(***************************************************************************)
EXTENDS FrameProofs

\* The names of groups of variables are always expanded.
USE DEF countVars, streakVars, resyncVars, flagVars, chainVars, latchVars,
        callVars, tellVars, notLatch

-----------------------------------------------------------------------------
(***************************************************************************)
(* With whole headers, slabs are held exactly while a frame is open for    *)
(* the handler, and EOC is reached by frames that are not aborted.         *)
(***************************************************************************)
ContractInv ==
  /\ pc = "walk" => pk.ORDB
  /\ pc = "eoc" /\ pk.marker => Walking
  /\ held_slabs = {} => phase # "open"
  /\ held_slabs # {} => Opening \/ is_passed_header \/ is_parsing_failure

\* No step lets the chain outlive the frame or the frame the chain.
LEMMA ContractPreserved ==
  ASSUME WholeHeaders(Pkts), IInv, ContractInv, Next
  PROVE  ContractInv'
<1>1. ASSUME NEW p \in Pkts, NEW i \in Slabs, PullPlain(p, i)
      PROVE  ContractInv'
  BY <1>1 DEF IInv, TypeOK, FlagInv, WalkOnLatched, TellInv, ContractInv,
     Opening, Walking, PullPlain, Call
<1>2. ASSUME NEW p \in Pkts, NEW i \in Slabs, PullGapAccepted(p, i)
      PROVE  ContractInv'
  BY <1>2 DEF IInv, TypeOK, FlagInv, WalkOnLatched, TellInv, ContractInv,
     Opening, Walking, PullGapAccepted, Call, InFlight
<1>3. ASSUME NEW p \in Pkts, NEW i \in Slabs, PullGapAborted(p, i)
      PROVE  ContractInv'
  BY <1>3 DEF IInv, TypeOK, FlagInv, WalkOnLatched, TellInv, ContractInv,
     Opening, Walking, PullGapAborted, Call, InFlight, FireAbort
<1>4. CASE CapFire
  BY <1>4 DEF IInv, TypeOK, FlagInv, WalkOnLatched, TellInv, ContractInv,
     Opening, Walking, CapFire, FireAbort, ReleaseHeld, EndFrameStreak,
     EndHistory
<1>5. CASE CapPass \/ SkipBody
  BY <1>5 DEF IInv, TypeOK, FlagInv, WalkOnLatched, TellInv, ContractInv,
     Opening, Walking, CapPass, SkipBody, Skipping, Return
<1>6. CASE SkipEnd
  BY <1>6 DEF IInv, TypeOK, FlagInv, WalkOnLatched, TellInv, ContractInv,
     Opening, Walking, SkipEnd, Skipping, FireAbort, ReleaseHeld,
     EndFrameStreak, EndHistory, Return
<1>7. CASE SkipStray
  BY <1>7 DEF IInv, TypeOK, FlagInv, WalkOnLatched, TellInv, ContractInv,
     Opening, Walking, SkipStray, Skipping, ReleaseHeld, EndHistory, Return
<1>8. CASE MissedEOC
  BY <1>8 DEF IInv, TypeOK, FlagInv, WalkOnLatched, TellInv, ContractInv,
     Opening, Walking, MissedEOC, FireAbort, ReleaseHeld, EndFrameStreak,
     EndHistory
<1>9. CASE MainAppend
  BY <1>9, PacketTypes DEF IInv, TypeOK, FlagInv, WalkOnLatched, TellInv,
     ContractInv, Opening, Walking, MainAppend, DeliverChunk
<1>10. CASE VerifyMalformed \/ LatchFail
  BY <1>10 DEF IInv, TypeOK, FlagInv, WalkOnLatched, TellInv, ContractInv,
     Opening, Walking, VerifyMalformed, RefuseHeader, FireAbort, Return,
     LatchFail
<1>11. CASE VerifyLatched \/ VerifyNothing
  BY <1>11 DEF IInv, TypeOK, FlagInv, WalkOnLatched, TellInv, ContractInv,
     Opening, Walking, VerifyLatched, VerifyNothing
<1>12. CASE LatchNew \/ LatchReuse
  BY <1>12 DEF IInv, TypeOK, FlagInv, WalkOnLatched, TellInv, ContractInv,
     Opening, Walking, LatchNew, LatchReuse
<1>13. CASE LatchSplit
  BY <1>13 DEF LatchSplit, WholeHeaders, IInv, TypeOK
<1>14. CASE BodyAppend
  BY <1>14, PacketTypes DEF IInv, TypeOK, FlagInv, WalkOnLatched, TellInv,
     ContractInv, Opening, Walking, BodyAppend, DeliverChunk
<1>15. ASSUME NEW b \in BOOLEAN, WalkParked(b) \/ WalkParsed(b)
       PROVE  ContractInv'
  BY <1>15 DEF IInv, TypeOK, FlagInv, WalkOnLatched, TellInv, ContractInv,
     Opening, Walking, WalkParked, WalkParsed, OfferPoint
<1>16. CASE WalkFailed
  <2>1. ~pk.marker
    BY <1>16 DEF WalkFailed, WholeHeaders, ContractInv, IInv, TypeOK
  <2>2. QED
    BY <1>16, <2>1 DEF WalkFailed, FireAbort, IInv, TellInv, ContractInv,
                   Opening, Walking
<1>17. CASE NotEOC \/ Rest
  BY <1>17 DEF IInv, TypeOK, FlagInv, WalkOnLatched, TellInv, ContractInv,
     Opening, Walking, NotEOC, Return, Rest, vars
<1>18. ASSUME NEW b \in BOOLEAN, EOC(b)
       PROVE  ContractInv'
  BY <1>18 DEF IInv, TypeOK, FlagInv, WalkOnLatched, TellInv, ContractInv,
     Opening, Walking, EOC, FrameIntact, ReleaseHeld, EndFrameStreak,
     EndHistory, Return
<1>19. QED
  BY Zenon, <1>1, <1>2, <1>3, <1>4, <1>5, <1>6, <1>7, <1>8, <1>9, <1>10, <1>11,
     <1>12, <1>13, <1>14, <1>15, <1>16, <1>17, <1>18 DEF Next, MainStep,
     BodyStep

\* The invariant of the contract holds throughout.
LEMMA ContractInvariant ==
  ASSUME WholeHeaders(Pkts)
  PROVE  Spec => []ContractInv
<1>1. Init => ContractInv
  BY DEF Init, ContractInv
<1>2. IInv /\ ContractInv /\ [Next]_vars => ContractInv'
  <2>1. CASE UNCHANGED vars
    BY <2>1 DEF vars, ContractInv, Opening, Walking
  <2>2. QED
    BY <2>1, ContractPreserved
<1>3. QED
  BY <1>1, <1>2, FrameInvariant, PTL DEF Spec

\* Between calls, a frame without slabs is not left open for the consumer.
THEOREM FramesAreClosed ==
  ASSUME WholeHeaders(Pkts)
  PROVE  Spec => []EveryFrameEnds
<1>1. ContractInv => EveryFrameEnds
  BY DEF ContractInv, EveryFrameEnds
<1>2. QED
  BY <1>1, ContractInvariant, PTL

-----------------------------------------------------------------------------
(***************************************************************************)
(* The refinement.                                                         *)
(***************************************************************************)
\* fire_abort() tells the consumer of the open frame, or does nothing.
LEMMA AbortIsAllowed ==
  ASSUME TellInv, FireAbort
  PROVE  Delivery!Abort \/ UNCHANGED <<phase, off>>
BY DEF TellInv, FireAbort, Delivery!Abort

\* Every step of pull_data() is one the consumer may see, or none.
LEMMA DeliveryStep ==
  ASSUME WholeHeaders(Pkts), IInv, ContractInv, Next
  PROVE  [Delivery!Next]_<<phase, off>>
<1>1. ASSUME NEW p \in Pkts, NEW i \in Slabs, PullPlain(p, i)
      PROVE  [Delivery!Next]_<<phase, off>>
  BY <1>1 DEF PullPlain, Call
<1>2. ASSUME NEW p \in Pkts, NEW i \in Slabs, PullGapAccepted(p, i)
      PROVE  [Delivery!Next]_<<phase, off>>
  BY <1>2 DEF PullGapAccepted, Call
<1>3. ASSUME NEW p \in Pkts, NEW i \in Slabs, PullGapAborted(p, i)
      PROVE  [Delivery!Next]_<<phase, off>>
  BY <1>3, AbortIsAllowed DEF IInv, Delivery!Next, PullGapAborted
<1>4. CASE CapFire
  BY <1>4, AbortIsAllowed DEF IInv, Delivery!Next, CapFire
<1>5. CASE CapPass \/ SkipBody
  BY <1>5 DEF CapPass, SkipBody
<1>6. CASE SkipEnd
  BY <1>6, AbortIsAllowed DEF IInv, Delivery!Next, SkipEnd
<1>7. CASE SkipStray
  BY <1>7 DEF SkipStray
<1>8. CASE MissedEOC
  BY <1>8, AbortIsAllowed DEF IInv, Delivery!Next, MissedEOC
<1>9. CASE MainAppend
  <2>1. /\ pk \in Pkts /\ pk.size \in Nat /\ chain_total = 0
        /\ phase # "open"
    BY <1>9, PacketTypes DEF MainAppend, IInv, TypeOK, TellInv, ContractInv
  <2>2. Delivery!FirstChunk(pk.size)
    BY SMTT(30), <1>9, <2>1 DEF MainAppend, DeliverChunk, Delivery!FirstChunk
  <2>3. QED
    BY <2>1, <2>2 DEF Delivery!Next
<1>10. CASE VerifyMalformed \/ LatchFail
  BY Zenon, <1>10, AbortIsAllowed
     DEF IInv, Delivery!Next, VerifyMalformed, RefuseHeader, LatchFail
<1>11. CASE VerifyLatched \/ VerifyNothing
  BY <1>11 DEF VerifyLatched, VerifyNothing
<1>12. CASE LatchNew \/ LatchReuse
  BY <1>12 DEF LatchNew, LatchReuse
<1>13. CASE LatchSplit
  BY <1>13 DEF LatchSplit
<1>14. CASE BodyAppend
  <2>1. pk \in Pkts /\ phase = "open" /\ off = chain_total
    BY <1>14 DEF BodyAppend, IInv, TypeOK, TellInv, Walking
  <2>2. Delivery!NextChunk(pk.size)
    BY <1>14, <2>1 DEF BodyAppend, DeliverChunk, Delivery!NextChunk
  <2>3. QED
    BY <2>1, <2>2 DEF Delivery!Next
<1>15. ASSUME NEW b \in BOOLEAN, WalkParked(b) \/ WalkParsed(b)
       PROVE  [Delivery!Next]_<<phase, off>>
  BY <1>15 DEF WalkParked, WalkParsed
<1>16. CASE WalkFailed
  BY Zenon, <1>16, AbortIsAllowed DEF IInv, Delivery!Next, WalkFailed
<1>17. CASE NotEOC \/ Rest
  BY <1>17 DEF NotEOC, Rest, vars
<1>18. ASSUME NEW b \in BOOLEAN, EOC(b)
       PROVE  [Delivery!Next]_<<phase, off>>
  <2>1. phase = "open"
    BY <1>18 DEF EOC, IInv, TellInv, ContractInv
  <2>2. QED
    BY <1>18, <2>1 DEF EOC, Delivery!Ready, Delivery!Next
<1>19. QED
  BY Zenon, <1>1, <1>2, <1>3, <1>4, <1>5, <1>6, <1>7, <1>8, <1>9, <1>10, <1>11,
     <1>12, <1>13, <1>14, <1>15, <1>16, <1>17, <1>18 DEF Next, MainStep,
     BodyStep

\* A frame arrives at the consumer in contiguous chunks from offset 0 and ends
\* in one frame_ready or one frame_abort before the next begins, if no main
\* header is split and no EOC packet carries a resync point.
THEOREM DeliveryContract ==
  ASSUME WholeHeaders(Pkts)
  PROVE  Spec => ImplementsDelivery
<1>1. Init => Delivery!Init
  BY DEF Init, Delivery!Init
<1>2. IInv /\ ContractInv /\ [Next]_vars => [Delivery!Next]_<<phase, off>>
  BY DeliveryStep DEF vars
<1>3. QED
  BY <1>1, <1>2, FrameInvariant, ContractInvariant, PTL
     DEF Spec, ImplementsDelivery, Delivery!Spec, Delivery!delivery

-----------------------------------------------------------------------------
(***************************************************************************)
(* The caches of the consumer.                                             *)
(***************************************************************************)
\* The structure is dropped only by a header that replaces it in the same call.
CacheInv ==
  /\ ready => cached = geom
  /\ ready \/ cached = 0
       \/ (pc = "latch" /\ relatch # "none" /\ pk.MH >= 2 /\ pk.hdr.sig # 0)

\* A consumer is told of every structure that replaces another.
LEMMA CachePreserved ==
  ASSUME SupportedHeaders(Pkts), TypeOK, CacheInv, Next
  PROVE  CacheInv'
<1>1. ASSUME NEW p \in Pkts, NEW i \in Slabs, PullPlain(p, i)
      PROVE  CacheInv'
  BY <1>1 DEF CacheInv, PullPlain, Call
<1>2. ASSUME NEW p \in Pkts, NEW i \in Slabs, PullGapAccepted(p, i)
      PROVE  CacheInv'
  BY <1>2 DEF CacheInv, PullGapAccepted, Call, InFlight
<1>3. ASSUME NEW p \in Pkts, NEW i \in Slabs, PullGapAborted(p, i)
      PROVE  CacheInv'
  BY <1>3 DEF CacheInv, PullGapAborted, Call, InFlight, FireAbort
<1>4. CASE CapFire
  BY Zenon, <1>4 DEF CacheInv, CapFire, FireAbort, ReleaseHeld,
     EndFrameStreak, EndHistory
<1>5. CASE CapPass \/ SkipBody
  BY SMTT(30), <1>5 DEF CacheInv, CapPass, SkipBody, Skipping, Return
<1>6. CASE SkipEnd
  BY <1>6 DEF CacheInv, SkipEnd, Skipping, FireAbort, ReleaseHeld,
     EndFrameStreak, EndHistory, Return
<1>7. CASE SkipStray
  BY <1>7 DEF CacheInv, SkipStray, Skipping, ReleaseHeld, EndHistory, Return
<1>8. CASE MissedEOC
  BY <1>8 DEF CacheInv, MissedEOC, FireAbort, ReleaseHeld, EndFrameStreak,
     EndHistory
<1>9. CASE MainAppend
  BY <1>9 DEF CacheInv, MainAppend, DeliverChunk
<1>10. CASE VerifyMalformed \/ LatchFail
  <2>1. LatchFail => cached = 0
    BY DEF LatchFail, CacheInv, SupportedHeaders, TypeOK
  <2>2. QED
    BY <1>10, <2>1 DEF VerifyMalformed, LatchFail, RefuseHeader, CacheInv
<1>11. CASE VerifyLatched \/ VerifyNothing
  <2>1. VerifyLatched => (ready' <=> relatch' = "none") /\ ready
    BY Zenon DEF VerifyLatched
  <2>2. QED
    BY <1>11, <2>1 DEF VerifyLatched, VerifyNothing, CacheInv
<1>12. CASE LatchNew
  <2>1. ready' /\ (relatch # "none" \/ cached = 0 => cached' = geom')
    BY Zenon, <1>12 DEF LatchNew
  <2>2. relatch # "none" \/ cached = 0
    BY Zenon, <1>12 DEF LatchNew, CacheInv
  <2>3. QED
    BY Zenon, <2>1, <2>2 DEF CacheInv
<1>13. CASE LatchReuse \/ LatchSplit
  <2>1. UNCHANGED <<ready, geom, cached>>
    BY Zenon, <1>13 DEF LatchReuse, LatchSplit
  <2>2. ready \/ cached = 0
    <3>1. LatchReuse => ready
      BY Zenon DEF LatchReuse
    <3>2. LatchSplit => ~(pk.MH >= 2)
      BY DEF LatchSplit
    <3>3. QED
      BY Zenon, <1>13, <3>1, <3>2 DEF CacheInv
  <2>3. QED
    BY <2>1, <2>2 DEF CacheInv
<1>14. CASE BodyAppend
  BY <1>14 DEF CacheInv, BodyAppend, DeliverChunk
<1>15. ASSUME NEW b \in BOOLEAN, WalkParked(b) \/ WalkParsed(b)
       PROVE  CacheInv'
  BY <1>15 DEF CacheInv, WalkParked, WalkParsed, OfferPoint
<1>16. CASE WalkFailed
  BY <1>16 DEF CacheInv, WalkFailed, FireAbort
<1>17. CASE NotEOC \/ Rest
  BY <1>17 DEF CacheInv, NotEOC, Return, Rest, vars
<1>18. ASSUME NEW b \in BOOLEAN, EOC(b)
       PROVE  CacheInv'
  BY <1>18 DEF CacheInv, EOC, FrameIntact, ReleaseHeld, EndFrameStreak,
     EndHistory, Return
<1>19. QED
  BY Zenon, <1>1, <1>2, <1>3, <1>4, <1>5, <1>6, <1>7, <1>8, <1>9, <1>10, <1>11,
     <1>12, <1>13, <1>14, <1>15, <1>16, <1>17, <1>18 DEF Next, MainStep,
     BodyStep

\* While frames are walked, the consumer's caches are for their geometry, if
\* every header that is accepted can be latched.
THEOREM CachesAreFresh ==
  ASSUME SupportedHeaders(Pkts)
  PROVE  Spec => []CacheFresh
<1>1. Init => CacheInv
  BY DEF Init, CacheInv
<1>2. IInv /\ CacheInv /\ [Next]_vars => CacheInv'
  <2>1. CASE UNCHANGED vars
    BY <2>1 DEF vars, CacheInv
  <2>2. QED
    BY <2>1, CachePreserved DEF IInv
<1>3. IInv /\ CacheInv => CacheFresh
  BY DEF IInv, FlagInv, WalkOnLatched, CacheInv, CacheFresh
<1>4. QED
  BY <1>1, <1>2, <1>3, FrameInvariant, PTL DEF Spec
=============================================================================

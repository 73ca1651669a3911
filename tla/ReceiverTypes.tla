---------------------------- MODULE ReceiverTypes ----------------------------
(***************************************************************************)
(* Type correctness of Receiver, for every ring size, jitter depth, set of *)
(* packets and network bound, and the arithmetic of its indices.           *)
(***************************************************************************)
EXTENDS Receiver, TLAPS

-----------------------------------------------------------------------------
(***************************************************************************)
(* Arithmetic of ring indices and sequence numbers.                        *)
(***************************************************************************)
\* A remainder lies between 0 and the divisor.
LEMMA ModRange ==
  ASSUME NEW a \in Int, NEW b \in Nat \ {0}
  PROVE  a % b \in 0 .. b - 1
OBVIOUS

\* Slots and sequence numbers have their types.
LEMMA IndexTypes ==
  /\ 0 \in Slots /\ 0 \in Seqs /\ Slots \subseteq Nat /\ Seqs \subseteq Nat
  /\ \A n \in Int : SeqOf(n) \in Seqs
  /\ \A s \in Seqs : SlotOf(s) \in Slots /\ NextSeq(s) \in Seqs
  /\ \A k \in Slots : NextIdx(k) \in Slots
BY ModRange, RingAssumption, SeqAssumption
   DEF Slots, Seqs, SeqOf, SlotOf, NextSeq, NextIdx

\* NextIdx steps to the next index and wraps at the end of the ring.
LEMMA NextIdxWraps ==
  ASSUME NEW k \in Slots
  PROVE  NextIdx(k) = IF k + 1 = kRingSize THEN 0 ELSE k + 1
BY RingAssumption DEF Slots, NextIdx

-----------------------------------------------------------------------------
(***************************************************************************)
(* Type correctness.                                                       *)
(***************************************************************************)
\* The names of groups of variables are always expanded.
USE DEF mainVars, ringVars, headVars, openVars, countVars, queueVars, workVars,
        hookVars, dispVars, threadVars, notDispatch, notRing, notWorker

\* Packet numbers are integers, and so is the value that stands for no packet.
LEMMA PacketsAreInts == Packets \cup {NoPkt} \subseteq Int
BY NetworkAssumption DEF NoPkt

\* The head of the window and the datagram at hand have their slots.
LEMMA SlotTypes == TypeOK => headSlot \in Slots /\ pktSlot \in Slots
BY Zenon, IndexTypes, PacketsAreInts DEF TypeOK, headSlot, pktSlot

\* Every step of start() and stop() preserves the types.
LEMMA TypeMain ==
  ASSUME TypeOK, (\E h \in BOOLEAN : Start(h)) \/ StopFlag \/ StopStep
  PROVE  TypeOK'
<1>1. ASSUME NEW h \in BOOLEAN, Start(h) PROVE TypeOK'
  <2>1. running' \in BOOLEAN /\ sock' \in BOOLEAN /\ hook' \in BOOLEAN
    BY <1>1 DEF Start
  <2>2. started' \in BOOLEAN /\ draining' \in BOOLEAN
    BY Zenon, <1>1 DEF Start
  <2>3. QED
    BY <1>1, <2>1, <2>2, IndexTypes, BoundAssumption, PacketsAreInts
       DEF TypeOK, Start
<1>2. CASE StopFlag
  <2>1. running' \in BOOLEAN
    BY Zenon, <1>2 DEF StopFlag
  <2>2. QED
    BY <1>2, <2>1 DEF TypeOK, StopFlag
<1>3. CASE StopClose
  <2>1. sock' \in BOOLEAN
    BY Zenon, <1>3 DEF StopClose
  <2>2. QED
    BY <1>3, <2>1 DEF TypeOK, StopClose
<1>4. CASE StopJoinRecv
  BY <1>4 DEF TypeOK, StopJoinRecv
<1>5. CASE StopLock
  BY <1>5 DEF TypeOK, StopLock
<1>6. CASE StopNotify
  BY <1>6 DEF TypeOK, StopNotify, Notified
<1>7. CASE StopJoinWorker
  BY <1>7 DEF TypeOK, StopJoinWorker
<1>8. QED
  BY <1>1, <1>2, <1>3, <1>4, <1>5, <1>6, <1>7 DEF StopStep

\* Every step of the recv thread preserves the types.
LEMMA TypeRecv ==
  ASSUME TypeOK,
         RecvIgnore \/ RecvError \/ RecvStep \/ (\E n \in Packets : HandleDgram(n))
  PROVE  TypeOK'
<1>1. CASE RecvCheck
  BY <1>1 DEF TypeOK, RecvCheck
<1>2. CASE RecvIgnore
  BY <1>2 DEF TypeOK, RecvIgnore
<1>3. CASE RecvError
  BY <1>3 DEF TypeOK, RecvError
<1>4. CASE ForceMiss
  BY <1>4, IndexTypes DEF TypeOK, ForceMiss
<1>5. CASE ForceDispatch
  BY <1>5, IndexTypes, SlotTypes DEF TypeOK, ForceDispatch, BeginDispatch
<1>6. CASE DropDuplicate
  BY <1>6 DEF TypeOK, DropDuplicate, Return
<1>7. CASE DropAlias
  BY <1>7 DEF TypeOK, DropAlias, Return
<1>8. CASE DropBusy
  BY <1>8 DEF TypeOK, DropBusy, Return
<1>9. CASE StoreBegin
  BY <1>9, IndexTypes, PacketsAreInts, SlotTypes DEF TypeOK, StoreBegin
<1>10. CASE StoreEnd
  BY <1>10, IndexTypes, PacketsAreInts, SlotTypes DEF TypeOK, StoreEnd
<1>11. CASE ReleaseHead
  BY <1>11, IndexTypes, SlotTypes DEF TypeOK, ReleaseHead, BeginDispatch
<1>12. CASE ReleaseDone
  BY <1>12 DEF TypeOK, ReleaseDone, Return
<1>13. CASE DispatchProbe
  BY <1>13 DEF TypeOK, DispatchProbe
<1>14. CASE EnqueueFull
  BY <1>14, IndexTypes, SlotTypes DEF TypeOK, EnqueueFull, EndDispatch
<1>15. CASE EnqueueWrite
  <2>1. [slab_idx |-> headSlot, seq |-> slotSeq[headSlot]] \in Job
    BY SlotTypes DEF TypeOK, Job
  <2>2. QED
    BY <1>15, <2>1 DEF TypeOK, EnqueueWrite
<1>16. CASE EnqueuePublish
  BY <1>16, IndexTypes DEF TypeOK, EnqueuePublish
<1>17. CASE DispatchNotify
  BY <1>17, IndexTypes, SlotTypes DEF TypeOK, DispatchNotify, EndDispatch, Notified
<1>18. ASSUME NEW n \in Packets, HandleDgram(n) PROVE TypeOK'
  BY <1>18, IndexTypes, PacketsAreInts DEF TypeOK, HandleDgram
<1>19. QED
  BY <1>1, <1>2, <1>3, <1>4, <1>5, <1>6, <1>7, <1>8, <1>9, <1>10, <1>11, <1>12, <1>13, <1>14, <1>15, <1>16, <1>17, <1>18 DEF RecvStep

\* Every step of the worker and of the hook preserves the types.
LEMMA TypeWorker ==
  ASSUME TypeOK, WorkerStep \/ (\E i \in Slots : HookRelease(i))
  PROVE  TypeOK'
<1>1. CASE WorkerCheck
  BY <1>1 DEF TypeOK, WorkerCheck
<1>2. CASE DequeueEmpty
  BY <1>2 DEF TypeOK, DequeueEmpty
<1>3. CASE DequeueRead
  BY <1>3 DEF TypeOK, DequeueRead
<1>4. CASE DequeuePop
  BY <1>4, IndexTypes DEF TypeOK, DequeuePop
<1>5. CASE ProcessJob
  BY <1>5 DEF TypeOK, ProcessJob, Job
<1>6. CASE ProcessUnhooked
  BY <1>6 DEF TypeOK, ProcessUnhooked, Job, AfterJob
<1>7. CASE HookReturn
  BY <1>7 DEF TypeOK, HookReturn, AfterJob
<1>8. CASE WaitPredicate
  BY <1>8 DEF TypeOK, WaitPredicate
<1>9. CASE WaitSleep
  BY <1>9 DEF TypeOK, WaitSleep
<1>10. CASE WaitTimeout
  BY <1>10 DEF TypeOK, WaitTimeout
<1>11. ASSUME NEW i \in Slots, HookRelease(i) PROVE TypeOK'
  BY <1>11 DEF TypeOK, HookRelease
<1>12. QED
  BY <1>1, <1>2, <1>3, <1>4, <1>5, <1>6, <1>7, <1>8, <1>9, <1>10, <1>11 DEF WorkerStep

LEMMA TypeInit == Init => TypeOK
<1>1. Init => /\ running \in BOOLEAN /\ sock \in BOOLEAN /\ hook \in BOOLEAN
              /\ was_empty \in BOOLEAN /\ started \in BOOLEAN
              /\ draining \in BOOLEAN
  BY Zenon DEF Init
<1>2. QED
  BY <1>1, IndexTypes, BoundAssumption, PacketsAreInts DEF Init, TypeOK, Job

LEMMA TypeNext == TypeOK /\ [Next]_vars => TypeOK'
<1>1. CASE UNCHANGED vars
  BY <1>1 DEF TypeOK, vars
<1>2. CASE Finished
  BY <1>2 DEF TypeOK, vars, Finished
<1>3. QED
  BY <1>1, <1>2, TypeMain, TypeRecv, TypeWorker DEF Next

\* Every variable of the receiver keeps its type in every reachable state: in
\* particular every ring index, queue index and sequence number that the three
\* threads compute stays in range.
THEOREM TypeCorrect == Spec => []TypeOK
BY TypeInit, TypeNext, PTL DEF Spec
=============================================================================

---------------------------- MODULE ReceiverProofs ----------------------------
(***************************************************************************)
(* Ownership and exclusion of slabs, for every ring size, jitter depth,    *)
(* set of packets and network bound: the steps of the worker, of stop()    *)
(* and of start(), and the theorems.                                       *)
(***************************************************************************)
EXTENDS ReceiverOwnership

\* The names of groups of variables are always expanded.
USE DEF mainVars, ringVars, headVars, openVars, countVars, queueVars, workVars,
        hookVars, dispVars, threadVars, notDispatch, notRing, notWorker

-----------------------------------------------------------------------------
\* The steps of the worker that move no slab, and those of stop()
LEMMA OwnIdle ==
  ASSUME IInv, TypeOK',
         \/ WorkerCheck \/ DequeueEmpty \/ DequeueRead \/ HookReturn
         \/ WaitPredicate \/ WaitSleep \/ WaitTimeout
         \/ StopFlag \/ StopStep
  PROVE  IInv'
<1> DEFINE Still == UNCHANGED <<rpc, pkt, next_seq, filled, slotSeq, slab,
                               in_worker, job_queue, job_head, job_tail, lent>>
           Apart == (wpc = "process" \/ wpc' = "process") => wpc' = wpc
           Took  == \/ wjob' = wjob /\ (wpc' = "pop" => wpc' = wpc)
                    \/ DequeueRead
<1>1. Still /\ Apart /\ Took /\ JoinInv'
  <2>1. CASE WorkerCheck
    BY <2>1 DEF IInv, JoinInv, WorkerCheck
  <2>2. CASE DequeueEmpty
    BY <2>2 DEF IInv, JoinInv, DequeueEmpty
  <2>3. CASE DequeueRead
    BY <2>3 DEF IInv, JoinInv, DequeueRead
  <2>4. CASE HookReturn
    BY <2>4 DEF IInv, JoinInv, HookReturn, AfterJob
  <2>5. CASE WaitPredicate
    BY <2>5 DEF IInv, JoinInv, WaitPredicate
  <2>6. CASE WaitSleep
    BY <2>6 DEF IInv, JoinInv, WaitSleep
  <2>7. CASE WaitTimeout
    BY <2>7 DEF IInv, JoinInv, WaitTimeout
  <2>8. CASE StopFlag
    BY <2>8 DEF IInv, JoinInv, StopFlag
  <2>9. CASE StopClose
    BY <2>9 DEF IInv, JoinInv, StopClose
  <2>10. CASE StopJoinRecv
    BY <2>10 DEF IInv, JoinInv, StopJoinRecv
  <2>11. CASE StopLock
    BY <2>11 DEF IInv, JoinInv, StopLock
  <2>12. CASE StopNotify
    BY <2>12 DEF IInv, JoinInv, StopNotify, Notified
  <2>13. CASE StopJoinWorker
    BY <2>13 DEF IInv, JoinInv, StopJoinWorker
  <2>14. QED
    BY Zenon, <2>1, <2>2, <2>3, <2>4, <2>5, <2>6, <2>7, <2>8, <2>9, <2>10,
       <2>11, <2>12, <2>13 DEF StopStep
<1>2. RecvInv'
  BY <1>1 DEF IInv, RecvInv, HeadReady, headSlot, pktSlot
<1>3. WorkInv'
  BY <1>1 DEF IInv, WorkInv, DequeueRead
<1>4. JoinInv'
  BY <1>1
<1>5. CASE wjob' = wjob
  <2>1. SlabExclusive'
    BY <1>1, <1>5, SlabFrame DEF IInv
  <2>2. OwnershipExact'
    BY <1>1, <1>5, OwnershipFrame DEF IInv, Dispatching, headSlot
  <2>3. QED
    BY <1>2, <1>3, <1>4, <2>1, <2>2 DEF IInv
<1>6. CASE DequeueRead
  <2>1. wpc = "dequeue" /\ wpc' = "pop"
    BY <1>6 DEF DequeueRead
  <2>2. SlabExclusive'
    BY <1>1, <2>1 DEF IInv, SlabExclusive, Queued, Between, Describes
  <2>3. OwnershipExact'
    <3>1. \A i \in Slots : /\ ~InHand(i) /\ ~InHand(i)'
                           /\ Dispatching(i)' <=> Dispatching(i)
                           /\ Queued(i)' <=> Queued(i)
      BY <1>1, <2>1 DEF InHand, Dispatching, headSlot, Queued, Between
    <3>2. QED
      BY <1>1, <3>1, JobSlots DEF IInv, OwnershipExact
  <2>4. QED
    BY <1>2, <1>3, <1>4, <2>2, <2>3 DEF IInv
<1>7. QED
  BY Zenon, <1>1, <1>5, <1>6

\* The job leaves the queue for the worker's hands.
LEMMA OwnPop ==
  ASSUME IInv, TypeOK', DequeuePop
  PROVE  IInv'
<1>1. /\ wpc = "pop" /\ wpc' = "process" /\ job_head' = NextIdx(job_head)
      /\ UNCHANGED <<rpc, pkt, next_seq, filled, slotSeq, slab, in_worker,
                     job_queue, job_tail, lent, wjob, mpc>>
  BY DEF DequeuePop
<1>2. /\ TypeOK /\ job_head \in Slots /\ job_tail \in Slots
      /\ job_head # job_tail /\ wjob = job_queue[job_head]
  BY <1>1, RingTypes DEF IInv, WorkInv
<1>3. /\ Queued(job_head)
      /\ \A k \in Slots : Queued(k)' <=> Queued(k) /\ k # job_head
  BY Zenon, <1>1, <1>2, PopBetween DEF Queued
<1>4. RecvInv'
  <2>1. NextIdx(job_tail) # job_head => NextIdx(job_tail) # job_head'
    BY <1>1, <1>2, PopBetween
  <2>2. QED
    BY <1>1, <2>1 DEF IInv, RecvInv, HeadReady, headSlot, pktSlot
<1>5. WorkInv' /\ JoinInv'
  BY <1>1 DEF IInv, WorkInv, JoinInv
<1>6. SlabExclusive'
  BY Zenon, <1>1, <1>2, <1>3 DEF IInv, SlabExclusive, Describes
<1>7. OwnershipExact'
  <2>1. \A i \in Slots : /\ Dispatching(i)' <=> Dispatching(i)
                         /\ ~InHand(i)
                         /\ InHand(i)' <=> i = job_queue[job_head].slab_idx
    BY <1>1, <1>2 DEF InHand, Dispatching, headSlot
  <2>2. \A i \in Slots :
          in_worker'[i] = 1 <=>
            \/ Dispatching(i)' \/ InHand(i)' \/ i \in lent'
            \/ \E k \in Slots : Queued(k)' /\ job_queue'[k].slab_idx = i
    BY <1>1, <1>2, <1>3, <2>1 DEF IInv, OwnershipExact
  <2>3. /\ lent' = lent /\ lent \subseteq Slots /\ job_queue' = job_queue
        /\ \A k \in Slots : job_queue[k].slab_idx \in Slots
    BY Zenon, <1>1, <1>2, JobSlots
  <2>4. QED
    BY <1>2, <1>3, <2>1, <2>2, <2>3 DEF IInv, OwnershipExact
<1>8. QED
  BY <1>4, <1>5, <1>6, <1>7 DEF IInv

\* It goes to the hook, or straight back when there is none.
LEMMA OwnProcess ==
  ASSUME IInv, TypeOK', ProcessJob \/ ProcessUnhooked
  PROVE  IInv'
<1> DEFINE w == wjob.slab_idx
<1>1. /\ wpc = "process" /\ wpc' \notin {"process", "pop"} /\ wpc' # "done"
      /\ UNCHANGED <<rpc, pkt, next_seq, filled, slotSeq, slab, job_queue,
                     job_head, job_tail, wjob, mpc>>
      /\ \/ lent' = lent \cup {w} /\ in_worker' = in_worker
         \/ lent' = lent /\ in_worker' = [in_worker EXCEPT ![w] = 0]
  BY DEF ProcessJob, ProcessUnhooked, AfterJob
<1>2. TypeOK /\ w \in Slots /\ InHand(w) /\ ~Dispatching(w)
  BY <1>1, JobSlots DEF IInv, OwnershipExact, InHand
<1>3. \A i \in Slots : /\ Dispatching(i)' <=> Dispatching(i)
                       /\ InHand(i) <=> i = w
                       /\ ~InHand(i)'
                       /\ Queued(i)' <=> Queued(i)
  BY <1>1 DEF InHand, Dispatching, headSlot, Queued, Between
<1>4. RecvInv'
  <2>1. \A i \in Slots : /\ in_worker'[i] = 1 => in_worker[i] = 1
                         /\ in_worker[i] = 0 => in_worker'[i] = 0
    BY <1>1, <1>2, RingTypes
  <2>2. UNCHANGED <<headSlot, pktSlot>> /\ pktSlot \in Slots
    BY <1>1, <1>2, SlotTypes DEF headSlot, pktSlot
  <2>3. QED
    BY <1>1, <2>1, <2>2 DEF IInv, RecvInv, HeadReady
<1>5. WorkInv' /\ JoinInv'
  BY Zenon, <1>1 DEF IInv, WorkInv, JoinInv
<1>6. SlabExclusive'
  BY <1>1, <1>3 DEF IInv, SlabExclusive, Describes
<1>7. OwnershipExact'
  <2>1. /\ lent \subseteq Slots /\ job_queue' = job_queue
        /\ \A k \in Slots : job_queue[k].slab_idx \in Slots
    BY Zenon, <1>1, <1>2, JobSlots
  <2>2. CASE lent' = lent \cup {w} /\ in_worker' = in_worker
    BY <1>2, <1>3, <2>1, <2>2 DEF IInv, OwnershipExact
  <2>3. CASE lent' = lent /\ in_worker' = [in_worker EXCEPT ![w] = 0]
    <3>1. in_worker'[w] = 0 /\ \A i \in Slots \ {w} : in_worker'[i] = in_worker[i]
      BY <1>2, <2>3, RingTypes
    <3>2. /\ w \notin lent
          /\ \A k \in Slots : Queued(k) => job_queue[k].slab_idx # w
      BY <1>2, <2>1 DEF IInv, OwnershipExact
    <3>3. \A i \in Slots :
            in_worker'[i] = 1 <=>
              \/ Dispatching(i)' \/ InHand(i)' \/ i \in lent'
              \/ \E k \in Slots : Queued(k)' /\ job_queue'[k].slab_idx = i
      BY <1>2, <1>3, <2>1, <2>3, <3>1, <3>2 DEF IInv, OwnershipExact
    <3>4. QED
      BY <1>3, <2>1, <2>3, <3>3 DEF IInv, OwnershipExact
  <2>4. QED
    BY Zenon, <1>1, <2>2, <2>3
<1>8. QED
  BY <1>4, <1>5, <1>6, <1>7 DEF IInv

\* The hook gives a slab back.
LEMMA OwnRelease ==
  ASSUME IInv, TypeOK', NEW r \in Slots, HookRelease(r)
  PROVE  IInv'
<1>1. /\ wpc = "hook" /\ r \in lent /\ lent' = lent \ {r}
      /\ in_worker' = [in_worker EXCEPT ![r] = 0]
      /\ UNCHANGED <<rpc, pkt, next_seq, filled, slotSeq, slab, job_queue,
                     job_head, job_tail, wjob, wpc, mpc>>
  BY DEF HookRelease
<1>2. \A i \in Slots : /\ Dispatching(i)' <=> Dispatching(i)
                       /\ ~InHand(i) /\ ~InHand(i)'
                       /\ Queued(i)' <=> Queued(i)
  BY <1>1 DEF InHand, Dispatching, headSlot, Queued, Between
<1>3. RecvInv'
  BY <1>1, RingTypes DEF IInv, RecvInv, HeadReady, headSlot, pktSlot
<1>4. WorkInv' /\ JoinInv'
  BY Zenon, <1>1 DEF IInv, WorkInv, JoinInv
<1>5. SlabExclusive'
  BY Zenon, <1>1, <1>2 DEF IInv, SlabExclusive, Describes
<1>6. OwnershipExact'
  <2>1. r \in lent /\ lent' = lent \ {r} /\ job_queue' = job_queue
    BY Zenon, <1>1
  <2>2. /\ ~Dispatching(r)
        /\ \A k \in Slots : Queued(k) => job_queue[k].slab_idx # r
    BY <2>1 DEF IInv, OwnershipExact
  <2>3. in_worker'[r] = 0 /\ \A i \in Slots \ {r} : in_worker'[i] = in_worker[i]
    BY <1>1, RingTypes DEF IInv
  <2>4. \A i \in Slots :
          in_worker[i] = 1 <=>
            \/ Dispatching(i) \/ InHand(i) \/ i \in lent
            \/ \E k \in Slots : Queued(k) /\ job_queue[k].slab_idx = i
    BY Zenon DEF IInv, OwnershipExact
  <2>5. \A i \in Slots :
          in_worker'[i] = 1 <=>
            \/ Dispatching(i)' \/ InHand(i)' \/ i \in lent'
            \/ \E k \in Slots : Queued(k)' /\ job_queue'[k].slab_idx = i
    BY <1>2, <2>1, <2>2, <2>3, <2>4
  <2>6. lent \subseteq Slots /\ \A k \in Slots :
                                Queued(k) => job_queue[k].slab_idx \in Slots
    BY JobSlots DEF IInv
  <2>7. QED
    BY Zenon, <1>2, <2>1, <2>5, <2>6 DEF IInv, OwnershipExact
<1>7. QED
  BY <1>3, <1>4, <1>5, <1>6 DEF IInv

\* start() resets every flag, and no slab is with the hook.
LEMMA OwnStart ==
  ASSUME IInv, TypeOK', RestartWhileLent = FALSE, NEW h \in BOOLEAN, Start(h)
  PROVE  IInv'
<1>1. /\ rpc' = "check" /\ wpc' = "check" /\ mpc' = "run"
      /\ lent = {} /\ lent' = {} /\ job_head' = 0 /\ job_tail' = 0
      /\ filled' = [i \in Slots |-> FALSE]
      /\ in_worker' = [i \in Slots |-> 0]
  BY DEF Start
<1>2. \A i \in Slots : ~Dispatching(i)' /\ ~InHand(i)' /\ ~Queued(i)'
  BY <1>1, IndexTypes, TailIsFree DEF Dispatching, InHand, Queued
<1>3. RecvInv' /\ WorkInv' /\ JoinInv'
  BY <1>1 DEF RecvInv, WorkInv, JoinInv, Busy
<1>4. SlabExclusive' /\ OwnershipExact'
  BY <1>1, <1>2 DEF SlabExclusive, OwnershipExact
<1>5. QED
  BY <1>3, <1>4 DEF IInv

\* The invariant holds before the first start().
LEMMA OwnInit == Init => IInv
<1> SUFFICES ASSUME Init PROVE IInv
  OBVIOUS
<1>1. \A i \in Slots : ~Dispatching(i) /\ ~InHand(i) /\ ~Queued(i)
  BY IndexTypes, TailIsFree DEF Init, Dispatching, InHand, Queued
<1>2. RecvInv /\ WorkInv /\ JoinInv
  BY DEF Init, RecvInv, WorkInv, JoinInv, Busy
<1>3. SlabExclusive /\ OwnershipExact
  BY <1>1 DEF Init, SlabExclusive, OwnershipExact
<1>4. QED
  BY <1>2, <1>3, TypeInit DEF IInv

\* Every step preserves the invariant.
LEMMA OwnNext ==
  ASSUME RestartWhileLent = FALSE
  PROVE  IInv /\ [Next]_vars => IInv'
<1> SUFFICES ASSUME IInv, [Next]_vars PROVE IInv'
  OBVIOUS
<1>1. TypeOK'
  BY TypeNext DEF IInv
<1>2. CASE UNCHANGED vars
  <2>1. RecvInv' /\ WorkInv' /\ JoinInv'
    BY <1>2 DEF vars, IInv, RecvInv, WorkInv, JoinInv, HeadReady, headSlot,
       pktSlot
  <2>2. SlabExclusive'
    BY <1>2, SlabFrame DEF vars, IInv
  <2>3. OwnershipExact'
    BY <1>2, OwnershipFrame DEF vars, IInv, Dispatching, headSlot
  <2>4. QED
    BY ZenonT(30), <1>1, <2>1, <2>2, <2>3 DEF IInv
<1>3. CASE \E h \in BOOLEAN : Start(h)
  BY Zenon, <1>1, <1>3, OwnStart
<1>4. CASE StopFlag \/ StopStep
  BY <1>1, <1>4, OwnIdle
<1>5. CASE RecvIgnore \/ RecvError \/ \E n \in Packets : HandleDgram(n)
  BY <1>1, <1>5, OwnRead
<1>6. CASE RecvStep
  BY <1>1, <1>6, OwnRead, OwnProbe, OwnStore, OwnBegin, OwnFull, OwnWrite, OwnPublish,
     OwnNotify DEF RecvStep
<1>7. CASE WorkerStep
  BY <1>1, <1>7, OwnIdle, OwnPop, OwnProcess DEF WorkerStep
<1>8. CASE \E i \in Slots : HookRelease(i)
  BY <1>1, <1>8, OwnRelease
<1>9. CASE Finished
  BY <1>2, <1>9 DEF Finished
<1>10. QED
  BY <1>2, <1>3, <1>4, <1>5, <1>6, <1>7, <1>8, <1>9 DEF Next

\* For every ring size, jitter depth and network, and for any number of
\* sessions: if start() is only called when the hook has given back the slabs
\* of the session before, in_worker is set for exactly the slabs that are being
\* dispatched, queued, in the worker's hands or kept by the hook, and no slab is
\* owned twice.
THEOREM SlabOwnership ==
  ASSUME RestartWhileLent = FALSE
  PROVE  Spec => []OwnershipExact
<1>1. IInv => OwnershipExact
  BY DEF IInv
<1>2. QED
  BY <1>1, OwnInit, OwnNext, PTL DEF Spec

\* Under the same condition the recv thread never overwrites a slab between the
\* publication of its job and its release by the hook.
THEOREM SlabExclusion ==
  ASSUME RestartWhileLent = FALSE
  PROVE  Spec => []SlabExclusive
<1>1. IInv => SlabExclusive
  BY DEF IInv
<1>2. QED
  BY <1>1, OwnInit, OwnNext, PTL DEF Spec
=============================================================================

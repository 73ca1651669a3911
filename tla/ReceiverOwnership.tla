-------------------------- MODULE ReceiverOwnership --------------------------
(***************************************************************************)
(* Who owns a slab: the inductive invariant, facts about the circular      *)
(* queue, and the steps of the recv thread.                                *)
(***************************************************************************)
EXTENDS ReceiverTypes

\* The names of groups of variables are always expanded.
USE DEF mainVars, ringVars, headVars, openVars, countVars, queueVars, workVars,
        hookVars, dispVars, threadVars, notDispatch, notRing, notWorker

-----------------------------------------------------------------------------
(***************************************************************************)
(* Ownership of the slabs.  The inductive invariant adds to SlabExclusive  *)
(* and OwnershipExact what each thread knows at its own place in the code. *)
(***************************************************************************)
\* The recv thread is inside dispatch().
Busy == {"dispatch", "enqueue", "publish", "notify"}

\* What the recv thread knows: it works on a packet; the slot it copies to is
\* free; the slot it dispatches is the ready head; the job it is about to
\* publish is written and fits; and a filled slot that is not being dispatched
\* is not the worker's.
RecvInv ==
  /\ rpc \notin {"check", "recv", "done"} => pkt # NoPkt
  /\ rpc = "copy" => ~filled[pktSlot] /\ in_worker[pktSlot] = 0
  /\ rpc \in Busy => HeadReady
  /\ rpc = "publish" =>
       /\ NextIdx(job_tail) # job_head
       /\ job_queue[job_tail] = [slab_idx |-> headSlot,
                                 seq |-> slotSeq[headSlot]]
  /\ \A i \in Slots : filled[i] =>
       /\ slab[i] # NoPkt /\ slotSeq[i] = SeqOf(slab[i])
       /\ in_worker[i] = 1 => rpc \in Busy /\ i = headSlot

\* What the worker knows between reading a job and moving job_head_
WorkInv == wpc = "pop" => job_head # job_tail /\ wjob = job_queue[job_head]

\* What stop() knows from its joins
JoinInv ==
  /\ mpc \in {"lock", "notify", "joinw", "idle"} => rpc = "done"
  /\ mpc = "idle" => wpc = "done"

IInv ==
  TypeOK /\ RecvInv /\ WorkInv /\ JoinInv /\ SlabExclusive /\ OwnershipExact

-----------------------------------------------------------------------------
(***************************************************************************)
(* Frame lemmas and lemmas about the circular queue.                       *)
(***************************************************************************)
\* Nothing lies between an index and itself, and the tail is not in the queue.
LEMMA TailIsFree ==
  ASSUME NEW h \in Slots, NEW t \in Slots
  PROVE  ~Between(h, t, t) /\ \A k \in Slots : ~Between(h, h, k)
BY IndexTypes DEF Between

\* Publishing adds the old tail to the queue and nothing else.
LEMMA PushBetween ==
  ASSUME NEW h \in Slots, NEW t \in Slots, NEW k \in Slots, NextIdx(t) # h
  PROVE  Between(h, NextIdx(t), k) <=> Between(h, t, k) \/ k = t
BY IndexTypes, NextIdxWraps, RingAssumption DEF Between, Slots

\* Popping removes the head of a queue that is not empty and nothing else.
LEMMA PopBetween ==
  ASSUME NEW h \in Slots, NEW t \in Slots, NEW k \in Slots, h # t
  PROVE  /\ Between(NextIdx(h), t, k) <=> Between(h, t, k) /\ k # h
         /\ Between(h, t, h)
         /\ NextIdx(t) # h => NextIdx(t) # NextIdx(h)
BY IndexTypes, NextIdxWraps, RingAssumption DEF Between, Slots

\* A step that touches no flag, no job and no dispatch keeps the ownership.
LEMMA OwnershipFrame ==
  ASSUME OwnershipExact,
         UNCHANGED <<in_worker, job_queue, job_head, job_tail, lent, wjob>>,
         wpc' = "process" <=> wpc = "process",
         \A i \in Slots : Dispatching(i)' <=> Dispatching(i),
         TypeOK
  PROVE  OwnershipExact'
<1>1. \A k \in Slots : Queued(k)' <=> Queued(k)
  BY DEF Queued, Between
<1>2. \A i \in Slots : InHand(i)' <=> InHand(i)
  BY DEF InHand
<1>3. \A k \in Slots : job_queue[k].slab_idx \in Slots
  BY DEF TypeOK, Job
<1>4. lent \subseteq Slots
  BY DEF TypeOK
<1>5. QED
  BY <1>1, <1>2, <1>3, <1>4 DEF OwnershipExact

\* A step that touches no slab and no job keeps the slabs exclusive.
LEMMA SlabFrame ==
  ASSUME SlabExclusive,
         UNCHANGED <<slab, job_queue, job_head, job_tail, lent, wjob>>,
         wpc' = "process" => wpc = "process"
  PROVE  SlabExclusive'
BY DEF SlabExclusive, Queued, Between, Describes

\* The types of the ring and of the queue, for leaves that need no others
LEMMA RingTypes ==
  ASSUME TypeOK
  PROVE  /\ in_worker \in [Slots -> {0, 1}] /\ filled \in [Slots -> BOOLEAN]
         /\ slotSeq \in [Slots -> Seqs]
         /\ slab \in [Slots -> Packets \cup {NoPkt}]
         /\ job_queue \in [Slots -> Job]
         /\ job_head \in Slots /\ job_tail \in Slots
         /\ headSlot \in Slots /\ pktSlot \in Slots
         /\ ret \in {"advance", "release"}
BY SlotTypes DEF TypeOK

\* Every job and every slab the hook keeps names a slot of the ring.
LEMMA JobSlots ==
  ASSUME TypeOK
  PROVE  /\ \A k \in Slots : job_queue[k].slab_idx \in Slots
         /\ wjob.slab_idx \in Slots /\ lent \subseteq Slots
BY DEF TypeOK, Job

\* The steps of the recv thread outside dispatch() that only read the ring
LEMMA OwnRead ==
  ASSUME IInv, TypeOK',
         \/ RecvCheck \/ RecvIgnore \/ RecvError \/ ForceMiss \/ DropDuplicate
         \/ DropAlias \/ DropBusy \/ ReleaseDone
         \/ \E n \in Packets : HandleDgram(n)
  PROVE  IInv'
<1> DEFINE Still == UNCHANGED <<filled, slotSeq, slab, in_worker, job_queue,
                                job_head, job_tail, lent, wjob, wpc, mpc>>
           Quiet == {"check", "recv", "done"}
<1>1. /\ Still
      /\ rpc \in {"check", "recv", "advance", "release"}
      /\ rpc' \in Quiet \/ (rpc' = "advance" /\ pkt' # NoPkt)
  <2>1. CASE RecvCheck
    BY <2>1 DEF RecvCheck
  <2>2. CASE RecvIgnore \/ RecvError
    BY <2>2 DEF RecvIgnore, RecvError
  <2>3. CASE ForceMiss
    BY ZenonT(30), <2>3 DEF IInv, RecvInv, ForceMiss
  <2>4. CASE DropDuplicate \/ DropAlias \/ DropBusy
    BY <2>4 DEF DropDuplicate, DropAlias, DropBusy, Return
  <2>5. CASE ReleaseDone
    BY <2>5 DEF ReleaseDone, Return
  <2>6. ASSUME NEW n \in Packets, HandleDgram(n)
        PROVE  /\ Still /\ rpc = "recv"
               /\ rpc' = "check" \/ (rpc' = "advance" /\ pkt' = n)
    BY <2>6 DEF HandleDgram
  <2>7. \A n \in Packets : n # NoPkt
    BY NetworkAssumption DEF NoPkt
  <2>8. QED
    BY <2>1, <2>2, <2>3, <2>4, <2>5, <2>6, <2>7
<1>2. RecvInv'
  BY <1>1 DEF IInv, RecvInv, Busy
<1>3. WorkInv' /\ JoinInv'
  BY <1>1 DEF IInv, WorkInv, JoinInv
<1>4. SlabExclusive'
  BY <1>1, SlabFrame DEF IInv
<1>5. OwnershipExact'
  BY <1>1, OwnershipFrame DEF IInv, Dispatching
<1>6. QED
  BY <1>2, <1>3, <1>4, <1>5 DEF IInv

\* was_empty is computed; the dispatch goes on.
LEMMA OwnProbe ==
  ASSUME IInv, TypeOK', DispatchProbe
  PROVE  IInv'
<1>1. /\ rpc = "dispatch" /\ rpc' = "enqueue"
      /\ UNCHANGED <<pkt, next_seq, filled, slotSeq, slab, in_worker, job_queue,
                     job_head, job_tail, lent, wjob, wpc, mpc>>
  BY DEF DispatchProbe
<1>2. RecvInv'
  BY <1>1 DEF IInv, RecvInv, HeadReady, headSlot, Busy
<1>3. WorkInv' /\ JoinInv'
  BY <1>1 DEF IInv, WorkInv, JoinInv
<1>4. SlabExclusive'
  BY <1>1, SlabFrame DEF IInv
<1>5. OwnershipExact'
  BY <1>1, OwnershipFrame DEF IInv, Dispatching, headSlot
<1>6. QED
  BY <1>2, <1>3, <1>4, <1>5 DEF IInv

\* A slab that is not the worker's is in no job and not with the hook.
LEMMA FreeSlab ==
  ASSUME TypeOK, OwnershipExact, NEW i \in Slots, in_worker[i] = 0
  PROVE  /\ \A k \in Slots : Queued(k) => job_queue[k].slab_idx # i
         /\ wpc = "process" => wjob.slab_idx # i
         /\ i \notin lent
BY JobSlots DEF OwnershipExact, InHand

\* The two halves of the copy into a slab
LEMMA OwnStore ==
  ASSUME IInv, TypeOK', StoreBegin \/ StoreEnd
  PROVE  IInv'
<1>1. TypeOK /\ pktSlot \in Slots /\ in_worker[pktSlot] = 0 /\ ~filled[pktSlot]
  BY RingTypes DEF IInv, RecvInv, StoreBegin, StoreEnd
<1>2. /\ UNCHANGED <<job_queue, job_head, job_tail, lent, wjob, wpc, in_worker,
                     next_seq>>
      /\ \A i \in Slots \ {pktSlot} : slab'[i] = slab[i]
      /\ rpc \notin Busy /\ rpc' \notin Busy
  BY <1>1, RingTypes DEF StoreBegin, StoreEnd, Busy
<1>3. SlabExclusive'
  <2>1. \A k \in Slots : Queued(k) => job_queue[k].slab_idx \in Slots \ {pktSlot}
    BY <1>1, FreeSlab, JobSlots DEF IInv
  <2>2. wpc = "process" => wjob.slab_idx \in Slots \ {pktSlot}
    BY <1>1, FreeSlab, JobSlots DEF IInv
  <2>3. lent \subseteq Slots \ {pktSlot}
    BY <1>1, FreeSlab, JobSlots DEF IInv
  <2>4. QED
    BY <1>2, <2>1, <2>2, <2>3
       DEF IInv, SlabExclusive, Queued, Between, Describes
<1>4. OwnershipExact'
  BY <1>2, OwnershipFrame DEF IInv, Dispatching, Busy, headSlot
<1>5. RecvInv'
  <2>1. CASE StoreBegin
    BY Zenon, <1>1, <1>2, <2>1 DEF IInv, RecvInv, StoreBegin, Busy, pktSlot
  <2>2. CASE StoreEnd
    <3>1. pkt # NoPkt
      BY Zenon, <2>2 DEF IInv, RecvInv, StoreEnd
    <3>2. \A i \in Slots : filled'[i] =>
             /\ slab'[i] # NoPkt /\ slotSeq'[i] = SeqOf(slab'[i])
             /\ in_worker'[i] # 1
      BY SMTT(30), <1>1, <1>2, <2>2, <3>1, RingTypes
         DEF IInv, RecvInv, StoreEnd
    <3>3. QED
      BY Zenon, <1>2, <2>2, <3>1, <3>2 DEF RecvInv, StoreEnd, Busy
  <2>3. QED
    BY Zenon, <2>1, <2>2
<1>6. WorkInv' /\ JoinInv'
  BY Zenon DEF IInv, WorkInv, JoinInv, StoreBegin, StoreEnd
<1>7. QED
  BY Zenon, <1>3, <1>4, <1>5, <1>6 DEF IInv

\* dispatch() takes the head's slab for the worker ...
LEMMA OwnBegin ==
  ASSUME IInv, TypeOK', ForceDispatch \/ ReleaseHead
  PROVE  IInv'
<1>1. /\ rpc \in {"advance", "release"} /\ rpc' = "dispatch" /\ HeadReady
      /\ in_worker' = [in_worker EXCEPT ![headSlot] = 1]
      /\ UNCHANGED <<pkt, next_seq, filled, slotSeq, slab, job_queue, job_head,
                     job_tail, lent, wjob, wpc, mpc>>
  BY DEF ForceDispatch, ReleaseHead, BeginDispatch
<1>2. TypeOK /\ headSlot \in Slots /\ headSlot' = headSlot
  BY <1>1, SlotTypes DEF IInv, headSlot
<1>3. in_worker[headSlot] = 0
  BY <1>1, <1>2, RingTypes DEF IInv, RecvInv, HeadReady, Busy
<1>4. RecvInv'
  BY <1>1, <1>2, RingTypes DEF IInv, RecvInv, HeadReady, Busy
<1>5. WorkInv' /\ JoinInv'
  BY <1>1 DEF IInv, WorkInv, JoinInv
<1>6. SlabExclusive'
  BY ZenonT(30), <1>1, SlabFrame DEF IInv
<1>7. OwnershipExact'
  <2>1. \A i \in Slots : /\ ~Dispatching(i)
                         /\ Dispatching(i)' <=> i = headSlot
                         /\ InHand(i)' <=> InHand(i)
                         /\ Queued(i)' <=> Queued(i)
    BY <1>1, <1>2 DEF Dispatching, InHand, Queued, Between
  <2>2. /\ \A k \in Slots : Queued(k) => job_queue[k].slab_idx # headSlot
        /\ ~InHand(headSlot) /\ headSlot \notin lent
        /\ \A k \in Slots : job_queue[k].slab_idx \in Slots
        /\ lent \subseteq Slots
    BY Zenon, <1>2, <1>3, FreeSlab, JobSlots DEF IInv, InHand
  <2>3. lent' = lent /\ job_queue' = job_queue
    BY Zenon, <1>1
  <2>4.. \A i \in Slots :
          in_worker'[i] = 1 <=>
            \/ Dispatching(i)' \/ InHand(i)' \/ i \in lent'
            \/ \E k \in Slots : Queued(k)' /\ job_queue'[k].slab_idx = i
    <3>1. /\ in_worker'[headSlot] = 1
          /\ \A i \in Slots \ {headSlot} : in_worker'[i] = in_worker[i]
      BY <1>1, <1>2, RingTypes
    <3>2. QED
      BY <1>2, <2>1, <2>3, <3>1 DEF IInv, OwnershipExact
  <2>5. QED
    BY <2>1, <2>2, <2>3, <2>4 DEF IInv, OwnershipExact
<1>8. QED
  BY <1>4, <1>5, <1>6, <1>7 DEF IInv

\* ... and gives it back when the job queue is full,
LEMMA OwnFull ==
  ASSUME IInv, TypeOK', EnqueueFull
  PROVE  IInv'
<1>1. /\ rpc = "enqueue" /\ rpc' = ret
      /\ in_worker' = [in_worker EXCEPT ![headSlot] = 0]
      /\ filled' = [filled EXCEPT ![headSlot] = FALSE]
      /\ UNCHANGED <<pkt, slotSeq, slab, job_queue, job_head, job_tail, lent,
                     wjob, wpc, mpc>>
  BY DEF EnqueueFull, EndDispatch
<1>2. TypeOK /\ headSlot \in Slots /\ ret \in {"advance", "release"}
  BY RingTypes DEF IInv
<1>3. RecvInv'
  BY <1>1, <1>2, RingTypes DEF IInv, RecvInv, Busy
<1>4. WorkInv' /\ JoinInv'
  BY <1>1, <1>2 DEF IInv, WorkInv, JoinInv
<1>5. SlabExclusive'
  BY Zenon, <1>1, SlabFrame DEF IInv
<1>6. OwnershipExact'
  <2>1. \A i \in Slots : /\ Dispatching(i) <=> i = headSlot
                         /\ ~Dispatching(i)'
                         /\ InHand(i)' <=> InHand(i)
                         /\ Queued(i)' <=> Queued(i)
    BY <1>1, <1>2 DEF Dispatching, InHand, Queued, Between
  <2>2. ~InHand(headSlot)
    BY <1>2, <2>1 DEF IInv, OwnershipExact
  <2>3. /\ in_worker'[headSlot] = 0
        /\ \A i \in Slots \ {headSlot} : in_worker'[i] = in_worker[i]
    BY <1>1, <1>2, RingTypes
  <2>4. /\ lent' = lent /\ lent \subseteq Slots /\ job_queue' = job_queue
        /\ \A k \in Slots : job_queue[k].slab_idx \in Slots
    BY ZenonT(30), <1>1, <1>2, JobSlots
  <2>5. /\ \A k \in Slots : Queued(k) => job_queue[k].slab_idx # headSlot
        /\ headSlot \notin lent
    BY ZenonT(30), <1>2, <2>1, <2>4 DEF IInv, OwnershipExact
  <2>6. \A i \in Slots :
          in_worker'[i] = 1 <=>
            \/ Dispatching(i)' \/ InHand(i)' \/ i \in lent'
            \/ \E k \in Slots : Queued(k)' /\ job_queue'[k].slab_idx = i
    BY <1>2, <2>1, <2>2, <2>3, <2>4, <2>5 DEF IInv, OwnershipExact
  <2>7. QED
    BY <2>1, <2>4, <2>6 DEF IInv, OwnershipExact
<1>7. QED
  BY <1>3, <1>4, <1>5, <1>6 DEF IInv

\* ... or writes the job behind the tail, where no queued job lies,
LEMMA OwnWrite ==
  ASSUME IInv, TypeOK', EnqueueWrite
  PROVE  IInv'
<1> DEFINE j == [slab_idx |-> headSlot, seq |-> slotSeq[headSlot]]
<1>1. /\ rpc = "enqueue" /\ rpc' = "publish" /\ NextIdx(job_tail) # job_head
      /\ job_queue' = [job_queue EXCEPT ![job_tail] = j]
      /\ UNCHANGED <<pkt, next_seq, filled, slotSeq, slab, in_worker, job_head,
                     job_tail, lent, wjob, wpc, mpc>>
  BY Zenon DEF EnqueueWrite
<1>2. TypeOK /\ job_head \in Slots /\ job_tail \in Slots /\ headSlot' = headSlot
  BY Zenon, <1>1, RingTypes DEF IInv, headSlot
<1>3. \A k \in Slots : /\ Queued(k)' <=> Queued(k)
                       /\ Queued(k) => job_queue'[k] = job_queue[k]
  BY Zenon, <1>1, <1>2, TailIsFree, RingTypes DEF Queued, Between
<1>4. RecvInv'
  BY Zenon, <1>1, <1>2, RingTypes DEF IInv, RecvInv, HeadReady, Busy
<1>5. WorkInv' /\ JoinInv'
  BY Zenon, <1>1, <1>2, RingTypes DEF IInv, WorkInv, JoinInv
<1>6. SlabExclusive'
  BY ZenonT(30), <1>1, <1>3 DEF IInv, SlabExclusive, Describes
<1>7. OwnershipExact'
  <2>1. \A i \in Slots : /\ Dispatching(i)' <=> Dispatching(i)
                         /\ InHand(i)' <=> InHand(i)
    BY <1>1, <1>2 DEF Dispatching, InHand
  <2>2. QED
    BY SMTT(30), <1>1, <1>2, <1>3, <2>1, JobSlots DEF IInv, OwnershipExact
<1>8. QED
  BY <1>4, <1>5, <1>6, <1>7 DEF IInv

\* ... and publishes it: the slab passes from the dispatch to the queue.
LEMMA OwnPublish ==
  ASSUME IInv, TypeOK', EnqueuePublish
  PROVE  IInv'
<1>1. /\ rpc = "publish" /\ rpc' = "notify" /\ job_tail' = NextIdx(job_tail)
      /\ UNCHANGED <<pkt, next_seq, filled, slotSeq, slab, in_worker, job_head,
                     job_queue, lent, wjob, wpc, mpc>>
  BY DEF EnqueuePublish
<1>2. /\ TypeOK /\ job_head \in Slots /\ job_tail \in Slots
      /\ headSlot \in Slots /\ headSlot' = headSlot
  BY Zenon, <1>1, RingTypes DEF IInv, headSlot
<1>3. /\ NextIdx(job_tail) # job_head /\ HeadReady
      /\ job_queue[job_tail].slab_idx = headSlot
      /\ job_queue[job_tail].seq = slotSeq[headSlot]
  BY <1>1 DEF IInv, RecvInv, Busy
<1>4. \A k \in Slots : Queued(k)' <=> Queued(k) \/ k = job_tail
  BY Zenon, <1>1, <1>2, <1>3, PushBetween DEF Queued
<1>5. RecvInv'
  BY Zenon, <1>1, <1>2, <1>3 DEF IInv, RecvInv, HeadReady, Busy
<1>6. WorkInv' /\ JoinInv'
  BY Zenon, <1>1, <1>2, <1>3 DEF IInv, WorkInv, JoinInv
<1>7. SlabExclusive'
  <2>1. Describes(job_queue[job_tail])
    BY Zenon, <1>2, <1>3 DEF IInv, RecvInv, Describes, HeadReady
  <2>2. QED
    BY Zenon, <1>1, <1>4, <2>1 DEF IInv, SlabExclusive, Describes
<1>8. OwnershipExact'
  <2>1. \A i \in Slots : /\ Dispatching(i) <=> i = headSlot
                         /\ ~Dispatching(i)'
                         /\ InHand(i)' <=> InHand(i)
    BY Zenon, <1>1, <1>2 DEF Dispatching, InHand
  <2>2. \A i \in Slots :
          in_worker'[i] = 1 <=>
            \/ Dispatching(i)' \/ InHand(i)' \/ i \in lent'
            \/ \E k \in Slots : Queued(k)' /\ job_queue'[k].slab_idx = i
    BY Zenon, <1>1, <1>2, <1>3, <1>4, <2>1 DEF IInv, OwnershipExact
  <2>3. \A k \in Slots : Queued(k) => job_queue[k].slab_idx # headSlot
    BY ZenonT(30), <1>2, <2>1, JobSlots DEF IInv, OwnershipExact
  <2>4. ~InHand(headSlot) /\ headSlot \notin lent
    BY Zenon, <1>2, <2>1 DEF IInv, OwnershipExact
  <2>5. QED
    BY ZenonT(30), <1>1, <1>2, <1>3, <1>4, <2>1, <2>2, <2>3, <2>4, JobSlots
       DEF IInv, OwnershipExact
<1>9. QED
  BY <1>5, <1>6, <1>7, <1>8 DEF IInv

\* After the notification the slot is emptied, whoever has the slab by then.
LEMMA OwnNotify ==
  ASSUME IInv, TypeOK', DispatchNotify
  PROVE  IInv'
<1>1. /\ rpc = "notify" /\ rpc' = ret
      /\ filled' = [filled EXCEPT ![headSlot] = FALSE]
      /\ UNCHANGED <<pkt, slotSeq, slab, in_worker, job_queue, job_head,
                     job_tail, lent, wjob, mpc>>
      /\ wpc' = wpc \/ (wpc = "waiting" /\ wpc' = "pred")
  BY Zenon DEF DispatchNotify, EndDispatch, Notified
<1>2. TypeOK /\ headSlot \in Slots /\ ret \in {"advance", "release"}
  BY RingTypes DEF IInv
<1>3. RecvInv'
  BY <1>1, <1>2, RingTypes DEF IInv, RecvInv, Busy
<1>4. WorkInv' /\ JoinInv'
  BY <1>1, <1>2 DEF IInv, WorkInv, JoinInv
<1>5. SlabExclusive'
  BY <1>1, SlabFrame DEF IInv
<1>6. OwnershipExact'
  BY <1>1, <1>2, OwnershipFrame DEF IInv, Dispatching
<1>7. QED
  BY <1>3, <1>4, <1>5, <1>6 DEF IInv
=============================================================================

---------------------------- MODULE ReceiverOrder -----------------------------
(***************************************************************************)
(* The order of the packets from the head of the window through the job    *)
(* queue to the hook, and the theorems on the stream: the receiver         *)
(* implements SlabChannel.                                                 *)
(***************************************************************************)
EXTENDS ReceiverWindow

\* The names of groups of variables are always expanded.
USE DEF mainVars, ringVars, headVars, openVars, countVars, queueVars, workVars,
        hookVars, dispVars, threadVars, notDispatch, notRing, notWorker

-----------------------------------------------------------------------------
(***************************************************************************)
(* The invariant: what was handed over, what is in hand and what is        *)
(* queued.                                                                 *)
(***************************************************************************)
\* The packet in the slab of a job
Bytes(j) == slab[j.slab_idx]

\* The packet after the last one whose job may be in the queue
Passed == IF rpc = "notify" THEN expect + 1 ELSE expect

\* The packets given to the hook, in the worker's hands and in the queue, in
\* this order and the queue from its head on, increase and are behind Passed.
OrderInv ==
  started =>
    /\ lastOut < Passed
    /\ \A k \in Slots : Queued(k) =>
         lastOut < Bytes(job_queue[k]) /\ Bytes(job_queue[k]) < Passed
    /\ \A k, m \in Slots : Queued(k) /\ Queued(m) /\ Between(job_head, m, k)
         => Bytes(job_queue[k]) < Bytes(job_queue[m])
    /\ wpc = "process" =>
         /\ lastOut < Bytes(wjob) /\ Bytes(wjob) < Passed
         /\ \A k \in Slots : Queued(k) => Bytes(wjob) < Bytes(job_queue[k])

\* The numbers the order is about
LEMMA OrderTypes ==
  ASSUME IInv
  PROVE  /\ lastOut \in Int /\ expect \in Int /\ Passed \in Int
         /\ \A k \in Slots : Bytes(job_queue[k]) \in Int
         /\ Bytes(wjob) \in Int
         /\ job_head \in Slots /\ job_tail \in Slots
BY JobSlots, PacketsAreInts DEF IInv, TypeOK, Passed, Bytes

\* A step that takes no job, publishes none and overwrites no slab of the
\* worker keeps the order when the head does not move back.
LEMMA OrderKept ==
  ASSUME IInv, OrderInv, started,
         UNCHANGED <<lastOut, job_head, job_tail>>,
         \A k \in Slots : Queued(k) =>
           /\ job_queue'[k] = job_queue[k]
           /\ slab'[job_queue[k].slab_idx] = slab[job_queue[k].slab_idx],
         wpc' = "process" =>
           /\ wpc = "process" /\ wjob' = wjob
           /\ slab'[wjob.slab_idx] = slab[wjob.slab_idx],
         Passed <= Passed', Passed' \in Int
  PROVE  OrderInv'
<1>1. \A k \in Slots : Queued(k)' <=> Queued(k)
  BY DEF Queued
<1>2. \A k \in Slots : Queued(k) => Bytes(job_queue[k])' = Bytes(job_queue[k])
  BY DEF Bytes
<1>3. wpc' = "process" => wpc = "process" /\ Bytes(wjob)' = Bytes(wjob)
  BY DEF Bytes
<1>4. QED
  BY <1>1, <1>2, <1>3, OrderTypes DEF OrderInv

\* The same for a step that leaves the queue and the slabs alone
LEMMA OrderFrame ==
  ASSUME IInv, OrderInv, started,
         UNCHANGED <<lastOut, job_queue, job_head, job_tail, slab>>,
         wpc' = "process" => wpc = "process" /\ wjob' = wjob,
         Passed <= Passed', Passed' \in Int
  PROVE  OrderInv'
BY OrderKept

\* The first datagram of a session
LEMMA OrderOpen ==
  ASSUME IInv, UnopenedInv, ~started, NEW n \in Packets, HandleDgram(n)
  PROVE  OrderInv'
<1>1. /\ expect' = n /\ rpc' # "notify" /\ n \in Nat
      /\ UNCHANGED <<lastOut, job_head, job_tail, wpc>>
  BY NetworkAssumption DEF HandleDgram
<1>2. \A k \in Slots : ~Queued(k)'
  BY <1>1, OrderTypes, TailIsFree DEF Queued, UnopenedInv
<1>3. QED
  BY <1>1, <1>2 DEF OrderInv, Passed, UnopenedInv, NoPkt

\* The recv thread, except for the publication of a job
LEMMA OrderRecv ==
  ASSUME IInv, UnopenedInv, WindowInv, OrderInv,
         RecvIgnore \/ RecvError \/ (RecvStep /\ ~EnqueuePublish)
           \/ \E n \in Packets : HandleDgram(n)
  PROVE  OrderInv'
<1>1. CASE ~started
  <2>1. CASE \E n \in Packets : HandleDgram(n)
    BY Zenon, <1>1, <2>1, OrderOpen
  <2>2. CASE RecvIgnore \/ RecvError \/ RecvCheck
    BY Zenon, <1>1, <2>2 DEF RecvIgnore, RecvError, RecvCheck, OrderInv
  <2>3. CASE RecvStep /\ ~RecvCheck
    BY Zenon, <1>1, <2>3 DEF UnopenedInv, RecvStep, ForceMiss, ForceDispatch,
       DropDuplicate, DropAlias, DropBusy, StoreBegin, StoreEnd, ReleaseHead,
       ReleaseDone, DispatchProbe, EnqueueFull, EnqueueWrite, EnqueuePublish,
       DispatchNotify
  <2>4. QED
    BY <2>1, <2>2, <2>3
<1>2. CASE started
  <2>1. expect \in Int
    BY OrderTypes
  <2>2. CASE RecvIgnore \/ RecvError \/ RecvCheck \/ ForceDispatch
               \/ DropDuplicate \/ DropAlias \/ DropBusy \/ ReleaseHead
               \/ ReleaseDone \/ DispatchProbe
    <3>1. /\ UNCHANGED <<lastOut, job_queue, job_head, job_tail, slab, wpc,
                         wjob, expect>>
          /\ rpc # "notify" /\ rpc' # "notify"
      BY Zenon, <2>2 DEF RecvIgnore, RecvError, RecvCheck, ForceDispatch,
         DropDuplicate, DropAlias, DropBusy, ReleaseHead, ReleaseDone,
         DispatchProbe, BeginDispatch, Return
    <3>2. QED
      BY <1>2, <2>1, <3>1, OrderFrame DEF Passed
  <2>3. CASE \E n \in Packets : HandleDgram(n)
    <3>1. /\ UNCHANGED <<lastOut, job_queue, job_head, job_tail, slab, wpc,
                         wjob, expect>>
          /\ rpc # "notify" /\ rpc' # "notify"
      BY <1>2, <2>3 DEF HandleDgram
    <3>2. QED
      BY <1>2, <2>1, <3>1, OrderFrame DEF Passed
  <2>4. CASE ForceMiss \/ EnqueueFull \/ DispatchNotify
    <3>1. /\ UNCHANGED <<lastOut, job_queue, job_head, job_tail, slab, wjob>>
          /\ expect' = expect + 1 /\ rpc' # "notify"
          /\ wpc' = "process" => wpc = "process"
      BY <2>4, RingTypes DEF ForceMiss, EnqueueFull, DispatchNotify,
         EndDispatch,
         Notified, IInv
    <3>2. QED
      BY SMTT(30), <1>2, <2>1, <3>1, OrderFrame DEF Passed
  <2>5. CASE EnqueueWrite
    <3>1. /\ UNCHANGED <<lastOut, job_head, job_tail, slab, wjob, wpc, expect>>
          /\ rpc # "notify" /\ rpc' # "notify"
          /\ \A k \in Slots \ {job_tail} : job_queue'[k] = job_queue[k]
      BY <2>5, RingTypes DEF EnqueueWrite, IInv
    <3>2. \A k \in Slots : Queued(k) => k # job_tail
      BY OrderTypes, TailIsFree DEF Queued
    <3>3. QED
      BY <1>2, <2>1, <3>1, <3>2, OrderKept DEF Passed
  <2>6. CASE StoreBegin \/ StoreEnd
    <3>1. /\ UNCHANGED <<lastOut, job_queue, job_head, job_tail, wjob, wpc,
                         expect>>
          /\ rpc # "notify" /\ rpc' # "notify" /\ in_worker[pktSlot] = 0
          /\ \A i \in Slots \ {pktSlot} : slab'[i] = slab[i]
      BY <2>6, RingTypes DEF StoreBegin, StoreEnd, IInv, RecvInv
    <3>2. /\ \A k \in Slots : Queued(k) => job_queue[k].slab_idx # pktSlot
          /\ wpc = "process" => wjob.slab_idx # pktSlot
      BY <3>1, WindowTypes, FreeSlab DEF IInv
    <3>3. QED
      BY <1>2, <2>1, <3>1, <3>2, OrderKept, JobSlots DEF Passed, IInv
  <2>7. QED
    BY <2>2, <2>3, <2>4, <2>5, <2>6 DEF RecvStep
<1>3. QED
  BY <1>1, <1>2

\* The tail comes after every entry.
LEMMA TailIsLast ==
  ASSUME NEW h \in Slots, NEW t \in Slots, NEW m \in Slots, Between(h, t, m)
  PROVE  ~Between(h, m, t)
BY IndexTypes DEF Between

\* The job published is that of the packet expected.
LEMMA OrderPublish ==
  ASSUME IInv, UnopenedInv, WindowInv, OrderInv, EnqueuePublish
  PROVE  OrderInv'
<1>1. started /\ HeadReady
  BY DEF EnqueuePublish, UnopenedInv, IInv, RecvInv, Busy
<1>2. /\ rpc = "publish" /\ rpc' = "notify" /\ job_tail' = NextIdx(job_tail)
      /\ UNCHANGED <<started, lastOut, job_queue, job_head, slab, wjob, wpc,
                     expect>>
  BY DEF EnqueuePublish
<1>3. Bytes(job_queue[job_tail]) = expect
  BY <1>1, <1>2, HeadIsExpected DEF Bytes, IInv, RecvInv
<1>4. \A k \in Slots : Queued(k)' <=> Queued(k) \/ k = job_tail
  BY <1>2, OrderTypes, PushBetween DEF Queued, IInv, RecvInv
<1>5. \A k \in Slots : Bytes(job_queue[k])' = Bytes(job_queue[k])
  BY <1>2 DEF Bytes
<1>6. Bytes(wjob)' = Bytes(wjob) /\ Passed = expect /\ Passed' = expect + 1
  BY <1>2 DEF Bytes, Passed
<1>7. ASSUME NEW k \in Slots, NEW m \in Slots, Queued(k)', Queued(m)',
             Between(job_head, m, k)
      PROVE  Bytes(job_queue[k]) < Bytes(job_queue[m])
  <2>1. k # job_tail
    BY <1>4, <1>7, OrderTypes, TailIsFree, TailIsLast DEF Queued
  <2>2. QED
    BY <1>1, <1>3, <1>4, <1>6, <1>7, <2>1 DEF OrderInv
<1>8. QED
  BY <1>1, <1>2, <1>3, <1>4, <1>5, <1>6, <1>7, OrderTypes DEF OrderInv

\* The worker takes the oldest job.
LEMMA OrderPop ==
  ASSUME IInv, OrderInv, DequeuePop
  PROVE  OrderInv'
<1>1. /\ wpc = "pop" /\ wpc' = "process" /\ job_head' = NextIdx(job_head)
      /\ UNCHANGED <<started, lastOut, job_queue, job_tail, slab, wjob, rpc,
                     expect>>
  BY DEF DequeuePop
<1>2. job_head # job_tail /\ wjob = job_queue[job_head] /\ Queued(job_head)
  BY <1>1, OrderTypes, PopBetween DEF IInv, WorkInv, Queued
<1>3. \A k \in Slots : Queued(k)' <=> Queued(k) /\ k # job_head
  BY <1>1, <1>2, OrderTypes, PopBetween DEF Queued
<1>4. \A k \in Slots : Bytes(job_queue[k])' = Bytes(job_queue[k])
  BY <1>1 DEF Bytes
<1>5. /\ Bytes(wjob)' = Bytes(job_queue[job_head])
      /\ Passed' = Passed
  BY <1>1, <1>2 DEF Bytes, Passed
<1>6. \A k \in Slots : k # job_head => Between(job_head, k, job_head)
  BY OrderTypes, PopBetween
<1>7. \A k, m \in Slots :
        m # job_head /\ Between(job_head', m, k) => Between(job_head, m, k)
  BY <1>1, OrderTypes, PopBetween
<1>8. QED
  BY <1>1, <1>2, <1>3, <1>4, <1>5, <1>6, <1>7, OrderTypes DEF OrderInv

\* The other steps
LEMMA OrderRest ==
  ASSUME IInv, UnopenedInv, OrderInv,
         \/ WorkerStep /\ ~DequeuePop
         \/ StopFlag \/ StopStep \/ Finished
         \/ \E i \in Slots : HookRelease(i)
  PROVE  OrderInv'
<1>1. CASE ProcessJob
  <2>1. /\ started /\ started' /\ wpc = "process" /\ lastOut' = Bytes(wjob)
        /\ wpc' = "hook"
        /\ UNCHANGED <<job_queue, job_head, job_tail, slab, rpc, expect>>
    BY <1>1 DEF ProcessJob, UnopenedInv, Bytes
  <2>2. \A k \in Slots : (Queued(k)' <=> Queued(k))
          /\ Bytes(job_queue[k])' = Bytes(job_queue[k])
    BY <2>1 DEF Queued, Bytes
  <2>3. Passed' = Passed
    BY <2>1 DEF Passed
  <2>4. QED
    BY <2>1, <2>2, <2>3 DEF OrderInv
<1>2. CASE ~ProcessJob
  <2>1. /\ UNCHANGED <<started, lastOut, job_queue, job_head, job_tail, slab,
                       rpc, expect>>
        /\ wpc' = "process" => wpc = "process" /\ wjob' = wjob
    BY Zenon, <1>2 DEF WorkerStep, WorkerCheck, DequeueEmpty, DequeueRead,
       ProcessUnhooked, HookReturn, AfterJob, WaitPredicate, WaitSleep,
       WaitTimeout, StopFlag, StopStep, StopClose, StopJoinRecv, StopLock,
       StopNotify, StopJoinWorker, Notified, Finished, vars, HookRelease
  <2>2. Passed' = Passed
    BY <2>1 DEF Passed
  <2>3. CASE started
    BY <2>1, <2>2, <2>3, OrderFrame, OrderTypes
  <2>4. CASE ~started
    BY <2>1, <2>4 DEF OrderInv
  <2>5. QED
    BY <2>3, <2>4
<1>3. QED
  BY <1>1, <1>2

\* Every step keeps the order.
LEMMA OrderStep ==
  ASSUME IInv, UnopenedInv, WindowInv, OrderInv, [Next]_vars
  PROVE  OrderInv'
<1>1. CASE UNCHANGED vars
  BY Zenon, <1>1 DEF vars, OrderInv, Passed, Bytes, Queued
<1>2. CASE \E h \in BOOLEAN : Start(h)
  BY <1>2 DEF Start, OrderInv
<1>3. QED
  BY Zenon, <1>1, <1>2, OrderRecv, OrderPublish, OrderPop, OrderRest
     DEF Next, RecvStep, WorkerStep

-----------------------------------------------------------------------------
(***************************************************************************)
(* The theorems.                                                           *)
(***************************************************************************)
\* What every step of a session keeps
StreamInv == IInv /\ UnopenedInv /\ WindowInv /\ CountInv /\ OrderInv

\* It holds before the first session,
LEMMA StreamInit == Init => StreamInv
<1> SUFFICES ASSUME Init PROVE StreamInv
  OBVIOUS
<1>1. {i \in Slots : filled[i]} = {}
  BY DEF Init
<1>2. CountInv
  BY Zenon, <1>1, FS_EmptySet DEF Init, CountInv
<1>3. UnopenedInv /\ WindowInv /\ OrderInv
  BY DEF Init, UnopenedInv, WindowInv, OrderInv
<1>4. QED
  BY <1>2, <1>3, OwnInit DEF StreamInv

\* and every step keeps it, as long as start() waits for the slabs lent.
LEMMA StreamNext ==
  ASSUME RestartWhileLent = FALSE
  PROVE  StreamInv /\ [Next]_vars => StreamInv'
BY Zenon, OwnNext, UnopenedStep, WindowStep, CountStep, OrderStep DEF StreamInv

\* The int16_t difference that handle_dgram() decides on is the true distance of
\* the datagram from the head, and next_seq_ stands for the packet expected, in
\* every session, across any number of wrap-arounds.
THEOREM DistanceIsExact ==
  ASSUME RestartWhileLent = FALSE
  PROVE  Spec => []DistanceExact
<1>1. StreamInv => DistanceExact
  BY PacketDistance DEF StreamInv, DistanceExact, WindowInv
<1>2. QED
  BY <1>1, StreamInit, StreamNext, PTL DEF Spec

\* Every filled slot of the ring holds the packet it claims, in the slot of its
\* sequence number and inside the jitter window; pending_ counts the filled
\* slots; and with jitter_depth_ <= kRingSize the alias branch is dead code.
THEOREM WindowHolds ==
  ASSUME RestartWhileLent = FALSE
  PROVE  Spec => []JitterWindow
<1>1. StreamInv => JitterWindow
  <2> SUFFICES ASSUME StreamInv PROVE JitterWindow
    OBVIOUS
  <2>1. \A i \in Slots : filled[i] =>
          /\ slab[i] # NoPkt
          /\ slotSeq[i] = SeqOf(slab[i]) /\ i = SlotOf(slotSeq[i])
          /\ expect <= slab[i] /\ slab[i] < expect + jitter_depth
    BY DEF StreamInv, UnopenedInv, WindowInv, IInv, RecvInv
  <2>2. QED
    BY <2>1, NoAlias DEF StreamInv, JitterWindow, CountInv
<1>2. QED
  BY <1>1, StreamInit, StreamNext, PTL DEF Spec

\* Every packet the head passes was queued or counted in exactly one of the two
\* loss counters, if the window is no wider than the ring.
THEOREM EveryPacketIsCounted ==
  ASSUME RestartWhileLent = FALSE, jitter_depth <= kRingSize
  PROVE  Spec => []Accounting
<1>1. Init => AccountInv
  BY DEF Init, AccountInv, Accounting
<1>2. StreamInv /\ AccountInv /\ [Next]_vars => AccountInv'
  BY AccountStep DEF StreamInv
<1>3. AccountInv => Accounting
  BY DEF AccountInv
<1>4. QED
  BY <1>1, <1>2, <1>3, StreamInit, StreamNext, PTL DEF Spec

\* release_in_order() leaves no packet behind: the recv thread never waits in
\* recv() with the next packet in the ring, unless a slot-busy drop has occurred
\* and if the window is no wider than the ring.
THEOREM ReleaseIsPrompt ==
  ASSUME RestartWhileLent = FALSE, jitter_depth <= kRingSize
  PROVE  Spec => []PromptRelease
<1>1. Init => PromptInv
  BY DEF Init, PromptInv
<1>2. StreamInv /\ PromptInv /\ [Next]_vars => PromptInv'
  BY PromptStep DEF StreamInv
<1>3. StreamInv /\ PromptInv => PromptRelease
  BY DEF StreamInv, IInv, TypeOK, PromptInv, PromptRelease
<1>4. QED
  BY <1>1, <1>2, <1>3, StreamInit, StreamNext, PTL DEF Spec

\* What leaves the hook's slabs and the last packet alone is a stutter.
LEMMA ChannelStutter ==
  ASSUME UNCHANGED <<lent, lastOut>>, \A i \in lent : slab'[i] = slab[i]
  PROVE  UNCHANGED Channel!chan
BY DEF Channel!chan

\* Every step is a step of the channel or a stutter.
LEMMA ChannelStep ==
  ASSUME StreamInv, StreamInv', RestartWhileLent = FALSE, [Next]_vars
  PROVE  [Channel!Next]_(Channel!chan)
<1>1. CASE UNCHANGED vars
  BY <1>1, ChannelStutter DEF vars
<1>2. CASE \E h \in BOOLEAN : Start(h)
  <2>1. lent = {} /\ lent' = {} /\ lastOut' = -1
    BY <1>2 DEF Start, NoPkt
  <2>2. Channel!NewSession
    BY <2>1 DEF Channel!NewSession
  <2>3. QED
    BY <2>2 DEF Channel!Next
<1>3. CASE StopFlag \/ StopStep \/ Finished
  BY Zenon, <1>3, ChannelStutter DEF StopFlag, StopStep, StopClose,
     StopJoinRecv,
     StopLock, StopNotify, StopJoinWorker, Finished, vars
<1>4. CASE RecvIgnore \/ RecvError \/ \E n \in Packets : HandleDgram(n)
  BY Zenon, <1>4, ChannelStutter DEF RecvIgnore, RecvError, HandleDgram
<1>5. CASE RecvStep
  <2>1. CASE StoreBegin \/ StoreEnd
    <3>1. /\ UNCHANGED <<lent, lastOut>> /\ in_worker[pktSlot] = 0
          /\ \A i \in Slots \ {pktSlot} : slab'[i] = slab[i]
      BY Zenon, <2>1, RingTypes DEF StoreBegin, StoreEnd, StreamInv, IInv,
         RecvInv
    <3>2. pktSlot \notin lent /\ lent \subseteq Slots
      BY Zenon, <3>1, WindowTypes, FreeSlab, JobSlots DEF StreamInv, IInv
    <3>3. QED
      BY <3>1, <3>2, ChannelStutter
  <2>2. CASE ~(StoreBegin \/ StoreEnd)
    BY Zenon, <1>5, <2>2, ChannelStutter DEF RecvStep, RecvCheck, ForceMiss,
       ForceDispatch, DropDuplicate, DropAlias, DropBusy, ReleaseHead,
       ReleaseDone, DispatchProbe, EnqueueFull, EnqueueWrite, EnqueuePublish,
       DispatchNotify, BeginDispatch
  <2>3. QED
    BY <2>1, <2>2
<1>6. CASE WorkerStep /\ ~ProcessJob
  BY Zenon, <1>6, ChannelStutter DEF WorkerStep, WorkerCheck, DequeueEmpty,
     DequeueRead, DequeuePop, ProcessUnhooked, HookReturn, WaitPredicate,
     WaitSleep, WaitTimeout
<1>7. CASE ProcessJob
  <2> DEFINE w == wjob.slab_idx
  <2>1. /\ wpc = "process" /\ lent' = lent \cup {w} /\ lastOut' = slab[w]
        /\ UNCHANGED slab
    BY Zenon, <1>7 DEF ProcessJob
  <2>2. w \in Slots /\ w \notin lent
    <3>1. w \in Slots
      BY JobSlots DEF StreamInv, IInv
    <3>2. \A i \in lent : ~InHand(i)
      BY Zenon DEF StreamInv, IInv, OwnershipExact
    <3>3. QED
      BY <2>1, <3>1, <3>2 DEF InHand
  <2>3. slab[w] \in Packets /\ slab[w] > lastOut
    <3>1. started
      BY Zenon, <2>1 DEF StreamInv, UnopenedInv
    <3>2. slab[w] # NoPkt
      BY Zenon, <2>1 DEF StreamInv, IInv, SlabExclusive, Describes
    <3>3. slab[w] \in Packets
      BY <2>2, <3>2, RingTypes DEF StreamInv, IInv
    <3>4. QED
      BY Zenon, <2>1, <3>1, <3>3, OrderTypes DEF StreamInv, OrderInv, Bytes
  <2>4. PICK n \in Packets : n = slab[w]
    BY <2>3
  <2>5. Channel!Deliver(w, n)
    BY Zenon, <2>1, <2>2, <2>3, <2>4 DEF Channel!Deliver
  <2>6. QED
    BY Zenon, <2>2, <2>5 DEF Channel!Next, Channel!Deliver
<1>8. CASE \E i \in Slots : HookRelease(i)
  <2>1. PICK r \in Slots : HookRelease(r)
    BY <1>8
  <2>2. r \in lent /\ lent' = lent \ {r} /\ UNCHANGED <<slab, lastOut>>
    BY <2>1 DEF HookRelease
  <2>3. Channel!Release(r)
    BY <2>2 DEF Channel!Release
  <2>4. QED
    BY <2>3 DEF Channel!Next
<1>9. QED
  BY <1>1, <1>2, <1>3, <1>4, <1>5, <1>6, <1>7, <1>8 DEF Next

\* The receiver implements SlabChannel: whatever the network does within its
\* bounds, the hook gets whole packets, in order and at most once, in slabs that
\* are its own and do not change until it releases them.
THEOREM ReceiverIsAChannel ==
  ASSUME RestartWhileLent = FALSE
  PROVE  Spec => ImplementsChannel
<1>1. Init => Channel!Init
  BY DEF Init, Channel!Init, NoPkt
<1>2. StreamInv /\ StreamInv' /\ [Next]_vars => [Channel!Next]_(Channel!chan)
  BY Zenon, ChannelStep
<1>3. QED
  BY <1>1, <1>2, StreamInit, StreamNext, PTL
     DEF Spec, ImplementsChannel, Channel!Spec
===============================================================================

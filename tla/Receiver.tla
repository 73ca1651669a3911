------------------------------- MODULE Receiver -------------------------------
(***************************************************************************)
(* rtp::Receiver (rtp_receiver.hpp, rtp_receiver.cpp): a recv thread that  *)
(* copies datagrams into a ring of slabs and reorders them, a              *)
(* single-producer single-consumer job queue, a worker thread that hands   *)
(* each packet to a hook without copying it, and the application thread    *)
(* that calls start() and stop().                                          *)
(*                                                                         *)
(* A packet is the number n the sender gave it, a natural that never       *)
(* wraps; the receiver only sees SeqOf(n), its 16-bit sequence number. The *)
(* bytes of a slab are abstracted to the packet they belong to.  Every     *)
(* action contains at most one access to memory the other thread writes.   *)
(***************************************************************************)
EXTENDS Integers, FiniteSets

CONSTANTS
  kRingSize,        \* ring slots, and slabs, and entries of the job queue
  SeqMod,           \* 2^16: the number of RTP sequence numbers
  jitter_depth,     \* how far ahead of the head a packet may be kept
  Packets,          \* the packet numbers the sender uses
  Reorder,          \* a packet arrives at most this far behind the newest one
  Outage,           \* and at most this far ahead of it
  MaxBusy,          \* bound: no arrivals once slot_busy_drops reaches it,
  MaxLost,          \* or once net_lost_packets does
  MaxStarts,        \* bound: calls of start()
  RestartWhileLent  \* may start() be called while the hook still keeps slabs?

ASSUME RingAssumption == kRingSize \in Nat \ {0}
ASSUME SeqAssumption == /\ SeqMod \in Nat \ {0}
                        /\ SeqMod % 2 = 0
                        /\ SeqMod % kRingSize = 0
ASSUME JitterAssumption == jitter_depth \in Nat \ {0}
ASSUME NetworkAssumption ==
  /\ Packets \subseteq Nat
  /\ Reorder \in Nat /\ Reorder < SeqMod \div 2
  /\ Outage \in Nat  /\ Outage + jitter_depth <= SeqMod \div 2
ASSUME BoundAssumption == {MaxBusy, MaxLost, MaxStarts} \subseteq Nat
ASSUME RestartAssumption == RestartWhileLent \in BOOLEAN

Slots  == 0 .. kRingSize - 1
Seqs   == 0 .. SeqMod - 1
Job    == [slab_idx : Slots, seq : Seqs]
NoPkt  == -1             \* no packet: a slab never written or half overwritten

SeqOf(n)    == n % SeqMod
SlotOf(s)   == s % kRingSize              \* seq & (kRingSize - 1)
NextIdx(k)  == (k + 1) % kRingSize        \* (k + 1) & (kJobQueueSize - 1)
NextSeq(s)  == (s + 1) % SeqMod           \* ++next_seq_ on a uint16_t

\* Mutant of Diff: the cast to int16_t is forgotten.
DiffUncast(s, t) == s - t

\* static_cast<int16_t>(s - t) for two uint16_t values
Diff(s, t) ==
  LET d == (s - t) % SeqMod IN IF d < SeqMod \div 2 THEN d ELSE d - SeqMod

VARIABLES
  \* application thread
  mpc,         \* where start()/stop() stands; "idle" when no session exists
  starts,      \* number of start() calls so far
  running,     \* running_
  sock,        \* is the socket open?
  hook,        \* was start() given a hook?
  \* recv thread
  rpc,         \* where recv_loop() stands
  pkt,         \* the datagram handle_dgram() works on
  ret,         \* the loop that called dispatch()
  was_empty,   \* the local of dispatch()
  started, next_seq, pending,
  filled, slotSeq,
  slab,        \* the packet whose bytes each slab holds
  net_lost, slot_busy, queue_full,
  \* shared between recv thread and worker
  in_worker,
  job_queue, job_head, job_tail,
  \* worker thread
  wpc,         \* where worker_loop() stands
  draining,    \* the worker has left its main loop
  wjob,        \* the local Job j
  lent,        \* slabs the hook has been given and has not released
  \* the network: the newest packet that arrived in this session
  hi,
  \* history, read by no action's guard
  first,       \* the packet that opened the session
  expect,      \* the packet next_seq stands for
  enqueued,    \* packets put in the job queue in this session
  lastOut      \* the last packet the hook was given in this session

mainVars  == <<mpc, starts, running, sock, hook>>
ringVars  == <<filled, slotSeq, pending>>
headVars  == <<next_seq, expect>>
openVars  == <<started, first>>
countVars == <<net_lost, slot_busy, queue_full>>
queueVars == <<job_queue, job_head, job_tail>>
workVars  == <<wpc, draining, wjob>>
hookVars  == <<lent, lastOut>>
dispVars  == <<ret, was_empty>>

vars == <<mainVars, rpc, pkt, dispVars, openVars, headVars, ringVars, slab,
          countVars, in_worker, queueVars, workVars, hookVars, hi, enqueued>>

-----------------------------------------------------------------------------
(***************************************************************************)
(* Application thread: start() and stop().                                 *)
(***************************************************************************)
Init ==
  /\ mpc = "idle" /\ starts = 0 /\ running = FALSE /\ sock = FALSE
  /\ hook = FALSE
  /\ rpc = "done" /\ pkt = NoPkt /\ ret = "release" /\ was_empty = FALSE
  /\ started = FALSE /\ next_seq = 0 /\ pending = 0
  /\ filled = [i \in Slots |-> FALSE]
  /\ slotSeq = [i \in Slots |-> 0]
  /\ slab = [i \in Slots |-> NoPkt]
  /\ net_lost = 0 /\ slot_busy = 0 /\ queue_full = 0
  /\ in_worker = [i \in Slots |-> 0]
  /\ job_queue = [k \in Slots |-> [slab_idx |-> 0, seq |-> 0]]
  /\ job_head = 0 /\ job_tail = 0
  /\ wpc = "done" /\ draining = FALSE
  /\ wjob = [slab_idx |-> 0, seq |-> 0]
  /\ lent = {} /\ lastOut = NoPkt
  /\ hi = NoPkt /\ first = NoPkt /\ expect = NoPkt /\ enqueued = 0

\* Mutant of Start: the jobs of the last session stay in the queue.
StartKeepsQueue(h) ==
  /\ mpc = "idle" /\ starts < MaxStarts /\ lent = {}
  /\ mpc' = "run" /\ starts' = starts + 1
  /\ running' = TRUE /\ sock' = TRUE /\ hook' = h
  /\ started' = FALSE /\ next_seq' = 0 /\ pending' = 0
  /\ filled' = [i \in Slots |-> FALSE]
  /\ in_worker' = [i \in Slots |-> 0]
  /\ net_lost' = 0 /\ slot_busy' = 0 /\ queue_full' = 0
  /\ rpc' = "check" /\ wpc' = "check" /\ draining' = FALSE
  /\ hi' = NoPkt /\ first' = NoPkt /\ expect' = NoPkt /\ enqueued' = 0
  /\ lastOut' = NoPkt
  /\ UNCHANGED <<pkt, dispVars, slotSeq, slab, queueVars, wjob, lent>>

\* start(): the hook, the ring, the queue and the counters are reset, then the
\* two threads run.  A failing socket(), inet_pton() or bind() changes nothing.
Start(h) ==
  /\ mpc = "idle" /\ starts < MaxStarts
  /\ RestartWhileLent \/ lent = {}
  /\ mpc' = "run" /\ starts' = starts + 1
  /\ running' = TRUE /\ sock' = TRUE /\ hook' = h
  /\ started' = FALSE /\ next_seq' = 0 /\ pending' = 0
  /\ filled' = [i \in Slots |-> FALSE]
  /\ in_worker' = [i \in Slots |-> 0]
  /\ job_head' = 0 /\ job_tail' = 0
  /\ net_lost' = 0 /\ slot_busy' = 0 /\ queue_full' = 0
  /\ rpc' = "check" /\ wpc' = "check" /\ draining' = FALSE
  /\ hi' = NoPkt /\ first' = NoPkt /\ expect' = NoPkt /\ enqueued' = 0
  /\ lastOut' = NoPkt
  /\ UNCHANGED <<pkt, dispVars, slotSeq, slab, job_queue, wjob, lent>>

threadVars == <<rpc, pkt, dispVars, openVars, headVars, ringVars, slab,
                countVars, in_worker, queueVars, draining, wjob, hookVars,
                hi, enqueued>>

\* running_.exchange(false)
StopFlag ==
  /\ mpc = "run"
  /\ mpc' = "close" /\ running' = FALSE
  /\ UNCHANGED <<starts, sock, hook, wpc, threadVars>>

\* Mutant of StopClose: the socket stays open.
StopKeepsSocket ==
  /\ mpc = "close"
  /\ mpc' = "join"
  /\ UNCHANGED <<starts, running, sock, hook, wpc, threadVars>>

\* shutdown() and close() of the socket
StopClose ==
  /\ mpc = "close"
  /\ mpc' = "join" /\ sock' = FALSE
  /\ UNCHANGED <<starts, running, hook, wpc, threadVars>>

\* thread_.join()
StopJoinRecv ==
  /\ mpc = "join" /\ rpc = "done"
  /\ mpc' = "lock"
  /\ UNCHANGED <<starts, running, sock, hook, wpc, threadVars>>

\* The empty critical section of worker_mu_, which the worker holds from the
\* evaluation of its predicate until it sleeps.
StopLock ==
  /\ mpc = "lock" /\ wpc \notin {"pred", "sleep"}
  /\ mpc' = "notify"
  /\ UNCHANGED <<starts, running, sock, hook, wpc, threadVars>>

\* A notification reaches the worker only if it already sleeps.
Notified == IF wpc = "waiting" THEN "pred" ELSE wpc

\* worker_cv_.notify_all()
StopNotify ==
  /\ mpc = "notify"
  /\ mpc' = "joinw" /\ wpc' = Notified
  /\ UNCHANGED <<starts, running, sock, hook, threadVars>>

\* worker_.join(), the end of stop()
StopJoinWorker ==
  /\ mpc = "joinw" /\ wpc = "done"
  /\ mpc' = "idle"
  /\ UNCHANGED <<starts, running, sock, hook, wpc, threadVars>>

-----------------------------------------------------------------------------
(***************************************************************************)
(* Recv thread: recv_loop() and handle_dgram().                            *)
(***************************************************************************)
\* What the recv thread leaves alone outside dispatch().
notDispatch == <<mainVars, queueVars, workVars, hookVars, was_empty, enqueued>>

\* while (running_)
RecvCheck ==
  /\ rpc = "check"
  /\ rpc' = IF running THEN "recv" ELSE "done"
  /\ UNCHANGED <<notDispatch, pkt, ret, openVars, headVars, ringVars, slab,
                 countVars, in_worker, hi>>

\* EINTR, a datagram shorter than 12 bytes (recv() on a socket that was shut
\* down returns 0), or one whose RTP header does not fit in it: back to the loop
\* condition.
RecvIgnore ==
  /\ rpc = "recv"
  /\ rpc' = "check"
  /\ UNCHANGED <<notDispatch, pkt, ret, openVars, headVars, ringVars, slab,
                 countVars, in_worker, hi>>

\* recv() fails, because the socket was closed or for a reason of its own.
RecvError ==
  /\ rpc = "recv"
  /\ rpc' = "done"
  /\ UNCHANGED <<notDispatch, pkt, ret, openVars, headVars, ringVars, slab,
                 countVars, in_worker, hi>>

\* The network loses, duplicates and reorders packets within its two bounds.
Arrives(n) == started => n \in hi - Reorder .. hi + Outage

\* The first packet of a session sets next_seq_; one behind the head is late
\* or a duplicate and is dropped.
HandleDgram(n) ==
  /\ rpc = "recv" /\ sock /\ Arrives(n)
  /\ slot_busy < MaxBusy /\ net_lost < MaxLost
  /\ started' = TRUE
  /\ next_seq' = IF started THEN next_seq ELSE SeqOf(n)
  /\ expect' = IF started THEN expect ELSE n
  /\ first' = IF started THEN first ELSE n
  /\ hi' = IF started /\ hi > n THEN hi ELSE n
  /\ \/ /\ Diff(SeqOf(n), next_seq') < 0
        /\ rpc' = "check" /\ UNCHANGED pkt
     \/ /\ Diff(SeqOf(n), next_seq') >= 0
        /\ rpc' = "advance" /\ pkt' = n
  /\ UNCHANGED <<notDispatch, ret, ringVars, slab, countVars, in_worker>>

-----------------------------------------------------------------------------
(***************************************************************************)
(* handle_dgram() after the late check, and release_in_order().            *)
(***************************************************************************)
headSlot  == SlotOf(next_seq)
HeadReady == filled[headSlot] /\ slotSeq[headSlot] = next_seq
pktSlot   == SlotOf(SeqOf(pkt))
\* Mutant of TooFar: off by one at the end of the window.
TooFarLate == Diff(SeqOf(pkt), next_seq) > jitter_depth
TooFar    == Diff(SeqOf(pkt), next_seq) >= jitter_depth

\* handle_dgram() returns.
Return == rpc' = "check" /\ pkt' = NoPkt

\* The first statement of dispatch(): the slab now belongs to the worker.
BeginDispatch(caller) ==
  /\ in_worker' = [in_worker EXCEPT ![headSlot] = 1]
  /\ ret' = caller /\ rpc' = "dispatch"
  /\ UNCHANGED <<notDispatch, pkt, openVars, headVars, ringVars, slab,
                 countVars, hi>>

\* Mutant of ForceMiss: the missing packet is not counted.
ForceMissUncounted ==
  /\ rpc = "advance" /\ TooFar /\ ~HeadReady
  /\ next_seq' = NextSeq(next_seq) /\ expect' = expect + 1
  /\ UNCHANGED <<notDispatch, rpc, pkt, ret, openVars, ringVars, slab,
                 countVars, in_worker, hi>>

\* The datagram is beyond the jitter window: the head moves past a packet that
\* is missing ...
ForceMiss ==
  /\ rpc = "advance" /\ TooFar /\ ~HeadReady
  /\ net_lost' = net_lost + 1
  /\ next_seq' = NextSeq(next_seq) /\ expect' = expect + 1
  /\ UNCHANGED <<notDispatch, rpc, pkt, ret, openVars, ringVars, slab,
                 slot_busy, queue_full, in_worker, hi>>

\* ... or dispatches one that did arrive.
ForceDispatch ==
  /\ rpc = "advance" /\ TooFar /\ HeadReady
  /\ BeginDispatch("advance")

DropDuplicate ==
  /\ rpc = "advance" /\ ~TooFar
  /\ filled[pktSlot] /\ slotSeq[pktSlot] = SeqOf(pkt)
  /\ Return
  /\ UNCHANGED <<notDispatch, ret, openVars, headVars, ringVars, slab,
                 countVars, in_worker, hi>>

DropAlias ==
  /\ rpc = "advance" /\ ~TooFar
  /\ filled[pktSlot] /\ slotSeq[pktSlot] # SeqOf(pkt)
  /\ net_lost' = net_lost + 1
  /\ Return
  /\ UNCHANGED <<notDispatch, ret, openVars, headVars, ringVars, slab,
                 slot_busy, queue_full, in_worker, hi>>

DropBusy ==
  /\ rpc = "advance" /\ ~TooFar
  /\ ~filled[pktSlot] /\ in_worker[pktSlot] # 0
  /\ slot_busy' = slot_busy + 1
  /\ Return
  /\ UNCHANGED <<notDispatch, ret, openVars, headVars, ringVars, slab,
                 net_lost, queue_full, in_worker, hi>>

\* Mutant of StoreBegin: in_worker is not looked at.
StoreUnchecked ==
  /\ rpc = "advance" /\ ~TooFar
  /\ ~filled[pktSlot]
  /\ slab' = [slab EXCEPT ![pktSlot] = NoPkt]
  /\ rpc' = "copy"
  /\ UNCHANGED <<notDispatch, pkt, ret, openVars, headVars, ringVars,
                 countVars, in_worker, hi>>

\* memcpy() into the slab, from its first byte ...
StoreBegin ==
  /\ rpc = "advance" /\ ~TooFar
  /\ ~filled[pktSlot] /\ in_worker[pktSlot] = 0
  /\ slab' = [slab EXCEPT ![pktSlot] = NoPkt]
  /\ rpc' = "copy"
  /\ UNCHANGED <<notDispatch, pkt, ret, openVars, headVars, ringVars,
                 countVars, in_worker, hi>>

\* ... to its last, and the slot's own fields.
StoreEnd ==
  /\ rpc = "copy"
  /\ slab' = [slab EXCEPT ![pktSlot] = pkt]
  /\ slotSeq' = [slotSeq EXCEPT ![pktSlot] = SeqOf(pkt)]
  /\ filled' = [filled EXCEPT ![pktSlot] = TRUE]
  /\ pending' = pending + 1
  /\ rpc' = "release"
  /\ UNCHANGED <<notDispatch, pkt, ret, openVars, headVars, countVars,
                 in_worker, hi>>

\* Mutant of ReleaseHead: release_in_order() is an if, not a while.
ReleaseOnce ==
  /\ rpc = "release" /\ pending > 0 /\ HeadReady
  /\ BeginDispatch("check")

\* release_in_order() dispatches the head while it is there.
ReleaseHead ==
  /\ rpc = "release" /\ pending > 0 /\ HeadReady
  /\ BeginDispatch("release")

ReleaseDone ==
  /\ rpc = "release" /\ ~(pending > 0 /\ HeadReady)
  /\ Return
  /\ UNCHANGED <<notDispatch, ret, openVars, headVars, ringVars, slab,
                 countVars, in_worker, hi>>

-----------------------------------------------------------------------------
(***************************************************************************)
(* dispatch() and enqueue_job(), on the head of the jitter window.         *)
(***************************************************************************)
\* What dispatch() leaves alone.
notRing == <<mainVars, draining, wjob, hookVars, openVars, slotSeq, slab,
             pkt, hi, net_lost, slot_busy, job_head>>

\* The caller empties the slot and moves the head, whatever dispatch() did.
EndDispatch ==
  /\ filled' = [filled EXCEPT ![headSlot] = FALSE]
  /\ pending' = pending - 1
  /\ next_seq' = NextSeq(next_seq) /\ expect' = expect + 1
  /\ rpc' = ret

\* was_empty is computed before the job is queued, from a head that the worker
\* may move right after.
DispatchProbe ==
  /\ rpc = "dispatch"
  /\ was_empty' = (job_head = job_tail)
  /\ rpc' = "enqueue"
  /\ UNCHANGED <<notRing, ret, headVars, filled, pending, queue_full,
                 in_worker, job_queue, job_tail, wpc, enqueued>>

\* Mutant of EnqueueFull: the slab of the dropped packet stays with the worker.
EnqueueFullLeaks ==
  /\ rpc = "enqueue" /\ NextIdx(job_tail) = job_head
  /\ queue_full' = queue_full + 1
  /\ EndDispatch
  /\ UNCHANGED <<notRing, dispVars, job_queue, job_tail, wpc, enqueued,
                 in_worker>>

EnqueueFull ==
  /\ rpc = "enqueue" /\ NextIdx(job_tail) = job_head
  /\ in_worker' = [in_worker EXCEPT ![headSlot] = 0]
  /\ queue_full' = queue_full + 1
  /\ EndDispatch
  /\ UNCHANGED <<notRing, dispVars, job_queue, job_tail, wpc, enqueued>>

EnqueueWrite ==
  /\ rpc = "enqueue" /\ NextIdx(job_tail) # job_head
  /\ job_queue' = [job_queue EXCEPT ![job_tail] =
                     [slab_idx |-> headSlot, seq |-> slotSeq[headSlot]]]
  /\ rpc' = "publish"
  /\ UNCHANGED <<notRing, dispVars, headVars, filled, pending, queue_full,
                 in_worker, job_tail, wpc, enqueued>>

\* Mutant of EnqueuePublish: the tail index does not wrap.
PublishUnmasked ==
  /\ rpc = "publish"
  /\ job_tail' = job_tail + 1
  /\ rpc' = "notify"
  /\ UNCHANGED <<notRing, dispVars, headVars, filled, pending, queue_full,
                 in_worker, job_queue, wpc, enqueued>>

EnqueuePublish ==
  /\ rpc = "publish"
  /\ job_tail' = NextIdx(job_tail)
  /\ rpc' = "notify"
  /\ UNCHANGED <<notRing, dispVars, headVars, filled, pending, queue_full,
                 in_worker, job_queue, wpc, enqueued>>

\* notify_one() only for a queue that was empty
DispatchNotify ==
  /\ rpc = "notify"
  /\ wpc' = IF was_empty THEN Notified ELSE wpc
  /\ EndDispatch
  /\ enqueued' = enqueued + 1
  /\ UNCHANGED <<notRing, dispVars, queue_full, in_worker, job_queue,
                 job_tail>>

-----------------------------------------------------------------------------
(***************************************************************************)
(* Worker thread: worker_loop(), dequeue_job(), process_job().             *)
(***************************************************************************)
\* What the worker leaves alone.
notWorker == <<mainVars, rpc, pkt, dispVars, openVars, headVars, ringVars,
               slab, countVars, hi, enqueued, job_queue, job_tail>>

\* while (running_): once it is false only the queue is drained.
WorkerCheck ==
  /\ wpc = "check"
  /\ wpc' = "dequeue" /\ draining' = ~running
  /\ UNCHANGED <<notWorker, in_worker, job_head, wjob, hookVars>>

DequeueEmpty ==
  /\ wpc = "dequeue" /\ job_head = job_tail
  /\ wpc' = IF draining THEN "done" ELSE "pred"
  /\ UNCHANGED <<notWorker, in_worker, job_head, draining, wjob, hookVars>>

DequeueRead ==
  /\ wpc = "dequeue" /\ job_head # job_tail
  /\ wjob' = job_queue[job_head]
  /\ wpc' = "pop"
  /\ UNCHANGED <<notWorker, in_worker, job_head, draining, hookVars>>

DequeuePop ==
  /\ wpc = "pop"
  /\ job_head' = NextIdx(job_head)
  /\ wpc' = "process"
  /\ UNCHANGED <<notWorker, in_worker, draining, wjob, hookVars>>

\* Where the worker goes after process_job().
AfterJob == IF draining THEN "dequeue" ELSE "check"

\* Mutant of ProcessJob: the worker itself clears in_worker.
ProcessReleases ==
  /\ wpc = "process" /\ hook
  /\ lent' = lent \cup {wjob.slab_idx}
  /\ in_worker' = [in_worker EXCEPT ![wjob.slab_idx] = 0]
  /\ lastOut' = slab[wjob.slab_idx]
  /\ wpc' = "hook"
  /\ UNCHANGED <<notWorker, job_head, draining, wjob>>

\* The hook is called on the slab's bytes and keeps the slab.
ProcessJob ==
  /\ wpc = "process" /\ hook
  /\ lent' = lent \cup {wjob.slab_idx}
  /\ lastOut' = slab[wjob.slab_idx]
  /\ wpc' = "hook"
  /\ UNCHANGED <<notWorker, in_worker, job_head, draining, wjob>>

\* Without a hook the slab goes straight back to the recv thread.
ProcessUnhooked ==
  /\ wpc = "process" /\ ~hook
  /\ in_worker' = [in_worker EXCEPT ![wjob.slab_idx] = 0]
  /\ wpc' = AfterJob
  /\ UNCHANGED <<notWorker, job_head, draining, wjob, hookVars>>

\* release_slab(), called by the hook for a slab it was given
HookRelease(i) ==
  /\ wpc = "hook" /\ i \in lent
  /\ in_worker' = [in_worker EXCEPT ![i] = 0]
  /\ lent' = lent \ {i}
  /\ UNCHANGED <<notWorker, job_head, workVars, lastOut>>

HookReturn ==
  /\ wpc = "hook"
  /\ wpc' = AfterJob
  /\ UNCHANGED <<notWorker, in_worker, job_head, draining, wjob, hookVars>>

\* The predicate of wait_for(), evaluated under worker_mu_
WaitPredicate ==
  /\ wpc = "pred"
  /\ wpc' = IF ~running \/ job_head # job_tail THEN "check" ELSE "sleep"
  /\ UNCHANGED <<notWorker, in_worker, job_head, draining, wjob, hookVars>>

WaitSleep ==
  /\ wpc = "sleep"
  /\ wpc' = "waiting"
  /\ UNCHANGED <<notWorker, in_worker, job_head, draining, wjob, hookVars>>

\* Mutant of WaitTimeout: wait() in place of wait_for().
WaitUntimed == wpc = "waiting" /\ UNCHANGED vars

\* The 1 ms of wait_for() have passed.
WaitTimeout ==
  /\ wpc = "waiting"
  /\ wpc' = "check"
  /\ UNCHANGED <<notWorker, in_worker, job_head, draining, wjob, hookVars>>

-----------------------------------------------------------------------------
\* The application makes no further call.
Finished ==
  /\ mpc = "idle"
  /\ UNCHANGED vars

StopStep == StopClose \/ StopJoinRecv \/ StopLock \/ StopNotify
              \/ StopJoinWorker

RecvStep ==
  \/ RecvCheck \/ ForceMiss \/ ForceDispatch
  \/ DropDuplicate \/ DropAlias \/ DropBusy
  \/ StoreBegin \/ StoreEnd \/ ReleaseHead \/ ReleaseDone
  \/ DispatchProbe \/ EnqueueFull \/ EnqueueWrite \/ EnqueuePublish
  \/ DispatchNotify

WorkerStep ==
  \/ WorkerCheck \/ DequeueEmpty \/ DequeueRead \/ DequeuePop
  \/ ProcessJob \/ ProcessUnhooked \/ HookReturn
  \/ WaitPredicate \/ WaitSleep \/ WaitTimeout

Next ==
  \/ \E h \in BOOLEAN : Start(h)
  \/ StopFlag \/ StopStep
  \/ RecvIgnore \/ RecvError \/ RecvStep
  \/ \E n \in Packets : HandleDgram(n)
  \/ WorkerStep
  \/ \E i \in Slots : HookRelease(i)
  \/ Finished

Spec == Init /\ [][Next]_vars

\* Each thread is scheduled, the hook returns, the timed wait expires, and
\* recv() on a closed socket fails.  Nothing makes packets arrive, the hook
\* release slabs, or the application call stop().
Fairness ==
  /\ WF_vars(StopStep)
  /\ WF_vars(RecvStep)
  /\ WF_vars(RecvError /\ ~sock)
  /\ WF_vars(WorkerStep)

FairSpec == Spec /\ Fairness

-----------------------------------------------------------------------------
(***************************************************************************)
(* Properties.                                                             *)
(***************************************************************************)
\* Type correctness of every variable of the two threads and of stop().
TypeOK ==
  /\ mpc \in {"idle", "run", "close", "join", "lock", "notify", "joinw"}
  /\ starts \in 0 .. MaxStarts
  /\ running \in BOOLEAN /\ sock \in BOOLEAN /\ hook \in BOOLEAN
  /\ rpc \in {"check", "recv", "advance", "copy", "release", "dispatch",
              "enqueue", "publish", "notify", "done"}
  /\ pkt \in Packets \cup {NoPkt}
  /\ ret \in {"advance", "release"} /\ was_empty \in BOOLEAN
  /\ started \in BOOLEAN /\ next_seq \in Seqs
  /\ filled \in [Slots -> BOOLEAN] /\ slotSeq \in [Slots -> Seqs]
  /\ pending \in Int
  /\ slab \in [Slots -> Packets \cup {NoPkt}]
  /\ net_lost \in Nat /\ slot_busy \in Nat /\ queue_full \in Nat
  /\ in_worker \in [Slots -> {0, 1}]
  /\ job_queue \in [Slots -> Job]
  /\ job_head \in Slots /\ job_tail \in Slots
  /\ wpc \in {"check", "dequeue", "pop", "process", "hook", "pred", "sleep",
              "waiting", "done"}
  /\ draining \in BOOLEAN /\ wjob \in Job
  /\ lent \subseteq Slots /\ lastOut \in Packets \cup {NoPkt}
  /\ hi \in Packets \cup {NoPkt} /\ first \in Packets \cup {NoPkt}
  /\ expect \in Int /\ enqueued \in Nat

\* The indices of a circular queue from head h up to, not including, tail t
Between(h, t, k) == IF h <= t THEN h <= k /\ k < t ELSE h <= k \/ k < t

\* The entries of the job queue
Queued(k) == Between(job_head, job_tail, k)

\* The slab whose job the recv thread is about to publish
Dispatching(i) == rpc \in {"dispatch", "enqueue", "publish"} /\ i = headSlot

\* The slab whose job the worker has taken and not yet given to the hook
InHand(i) == wpc = "process" /\ i = wjob.slab_idx

\* A job describes the bytes that lie in its slab.
Describes(j) ==
  slab[j.slab_idx] # NoPkt /\ SeqOf(slab[j.slab_idx]) = j.seq

\* From the publication of a job until the hook releases its slab, the recv
\* thread neither overwrites the slab nor starts to: each queued job, and the
\* job in the worker's hands, still describes the bytes in its slab, and every
\* slab the hook keeps holds a whole packet.
SlabExclusive ==
  /\ \A k \in Slots : Queued(k) => Describes(job_queue[k])
  /\ wpc = "process" => Describes(wjob)
  /\ \A i \in lent : slab[i] # NoPkt

\* in_worker is set for exactly the slabs that are being dispatched, queued, in
\* the worker's hands or kept by the hook, and each of them only once: no flag
\* leaks while a session lasts, and no slab is owned twice.
OwnershipExact ==
  /\ \A i \in Slots :
       in_worker[i] = 1 <=>
         \/ Dispatching(i) \/ InHand(i) \/ i \in lent
         \/ \E k \in Slots : Queued(k) /\ job_queue[k].slab_idx = i
  /\ \A k, m \in Slots :
       Queued(k) /\ Queued(m) /\ job_queue[k].slab_idx = job_queue[m].slab_idx
         => k = m
  /\ \A k \in Slots :
       Queued(k) => /\ ~Dispatching(job_queue[k].slab_idx)
                    /\ ~InHand(job_queue[k].slab_idx)
                    /\ job_queue[k].slab_idx \notin lent
  /\ \A i \in lent : ~InHand(i) /\ ~Dispatching(i)
  /\ \A i \in Slots : ~(InHand(i) /\ Dispatching(i))

\* The jitter buffer is a window: a filled slot holds the packet it claims to
\* hold, in the slot of its sequence number, less than jitter_depth_ ahead of
\* the head, and pending_ counts the filled slots.  With a jitter depth of at most
\* kRingSize no datagram finds its slot filled by another sequence number: the
\* alias branch is never taken.
JitterWindow ==
  /\ \A i \in Slots : filled[i] =>
       /\ slab[i] # NoPkt
       /\ slotSeq[i] = SeqOf(slab[i]) /\ i = SlotOf(slotSeq[i])
       /\ expect <= slab[i] /\ slab[i] < expect + jitter_depth
  /\ pending = Cardinality({i \in Slots : filled[i]})
  /\ jitter_depth <= kRingSize /\ rpc = "advance" /\ ~TooFar /\ filled[pktSlot]
       => slotSeq[pktSlot] = SeqOf(pkt)

\* The signed 16-bit difference of handle_dgram() is the true distance from the
\* head to the packet, across wrap-around of the sequence number and while the
\* head is force-advanced, and next_seq_ stands for the packet expected.
DistanceExact ==
  started => /\ next_seq = SeqOf(expect)
             /\ pkt # NoPkt /\ rpc \in {"advance", "copy"}
                  => Diff(SeqOf(pkt), next_seq) = pkt - expect

\* Every packet the head has passed was queued, counted in net_lost_packets_ or
\* counted in queue_full_drops_, and was so exactly once.
Accounting ==
  started => expect = first + enqueued + net_lost + queue_full

\* When the recv thread waits for a datagram, the next packet in order is not
\* lying ready in the ring, unless a slot-busy drop cut the release short.
PromptRelease ==
  rpc = "recv" /\ started /\ HeadReady => slot_busy > 0

\* The receiver is a SlabChannel: whole packets, in order, at most once, in
\* slabs that are stable and exclusive until released.
Channel == INSTANCE SlabChannel WITH
  Slabs <- Slots,
  view  <- [i \in lent |-> slab[i]],
  last  <- lastOut

ImplementsChannel == Channel!Spec

\* A queued job does not stay in the queue for ever while the receiver runs,
\* although notify_one() is skipped or lost in some interleavings.
QueuedIsProcessed ==
  \A k \in Slots :
    (running /\ job_head = k /\ job_tail # k) ~> (~running \/ job_head # k)

\* stop() returns: both threads can always be joined.
StopReturns == (mpc = "close") ~> (mpc = "idle")
=============================================================================

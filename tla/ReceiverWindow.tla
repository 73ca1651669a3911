---------------------------- MODULE ReceiverWindow ----------------------------
(***************************************************************************)
(* The jitter window of the recv thread: the arithmetic of sequence        *)
(* numbers across their wrap-around, the window invariant, and the         *)
(* promises that follow from it without the worker.                        *)
(***************************************************************************)
EXTENDS ReceiverProofs, FiniteSetTheorems

\* The names of groups of variables are always expanded.
USE DEF mainVars, ringVars, headVars, openVars, countVars, queueVars, workVars,
        hookVars, dispVars, threadVars, notDispatch, notRing, notWorker

-----------------------------------------------------------------------------
(***************************************************************************)
(* Sequence numbers and slots.                                             *)
(***************************************************************************)
\* A remainder differs from the number by a multiple of the divisor.
LEMMA Quotient ==
  ASSUME NEW M \in Nat \ {0}, NEW a \in Int
  PROVE  \E q \in Int : a % M = a - M * q
<1>1. M \in Nat /\ M > 0 /\ a \div M \in Int
  OBVIOUS
<1>2. a % M = a - M * (a \div M)
  BY <1>1, Z3
<1>3. QED
  BY <1>1, <1>2

\* A number is a multiple of the divisor and its remainder.
LEMMA Remainder ==
  ASSUME NEW M \in Nat \ {0}, NEW q \in Int, NEW r \in 0 .. M - 1
  PROVE  (M * q + r) % M = r
OBVIOUS

\* Numbers that differ by a multiple of the divisor have the same remainder.
LEMMA SameRemainder ==
  ASSUME NEW M \in Nat \ {0}, NEW a \in Int, NEW b \in Int, NEW q \in Int,
         b = a - M * q
  PROVE  b % M = a % M
<1>1. PICK p \in Int : a % M = a - M * p
  BY Zenon, Quotient
<1>2. PICK r \in 0 .. M - 1 : r = a % M
  OBVIOUS
<1>3. r = a - M * p
  BY <1>1, <1>2
<1>4. b = M * (p - q) + r
  BY <1>3
<1>5. (M * (p - q) + r) % M = r
  BY p - q \in Int, Remainder
<1>6. QED
  BY Zenon, <1>2, <1>4, <1>5

\* Equal remainders of numbers less than the divisor apart: the same number.
LEMMA RemainderUnique ==
  ASSUME NEW M \in Nat \ {0}, NEW a \in Int, NEW b \in Int,
         a % M = b % M, a - b < M, b - a < M
  PROVE  a = b
<1>1. PICK p \in Int : a % M = a - M * p
  BY Zenon, Quotient
<1>2. PICK q \in Int : b % M = b - M * q
  BY Zenon, Quotient
<1>3. /\ M * (p - q) = M * p - M * q /\ p - q \in Int
      /\ M * p \in Int /\ M * q \in Int
  OBVIOUS
<1>4. a - b = M * (p - q)
  BY <1>1, <1>2, <1>3
<1>5. \A k \in Int : (k >= 1 => M * k >= M) /\ (k <= -1 => M * k <= -M)
  OBVIOUS
<1>6. p - q = 0
  BY <1>3, <1>4, <1>5
<1>7. QED
  BY <1>4, <1>6

\* The remainder of a number of one turn
LEMMA SmallRemainder ==
  ASSUME NEW M \in Nat \ {0}, NEW x \in Int
  PROVE  /\ 0 <= x /\ x < M => x % M = x
         /\ -M <= x /\ x < 0 => x % M = x + M
OBVIOUS

\* The remainder of a successor
LEMMA RemainderOfNext ==
  ASSUME NEW M \in Nat \ {0}, NEW a \in Int
  PROVE  ((a % M) + 1) % M = (a + 1) % M
<1>1. PICK p \in Int : a % M = a - M * p
  BY Zenon, Quotient
<1>2. PICK r \in Int : r = a % M
  OBVIOUS
<1>3. r + 1 = (a + 1) - M * p
  BY <1>1, <1>2
<1>4. (r + 1) % M = (a + 1) % M
  <2>1. r + 1 \in Int /\ a + 1 \in Int
    OBVIOUS
  <2>2. QED
    BY ONLY <2>1, <1>3, M \in Nat \ {0}, p \in Int, SameRemainder
<1>5. QED
  BY <1>2, <1>4

\* SeqMod is twice its half.
LEMMA Halves == SeqMod \div 2 \in Nat /\ SeqMod = 2 * (SeqMod \div 2)
BY SeqAssumption

\* The signed difference of two sequence numbers is the distance of the packets
\* as long as that is less than half of the sequence space.
LEMMA DiffIsDistance ==
  ASSUME NEW a \in Int, NEW b \in Int,
         -(SeqMod \div 2) <= a - b, a - b < SeqMod \div 2
  PROVE  Diff(SeqOf(a), SeqOf(b)) = a - b
<1>1. PICK r \in Int, s \in Int :
        r = SeqOf(a) /\ s = SeqOf(b) /\ r = a % SeqMod /\ s = b % SeqMod
  BY SeqAssumption DEF SeqOf
<1>2. (r - s) % SeqMod = (a - b) % SeqMod
  <2>1. PICK p \in Int : a % SeqMod = a - SeqMod * p
    BY Zenon, Quotient, SeqAssumption
  <2>2. PICK q \in Int : b % SeqMod = b - SeqMod * q
    BY Zenon, Quotient, SeqAssumption
  <2>3. r = a - SeqMod * p /\ s = b - SeqMod * q
    BY <1>1, <2>1, <2>2
  <2>4. r - s = (a - b) - SeqMod * (p - q)
    BY <2>3, SeqAssumption
  <2>5. r - s \in Int /\ a - b \in Int /\ p - q \in Int
    OBVIOUS
  <2>6. SeqMod \in Nat \ {0}
    BY SeqAssumption
  <2>7. QED
    BY ONLY <2>4, <2>5, <2>6, SameRemainder
<1>3. PICK h \in Nat : h = SeqMod \div 2 /\ SeqMod = 2 * h
  BY Halves
<1>4. PICK d \in Int : d = a - b
  OBVIOUS
<1>5. d % SeqMod = IF d >= 0 THEN d ELSE d + SeqMod
  <2>1. d >= 0 => 0 <= d /\ d < SeqMod
    BY <1>3, <1>4
  <2>2. ~(d >= 0) => -SeqMod <= d /\ d < 0
    BY <1>3, <1>4
  <2>3. QED
    BY Zenon, <2>1, <2>2, SmallRemainder, SeqAssumption
<1>6. QED
  BY <1>1, <1>2, <1>3, <1>4, <1>5 DEF Diff

\* Two packets with one sequence number are SeqMod apart.
LEMMA SeqUnique ==
  ASSUME NEW a \in Int, NEW b \in Int, SeqOf(a) = SeqOf(b),
         a - b < SeqMod, b - a < SeqMod
  PROVE  a = b
BY Zenon, RemainderUnique, SeqAssumption DEF SeqOf

\* The slot of a packet is its number modulo the ring.
LEMMA SlotOfPacket ==
  ASSUME NEW a \in Int
  PROVE  SlotOf(SeqOf(a)) = a % kRingSize
<1>1. PICK c \in Int : SeqMod = kRingSize * c
  <2>1. SeqMod \in Int
    BY SeqAssumption
  <2>2. PICK c \in Int : SeqMod % kRingSize = SeqMod - kRingSize * c
    BY Zenon, <2>1, Quotient, RingAssumption
  <2>3. QED
    BY <2>2, SeqAssumption, RingAssumption
<1>2. PICK q \in Int : SeqOf(a) = a - SeqMod * q
  BY Zenon, Quotient, SeqAssumption DEF SeqOf
<1>3. SeqOf(a) \in Int /\ c * q \in Int
  BY SeqAssumption DEF SeqOf
<1>4. SeqOf(a) = a - kRingSize * (c * q)
  BY <1>1, <1>2, RingAssumption
<1>5. QED
  BY Zenon, <1>3, <1>4, SameRemainder, RingAssumption DEF SlotOf

\* Two packets in one slot are kRingSize apart.
LEMMA SlotUnique ==
  ASSUME NEW a \in Int, NEW b \in Int, SlotOf(SeqOf(a)) = SlotOf(SeqOf(b)),
         a - b < kRingSize, b - a < kRingSize
  PROVE  a = b
BY Zenon, SlotOfPacket, RemainderUnique, RingAssumption

\* ++next_seq_ steps to the sequence number of the next packet.
LEMMA NextSeqOf ==
  ASSUME NEW a \in Int
  PROVE  NextSeq(SeqOf(a)) = SeqOf(a + 1)
BY Zenon, RemainderOfNext, SeqAssumption DEF NextSeq, SeqOf

-----------------------------------------------------------------------------
(***************************************************************************)
(* The window.  hi is the newest packet that has arrived; the two bounds   *)
(* on the network keep every datagram within half of the sequence space of *)
(* the head.                                                               *)
(***************************************************************************)
\* The recv thread moves the head for a datagram beyond the jitter window.
Advancing == rpc = "advance" \/ (rpc \in Busy /\ ret = "advance")

\* Before the first datagram of a session nothing is in the ring, in the queue
\* or handed out.
UnopenedInv ==
  ~started => /\ \A i \in Slots : ~filled[i]
              /\ rpc \in {"check", "recv", "done"}
              /\ job_head = job_tail /\ wpc # "process" /\ lastOut = NoPkt

\* The head is the sequence number of the packet expected; every filled slot is
\* in the window and at most hi; a datagram beyond the window is the newest
\* one and is being made room for; a datagram being copied is in the window.
WindowInv ==
  started =>
    /\ expect \in Nat /\ hi \in Nat /\ expect <= hi + 1
    /\ next_seq = SeqOf(expect)
    /\ \A i \in Slots : filled[i] =>
         /\ i = SlotOf(slotSeq[i])
         /\ expect <= slab[i] /\ slab[i] < expect + jitter_depth
         /\ slab[i] <= hi
    /\ hi < expect + jitter_depth \/ (Advancing /\ hi = pkt)
    /\ Advancing => /\ expect <= pkt /\ pkt <= hi
                    /\ pkt < expect + Outage + jitter_depth
    /\ rpc \in Busy /\ ret = "advance" => expect + jitter_depth <= pkt
    /\ rpc = "copy" => /\ expect <= pkt /\ pkt <= hi
                       /\ pkt < expect + jitter_depth

\* pending_ counts the filled slots.
CountInv == pending = Cardinality({i \in Slots : filled[i]})

\* The datagram at hand is already in the ring.
Duplicate == filled[pktSlot] /\ slotSeq[pktSlot] = SeqOf(pkt)

\* Until a slot-busy drop, the recv thread neither goes back to recv() nor is
\* about to, with the next packet in order lying ready.
PromptInv ==
  started /\ HeadReady /\ slot_busy = 0 =>
    rpc \notin {"check", "recv"} /\ ~(rpc = "advance" /\ Duplicate)

\* What WindowInv is about
windowVars == <<started, expect, hi, next_seq, filled, slotSeq, slab, rpc, ret,
                pkt>>

\* stop(), the worker and the hook do not touch the window.
LEMMA OthersLeaveWindow ==
  ASSUME StopFlag \/ StopStep \/ WorkerStep \/ Finished
           \/ \E i \in Slots : HookRelease(i)
  PROVE  UNCHANGED windowVars
<1>1. CASE StopFlag \/ StopStep
  BY Zenon, <1>1 DEF windowVars, StopFlag, StopStep, StopClose, StopJoinRecv,
     StopLock,
     StopNotify, StopJoinWorker
<1>2. CASE WorkerStep
  BY Zenon, <1>2 DEF windowVars, WorkerStep, WorkerCheck, DequeueEmpty,
     DequeueRead,
     DequeuePop, ProcessJob, ProcessUnhooked, HookReturn, WaitPredicate,
     WaitSleep, WaitTimeout
<1>3. CASE Finished \/ \E i \in Slots : HookRelease(i)
  BY <1>3 DEF windowVars, Finished, vars, HookRelease
<1>4. QED
  BY <1>1, <1>2, <1>3

\* What leaves the window alone keeps it.
LEMMA WindowFrame ==
  ASSUME WindowInv, UNCHANGED windowVars
  PROVE  WindowInv'
BY DEF WindowInv, windowVars, Advancing

\* The numbers the window is about
LEMMA WindowTypes ==
  ASSUME IInv
  PROVE  /\ jitter_depth \in Nat /\ jitter_depth >= 1
         /\ Reorder \in Nat /\ Outage \in Nat /\ Packets \subseteq Nat
         /\ pkt \in Int /\ hi \in Int /\ expect \in Int
         /\ \A i \in Slots : slab[i] \in Int /\ filled[i] \in BOOLEAN
         /\ headSlot \in Slots /\ pktSlot \in Slots
BY JitterAssumption, NetworkAssumption, PacketsAreInts, RingTypes DEF IInv,
   TypeOK

\* The packet in a ready head slot is the one that is expected.
LEMMA HeadIsExpected ==
  ASSUME IInv, WindowInv, started
  PROVE  /\ HeadReady => slab[headSlot] = expect
         /\ \A i \in Slots :
              filled[i] /\ slab[i] = expect => i = headSlot /\ HeadReady
<1>1. \A i \in Slots : filled[i] => slotSeq[i] = SeqOf(slab[i])
  BY DEF IInv, RecvInv
<1>2. ASSUME HeadReady PROVE slab[headSlot] = expect
  <2>1. SeqOf(slab[headSlot]) = SeqOf(expect)
    BY <1>1, <1>2, WindowTypes DEF HeadReady, WindowInv
  <2>2. PICK h \in Nat : h = SeqMod \div 2 /\ SeqMod = 2 * h
    BY Halves
  <2>3. /\ slab[headSlot] \in Int /\ expect \in Int
        /\ slab[headSlot] - expect < SeqMod /\ expect - slab[headSlot] < SeqMod
    BY <1>2, <2>2, WindowTypes, NetworkAssumption, SeqAssumption DEF HeadReady,
       WindowInv
  <2>4. QED
    BY <2>1, <2>3, SeqUnique
<1>3. ASSUME NEW i \in Slots, filled[i], slab[i] = expect
      PROVE  i = headSlot /\ HeadReady
  BY <1>1, <1>3 DEF WindowInv, headSlot, HeadReady
<1>4. QED
  BY <1>2, <1>3

\* The distance handle_dgram() computes is the true one.
LEMMA PacketDistance ==
  ASSUME IInv, WindowInv, started, rpc \in {"advance", "copy"}
  PROVE  Diff(SeqOf(pkt), next_seq) = pkt - expect
<1>1. PICK h \in Nat : h = SeqMod \div 2
  BY Halves
<1>2. /\ pkt \in Int /\ expect \in Int /\ next_seq = SeqOf(expect)
      /\ -h <= pkt - expect /\ pkt - expect < h
  BY <1>1, WindowTypes, NetworkAssumption DEF WindowInv, Advancing
<1>3. QED
  BY <1>1, <1>2, DiffIsDistance

\* A datagram arrives.
LEMMA WindowArrival ==
  ASSUME IInv, UnopenedInv, WindowInv, NEW n \in Packets, HandleDgram(n)
  PROVE  WindowInv'
<1>1. n \in Nat
  BY NetworkAssumption
<1>2. CASE ~started
  <2>1. /\ started' /\ expect' = n /\ hi' = n /\ next_seq' = SeqOf(n)
        /\ rpc' = "check" \/ (rpc' = "advance" /\ pkt' = n)
        /\ UNCHANGED filled
    BY <1>2 DEF HandleDgram
  <2>2. QED
    BY <1>1, <1>2, <2>1, WindowTypes DEF UnopenedInv, WindowInv, Advancing,
       Busy
<1>3. CASE started
  <2>1. /\ n <= hi + Outage /\ hi - Reorder <= n
        /\ hi < expect + jitter_depth /\ expect <= hi + 1
        /\ expect \in Nat /\ hi \in Nat
        /\ UNCHANGED <<started, expect, next_seq, filled, slotSeq, slab, ret>>
        /\ hi' = IF hi > n THEN hi ELSE n
        /\ next_seq' = SeqOf(expect)
    BY <1>1, <1>3, WindowTypes DEF HandleDgram, Arrives, WindowInv, Advancing,
       Busy
  <2>2. Diff(SeqOf(n), next_seq') = n - expect
    <3>1. PICK h \in Nat : h = SeqMod \div 2 /\ SeqMod = 2 * h
      BY Halves
    <3>2. -h <= n - expect /\ n - expect < h
      BY <1>1, <2>1, <3>1, WindowTypes, NetworkAssumption
    <3>3. QED
      BY <1>1, <2>1, <3>1, <3>2, DiffIsDistance
  <2>3. \/ n < expect /\ rpc' = "check"
        \/ n >= expect /\ rpc' = "advance" /\ pkt' = n
    BY <1>1, <2>1, <2>2 DEF HandleDgram
  <2>4. QED
    BY <1>1, <1>3, <2>1, <2>3, WindowTypes DEF WindowInv, Advancing, Busy
<1>4. QED
  BY <1>2, <1>3

\* The head moves past a missing packet.
LEMMA WindowMiss ==
  ASSUME IInv, UnopenedInv, WindowInv, ForceMiss
  PROVE  WindowInv'
<1>1. started /\ rpc = "advance" /\ rpc' = "advance"
  BY DEF ForceMiss, UnopenedInv
<1>2. pkt - expect >= jitter_depth
  BY <1>1, PacketDistance DEF ForceMiss, TooFar
<1>3. \A i \in Slots : filled[i] => slab[i] # expect
  BY <1>1, HeadIsExpected DEF ForceMiss
<1>4. next_seq' = SeqOf(expect + 1)
  BY <1>1, NextSeqOf, WindowTypes DEF ForceMiss, WindowInv
<1>5. QED
  BY <1>1, <1>2, <1>3, <1>4, WindowTypes DEF ForceMiss, WindowInv, Advancing,
     Busy

\* The head moves past the packet that dispatch() has taken.
LEMMA WindowDispatched ==
  ASSUME IInv, UnopenedInv, WindowInv, rpc \in Busy, EndDispatch,
         UNCHANGED <<started, hi, slotSeq, slab, ret, pkt>>
  PROVE  WindowInv'
<1>1. started /\ HeadReady
  BY Zenon DEF UnopenedInv, Busy, IInv, RecvInv
<1>2. /\ slab[headSlot] = expect
      /\ \A i \in Slots \ {headSlot} : filled[i] => slab[i] # expect
  BY <1>1, HeadIsExpected
<1>3. next_seq' = SeqOf(expect + 1)
  BY <1>1, NextSeqOf, WindowTypes DEF EndDispatch, WindowInv
<1>4. /\ expect' = expect + 1 /\ rpc' = ret /\ ret \in {"advance", "release"}
      /\ \A i \in Slots : filled'[i] => i # headSlot /\ filled[i]
  BY RingTypes DEF EndDispatch, IInv
<1>5. expect <= hi
  BY <1>1, <1>2, WindowTypes DEF WindowInv, HeadReady
<1>6. QED
  BY <1>1, <1>2, <1>3, <1>4, <1>5, WindowTypes DEF WindowInv, Advancing, Busy

\* The steps of handle_dgram() and dispatch() that do not move the head
LEMMA WindowRest ==
  ASSUME IInv, UnopenedInv, WindowInv,
         \/ RecvCheck \/ RecvIgnore \/ RecvError \/ ForceDispatch
         \/ DropDuplicate \/ DropAlias \/ DropBusy \/ StoreBegin \/ StoreEnd
         \/ ReleaseHead \/ ReleaseDone \/ DispatchProbe \/ EnqueueWrite
         \/ EnqueuePublish
  PROVE  WindowInv'
<1>1. CASE RecvCheck \/ RecvIgnore \/ RecvError
  BY Zenon, <1>1 DEF RecvCheck, RecvIgnore, RecvError, WindowInv, Advancing,
     Busy
<1>2. CASE ForceDispatch
  <2>1. started /\ pkt - expect >= jitter_depth
    BY <1>2, PacketDistance DEF ForceDispatch, TooFar, UnopenedInv
  <2>2. /\ rpc = "advance" /\ rpc' = "dispatch" /\ ret' = "advance"
        /\ UNCHANGED <<started, expect, hi, next_seq, filled, slotSeq, slab,
                       pkt>>
    BY <1>2 DEF ForceDispatch, BeginDispatch
  <2>3. QED
    BY <2>1, <2>2, WindowTypes DEF WindowInv, Advancing, Busy
<1>3. CASE DropDuplicate \/ DropAlias \/ DropBusy \/ StoreBegin
  <2>1. /\ started /\ rpc = "advance" /\ ~(pkt - expect >= jitter_depth)
    BY Zenon, <1>3, PacketDistance DEF DropDuplicate, DropAlias, DropBusy,
       StoreBegin,
       TooFar, UnopenedInv
  <2>2. \A i \in Slots : filled[i] => slab'[i] = slab[i]
    BY Zenon, <1>3, RingTypes DEF DropDuplicate, DropAlias, DropBusy,
       StoreBegin, IInv
  <2>3. rpc' = "check" \/ (rpc' = "copy" /\ pkt' = pkt)
    BY Zenon, <1>3 DEF DropDuplicate, DropAlias, DropBusy, StoreBegin, Return
  <2>4. UNCHANGED <<started, expect, hi, next_seq, filled, slotSeq, ret>>
    BY Zenon, <1>3 DEF DropDuplicate, DropAlias, DropBusy, StoreBegin, Return
  <2>5. QED
    BY <2>1, <2>2, <2>3, <2>4, WindowTypes DEF WindowInv, Advancing, Busy
<1>4. CASE StoreEnd
  <2>1. /\ started /\ rpc = "copy" /\ rpc' = "release"
        /\ UNCHANGED <<started, expect, hi, next_seq, pkt, ret>>
        /\ \A i \in Slots : filled'[i] =>
             \/ i = pktSlot /\ slab'[i] = pkt /\ slotSeq'[i] = SeqOf(pkt)
             \/ filled[i] /\ slab'[i] = slab[i] /\ slotSeq'[i] = slotSeq[i]
    BY <1>4, RingTypes DEF StoreEnd, UnopenedInv, IInv
  <2>2. QED
    BY Zenon, <2>1, WindowTypes DEF WindowInv, Advancing, Busy, pktSlot
<1>5. CASE ReleaseHead \/ ReleaseDone
  BY Zenon, <1>5 DEF ReleaseHead, ReleaseDone, BeginDispatch, Return,
     WindowInv,
     Advancing, Busy
<1>6. CASE DispatchProbe \/ EnqueueWrite \/ EnqueuePublish
  BY Zenon, <1>6 DEF DispatchProbe, EnqueueWrite, EnqueuePublish, WindowInv,
     Advancing, Busy
<1>7. QED
  BY <1>1, <1>2, <1>3, <1>4, <1>5, <1>6

\* Every step keeps the window.
LEMMA WindowStep ==
  ASSUME IInv, UnopenedInv, WindowInv, [Next]_vars
  PROVE  WindowInv'
<1>1. CASE UNCHANGED vars
  BY <1>1, WindowFrame DEF vars, windowVars
<1>2. CASE \E h \in BOOLEAN : Start(h)
  BY Zenon, <1>2 DEF Start, WindowInv
<1>3. CASE StopFlag \/ StopStep \/ WorkerStep \/ Finished
             \/ \E i \in Slots : HookRelease(i)
  BY <1>3, OthersLeaveWindow, WindowFrame
<1>4. CASE EnqueueFull \/ DispatchNotify
  <2>1. /\ rpc \in Busy /\ EndDispatch
        /\ UNCHANGED <<started, hi, slotSeq, slab, ret, pkt>>
    BY <1>4 DEF EnqueueFull, DispatchNotify, Busy
  <2>2. QED
    BY <2>1, WindowDispatched
<1>5. CASE RecvIgnore \/ RecvError \/ RecvStep
  BY <1>4, <1>5, WindowMiss, WindowRest DEF RecvStep
<1>6. CASE \E n \in Packets : HandleDgram(n)
  BY <1>6, WindowArrival
<1>7. QED
  BY <1>1, <1>2, <1>3, <1>5, <1>6 DEF Next

\* Until a datagram arrives, nothing is in the ring, in the queue or handed out.
LEMMA UnopenedStep ==
  ASSUME IInv, UnopenedInv, [Next]_vars
  PROVE  UnopenedInv'
<1>1. CASE UNCHANGED vars
  BY <1>1 DEF vars, UnopenedInv
<1>2. CASE \E h \in BOOLEAN : Start(h)
  BY Zenon, <1>2 DEF Start, UnopenedInv
<1>3. CASE StopFlag \/ StopStep
  BY Zenon, <1>3 DEF UnopenedInv, StopFlag, StopStep, StopClose, StopJoinRecv,
     StopLock, StopNotify, StopJoinWorker, Notified
<1>4. CASE WorkerStep
  BY Zenon, <1>4 DEF UnopenedInv, IInv, WorkInv, WorkerStep, WorkerCheck,
     DequeueEmpty, DequeueRead, DequeuePop, ProcessJob, ProcessUnhooked,
     HookReturn, AfterJob, WaitPredicate, WaitSleep, WaitTimeout
<1>5. CASE Finished \/ \E i \in Slots : HookRelease(i)
  BY <1>5 DEF UnopenedInv, Finished, vars, HookRelease
<1>6. CASE RecvIgnore \/ RecvError \/ RecvCheck
  BY <1>6 DEF UnopenedInv, RecvIgnore, RecvError, RecvCheck
<1>7. CASE RecvStep /\ ~RecvCheck
  <2>1. started /\ UNCHANGED started
    BY Zenon, <1>7 DEF UnopenedInv, RecvStep, ForceMiss, ForceDispatch,
       DropDuplicate,
       DropAlias, DropBusy, StoreBegin, StoreEnd, ReleaseHead, ReleaseDone,
       DispatchProbe, EnqueueFull, EnqueueWrite, EnqueuePublish,
       DispatchNotify, BeginDispatch
  <2>2. QED
    BY <2>1 DEF UnopenedInv
<1>8. CASE \E n \in Packets : HandleDgram(n)
  BY <1>8 DEF UnopenedInv, HandleDgram
<1>9. QED
  BY <1>1, <1>2, <1>3, <1>4, <1>5, <1>6, <1>7, <1>8 DEF Next

\* The number of filled slots when one is filled, and when one is emptied
LEMMA CountFilled ==
  ASSUME NEW f \in [Slots -> BOOLEAN], NEW i \in Slots
  PROVE  LET Count(g) == Cardinality({j \in Slots : g[j]})
         IN  /\ ~f[i] => Count([f EXCEPT ![i] = TRUE]) = Count(f) + 1
             /\ f[i] => Count([f EXCEPT ![i] = FALSE]) = Count(f) - 1
<1> DEFINE S == {j \in Slots : f[j]}
<1>1. IsFiniteSet(S)
  <2>1. IsFiniteSet(Slots)
    BY FS_Interval, RingAssumption DEF Slots
  <2>2. QED
    BY <2>1, FS_Subset
<1>2. ASSUME ~f[i]
      PROVE  Cardinality({j \in Slots : [f EXCEPT ![i] = TRUE][j]})
               = Cardinality(S) + 1
  <2>1. i \notin S /\ {j \in Slots : [f EXCEPT ![i] = TRUE][j]} = S \cup {i}
    BY <1>2
  <2>2. Cardinality(S \cup {i}) = Cardinality(S) + 1
    BY Zenon, <1>1, <2>1, FS_AddElement
  <2>3. QED
    BY Zenon, <2>1, <2>2
<1>3. ASSUME f[i]
      PROVE  Cardinality({j \in Slots : [f EXCEPT ![i] = FALSE][j]})
               = Cardinality(S) - 1
  <2>1. i \in S /\ {j \in Slots : [f EXCEPT ![i] = FALSE][j]} = S \ {i}
    BY <1>3
  <2>2. Cardinality(S \ {i}) = Cardinality(S) - 1
    BY Zenon, <1>1, <2>1, FS_RemoveElement
  <2>3. QED
    BY Zenon, <2>1, <2>2
<1>4. QED
  BY <1>2, <1>3

\* Every step keeps the count.
LEMMA CountStep ==
  ASSUME IInv, CountInv, [Next]_vars
  PROVE  CountInv'
<1>1. filled \in [Slots -> BOOLEAN] /\ headSlot \in Slots /\ pktSlot \in Slots
  BY RingTypes DEF IInv
<1>2. CASE UNCHANGED <<filled, pending>>
  BY <1>2 DEF CountInv
<1>3. CASE \E h \in BOOLEAN : Start(h)
  <2>1. {i \in Slots : filled'[i]} = {} /\ pending' = 0
    BY <1>3 DEF Start
  <2>2. QED
    BY <2>1, FS_EmptySet DEF CountInv
<1>4. CASE StoreEnd
  <2>1. /\ filled' = [filled EXCEPT ![pktSlot] = TRUE] /\ ~filled[pktSlot]
        /\ pending' = pending + 1
    BY Zenon, <1>4 DEF StoreEnd, IInv, RecvInv
  <2>2. QED
    BY Zenon, <1>1, <2>1, CountFilled DEF CountInv
<1>5. CASE EnqueueFull \/ DispatchNotify
  <2>1. /\ filled' = [filled EXCEPT ![headSlot] = FALSE]
        /\ filled[headSlot]
        /\ pending' = pending - 1
    BY Zenon, <1>5 DEF EnqueueFull, DispatchNotify, EndDispatch, IInv,
       RecvInv, Busy,
       HeadReady
  <2>2. QED
    BY <1>1, <2>1, CountFilled DEF CountInv
<1>6. CASE \/ RecvIgnore \/ RecvError
           \/ RecvStep /\ ~StoreEnd /\ ~EnqueueFull /\ ~DispatchNotify
           \/ \E n \in Packets : HandleDgram(n)
  BY Zenon, <1>2, <1>6 DEF RecvIgnore, RecvError, RecvStep, RecvCheck,
     ForceMiss,
     ForceDispatch, DropDuplicate, DropAlias, DropBusy, StoreBegin,
     ReleaseHead, ReleaseDone, DispatchProbe, EnqueueWrite, EnqueuePublish,
     BeginDispatch, HandleDgram
<1>7. CASE StopFlag \/ StopStep \/ WorkerStep \/ Finished
             \/ \E i \in Slots : HookRelease(i)
  BY Zenon, <1>2, <1>7 DEF StopFlag, StopStep, StopClose, StopJoinRecv,
     StopLock,
     StopNotify, StopJoinWorker, WorkerStep, WorkerCheck, DequeueEmpty,
     DequeueRead, DequeuePop, ProcessJob, ProcessUnhooked, HookReturn,
     WaitPredicate, WaitSleep, WaitTimeout, Finished, vars, HookRelease
<1>8. QED
  BY <1>2, <1>3, <1>4, <1>5, <1>6, <1>7 DEF Next, vars

-----------------------------------------------------------------------------
(***************************************************************************)
(* What holds when the window is no wider than the ring.                   *)
(***************************************************************************)
\* With a window no wider than the ring, the slot of a packet in the window is
\* free or holds that packet.
LEMMA NoAlias ==
  ASSUME IInv, UnopenedInv, WindowInv, jitter_depth <= kRingSize,
         rpc = "advance", ~TooFar, filled[pktSlot]
  PROVE  slotSeq[pktSlot] = SeqOf(pkt)
<1>1. started
  BY DEF UnopenedInv
<1>2. expect <= pkt /\ pkt < expect + jitter_depth
  <2>1. expect <= pkt
    BY Zenon, <1>1, WindowTypes DEF WindowInv, Advancing
  <2>2. ~(pkt - expect >= jitter_depth)
    BY <1>1, PacketDistance DEF TooFar
  <2>3. QED
    BY <2>1, <2>2, WindowTypes
<1>3. PICK b \in Int : b = slab[pktSlot]
  BY WindowTypes
<1>4. /\ expect <= b /\ b < expect + jitter_depth
      /\ slotSeq[pktSlot] = SeqOf(b) /\ SlotOf(SeqOf(pkt)) = SlotOf(SeqOf(b))
  BY Zenon, <1>1, <1>3, WindowTypes DEF WindowInv, IInv, RecvInv, pktSlot
<1>5. pkt - b < kRingSize /\ b - pkt < kRingSize /\ pkt \in Int
  BY <1>2, <1>3, <1>4, WindowTypes, RingAssumption
<1>6. pkt = b
  BY Zenon, <1>3, <1>4, <1>5, SlotUnique
<1>7. QED
  BY <1>4, <1>6

\* A session before its first datagram has counted nothing.
AccountInv ==
  /\ ~started => enqueued = 0 /\ net_lost = 0 /\ queue_full = 0
  /\ Accounting

\* Every step keeps the account.
LEMMA AccountStep ==
  ASSUME IInv, UnopenedInv, WindowInv, AccountInv, [Next]_vars,
         jitter_depth <= kRingSize
  PROVE  AccountInv'
<1>1. /\ enqueued \in Nat /\ net_lost \in Nat /\ queue_full \in Nat
      /\ expect \in Int /\ first \in Int
  BY PacketsAreInts DEF IInv, TypeOK
<1>2. CASE UNCHANGED <<started, expect, first, enqueued, net_lost, queue_full>>
  BY <1>2 DEF AccountInv, Accounting
<1>3. CASE \E h \in BOOLEAN : Start(h)
  BY <1>3 DEF Start, AccountInv, Accounting
<1>4. CASE ForceMiss
  BY <1>1, <1>4 DEF ForceMiss, AccountInv, Accounting, UnopenedInv
<1>5. CASE EnqueueFull
  BY <1>1, <1>5 DEF EnqueueFull, EndDispatch, AccountInv, Accounting,
     UnopenedInv
<1>6. CASE DispatchNotify
  BY <1>1, <1>6 DEF DispatchNotify, EndDispatch, AccountInv, Accounting,
     UnopenedInv
<1>7. CASE DropAlias
  BY <1>7, NoAlias DEF DropAlias
<1>8. CASE \E n \in Packets : HandleDgram(n)
  BY <1>1, <1>8, NetworkAssumption DEF HandleDgram, AccountInv, Accounting
<1>9. CASE RecvIgnore \/ RecvError \/ RecvCheck \/ ForceDispatch
             \/ DropDuplicate \/ DropBusy \/ StoreBegin \/ StoreEnd
             \/ ReleaseHead \/ ReleaseDone \/ DispatchProbe \/ EnqueueWrite
             \/ EnqueuePublish
  BY Zenon, <1>2, <1>9 DEF RecvIgnore, RecvError, RecvCheck, ForceDispatch,
     DropDuplicate, DropBusy, StoreBegin, StoreEnd, ReleaseHead, ReleaseDone,
     DispatchProbe, EnqueueWrite, EnqueuePublish, BeginDispatch
<1>10. CASE StopFlag \/ StopStep \/ WorkerStep \/ Finished
             \/ \E i \in Slots : HookRelease(i)
  BY Zenon, <1>2, <1>10 DEF StopFlag, StopStep, StopClose, StopJoinRecv,
     StopLock,
     StopNotify, StopJoinWorker, WorkerStep, WorkerCheck, DequeueEmpty,
     DequeueRead, DequeuePop, ProcessJob, ProcessUnhooked, HookReturn,
     WaitPredicate, WaitSleep, WaitTimeout, Finished, vars, HookRelease
<1>11. QED
  BY <1>2, <1>3, <1>4, <1>5, <1>6, <1>7, <1>8, <1>9, <1>10 DEF Next, RecvStep,
     vars

\* A slot holds no packet that lies beyond the jitter window.
LEMMA FarIsNew ==
  ASSUME IInv, WindowInv, started, pkt >= expect + jitter_depth,
         pkt < expect + Outage + jitter_depth
  PROVE  ~Duplicate
<1> SUFFICES ASSUME Duplicate PROVE FALSE
  OBVIOUS
<1>1. PICK b \in Int : b = slab[pktSlot]
  BY Zenon, WindowTypes
<1>2. expect <= b /\ b < expect + jitter_depth /\ SeqOf(b) = SeqOf(pkt)
  BY <1>1, WindowTypes DEF Duplicate, WindowInv, IInv, RecvInv
<1>3. PICK h \in Nat : h = SeqMod \div 2 /\ SeqMod = 2 * h
  BY Halves
<1>4. pkt - b < SeqMod /\ b - pkt < SeqMod /\ pkt \in Int
  BY <1>1, <1>2, <1>3, WindowTypes, NetworkAssumption
<1>5. pkt = b
  BY <1>1, <1>2, <1>4, SeqUnique
<1>6. QED
  BY <1>1, <1>2, <1>5, WindowTypes

\* A filled slot is counted.
LEMMA CountPositive ==
  ASSUME NEW i \in Slots, filled[i]
  PROVE  Cardinality({j \in Slots : filled[j]}) > 0
<1> DEFINE S == {j \in Slots : filled[j]}
<1>1. IsFiniteSet(S)
  <2>1. IsFiniteSet(Slots)
    BY FS_Interval, RingAssumption DEF Slots
  <2>2. QED
    BY <2>1, FS_Subset
<1>2. Cardinality(S) \in Nat /\ Cardinality(S) # 0
  <2>1. S # {}
    OBVIOUS
  <2>2. QED
    BY Zenon, <1>1, <2>1, FS_CardinalityType, FS_EmptySet
<1>3. QED
  BY <1>2

\* Every step keeps the release prompt.
LEMMA PromptStep ==
  ASSUME IInv, UnopenedInv, WindowInv, CountInv, PromptInv, [Next]_vars,
         jitter_depth <= kRingSize
  PROVE  PromptInv'
<1>1. CASE /\ UNCHANGED <<started, next_seq, filled, slotSeq, slot_busy, pkt>>
           /\ rpc' = rpc \/ rpc' \notin {"check", "recv", "advance"}
  BY <1>1 DEF PromptInv, HeadReady, headSlot, Duplicate, pktSlot
<1>2. CASE \E h \in BOOLEAN : Start(h)
  BY Zenon, <1>2 DEF Start, PromptInv
<1>3. CASE ForceMiss
  <2>1. started /\ ~Duplicate
    <3>1. started
      BY <1>3 DEF UnopenedInv, ForceMiss
    <3>2. pkt - expect >= jitter_depth /\ pkt < expect + Outage + jitter_depth
      BY Zenon, <1>3, <3>1, PacketDistance DEF ForceMiss, TooFar, WindowInv,
         Advancing
    <3>3. QED
      BY <3>1, <3>2, FarIsNew, WindowTypes
  <2>2. QED
    BY Zenon, <1>3, <2>1 DEF ForceMiss, PromptInv, Duplicate, pktSlot
<1>4. CASE EnqueueFull \/ DispatchNotify
  <2>1. /\ rpc \in Busy /\ rpc' = ret /\ ret \in {"advance", "release"}
        /\ filled' = [filled EXCEPT ![headSlot] = FALSE]
        /\ UNCHANGED <<pkt, slotSeq>>
    BY Zenon, <1>4, RingTypes
       DEF EnqueueFull, DispatchNotify, EndDispatch, IInv, Busy
  <2>2. CASE ret = "release"
    BY <2>1, <2>2 DEF PromptInv
  <2>3. CASE ret = "advance"
    <3>1. started
      BY <2>1 DEF UnopenedInv, Busy
    <3>2. pkt >= expect + jitter_depth /\ pkt < expect + Outage + jitter_depth
      BY Zenon, <2>1, <2>3, <3>1, WindowTypes DEF WindowInv, Advancing
    <3>3. ~Duplicate
      BY <3>1, <3>2, FarIsNew
    <3>4. ~Duplicate'
      BY Zenon, <2>1, <3>3, RingTypes DEF Duplicate, pktSlot, IInv
    <3>5. QED
      BY <2>1, <2>3, <3>4 DEF PromptInv
  <2>4. QED
    BY Zenon, <2>1, <2>2, <2>3
<1>5. CASE DropDuplicate
  BY Zenon, <1>5
     DEF DropDuplicate, Return, PromptInv, HeadReady, headSlot, Duplicate
<1>6. CASE DropAlias
  BY Zenon, <1>6, NoAlias DEF DropAlias
<1>7. CASE DropBusy
  <2>1. slot_busy' # 0
    BY SMTT(30), <1>7 DEF DropBusy, IInv, TypeOK
  <2>2. QED
    BY Zenon, <2>1 DEF PromptInv
<1>8. CASE ReleaseDone
  <2>1. pending > 0 \/ ~filled[headSlot]
    <3>1. headSlot \in Slots
      BY WindowTypes
    <3>2. QED
      BY <3>1, CountPositive DEF CountInv
  <2>2. QED
    BY Zenon, <1>8, <2>1 DEF ReleaseDone, PromptInv, HeadReady, headSlot
<1>9. CASE \E n \in Packets : HandleDgram(n)
  <2>1. CASE started
    <3>1. /\ rpc = "recv"
          /\ UNCHANGED <<started, next_seq, filled, slotSeq, slot_busy>>
      BY <1>9, <2>1 DEF HandleDgram
    <3>2. QED
      BY <2>1, <3>1 DEF PromptInv, HeadReady, headSlot
  <2>2. CASE ~started
    <3>1. \A i \in Slots : ~filled'[i]
      BY <1>9, <2>2 DEF HandleDgram, UnopenedInv
    <3>2. headSlot' \in Slots
      BY Zenon, <1>9, <2>2, IndexTypes, PacketsAreInts DEF HandleDgram,
         headSlot
    <3>3. QED
      BY <3>1, <3>2 DEF PromptInv, HeadReady
  <2>3. QED
    BY <2>1, <2>2
<1>10. CASE RecvIgnore \/ RecvError \/ RecvCheck
  BY Zenon, <1>10 DEF RecvIgnore, RecvError, RecvCheck, PromptInv, HeadReady,
     headSlot
<1>11. CASE \/ ForceDispatch \/ StoreBegin \/ StoreEnd \/ ReleaseHead
            \/ DispatchProbe \/ EnqueueWrite \/ EnqueuePublish
  BY Zenon, <1>11 DEF ForceDispatch, StoreBegin, StoreEnd, ReleaseHead,
     BeginDispatch,
     DispatchProbe, EnqueueWrite, EnqueuePublish, PromptInv
<1>12. CASE StopFlag \/ StopStep \/ WorkerStep \/ Finished
             \/ \E i \in Slots : HookRelease(i)
  BY Zenon, <1>1, <1>12 DEF StopFlag, StopStep, StopClose, StopJoinRecv,
     StopLock,
     StopNotify, StopJoinWorker, WorkerStep, WorkerCheck, DequeueEmpty,
     DequeueRead, DequeuePop, ProcessJob, ProcessUnhooked, HookReturn,
     WaitPredicate, WaitSleep, WaitTimeout, Finished, vars, HookRelease
<1>13. CASE UNCHANGED vars
  BY Zenon, <1>1, <1>13 DEF vars
<1>14. QED
  BY <1>2, <1>3, <1>4, <1>5, <1>6, <1>7, <1>8, <1>9, <1>10, <1>11, <1>12, <1>13
     DEF Next, RecvStep
===============================================================================

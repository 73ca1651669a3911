------------------------------- MODULE Pipeline -------------------------------
(***************************************************************************)
(* The program of main.cpp: a Receiver whose hook, rtp_receive_hook(),     *)
(* calls pull_data() of one frame_handler on the worker thread, and a      *)
(* frame_handler that gives slabs back through release_slab().  Nothing is *)
(* copied between the two: the chain of a frame is the receiver's slabs.   *)
(*                                                                         *)
(* The steps of pull_data() interleave with those of the recv thread.      *)
(***************************************************************************)
EXTENDS Receiver

CONSTANTS
  Payload,      \* what the packets carry, as frame_handler sees it
  SlabCap, Geoms, relatch_k, SodMod, MaxFrames    \* of FrameHandler

VARIABLES
  held_slabs, chain_total, total_frames, trunc_frames, start_SOD,
  is_parsing_failure, is_passed_header,
  geom_sig, parse_fail_streak, frame_parse_failed, relatches,
  resync_armed, resync_soft, abort_armed,
  ready, geom, dirty, pc, pk, relatch, cbs, phase, off, cached,
  damage, reported, deadRun, frameSod,
  cur,          \* slab of FrameHandler: the one pull_data() was called with
  kept,         \* lent of FrameHandler: the slabs it has not given up
  given         \* history: the packets the hook was given

FH == INSTANCE FrameHandler WITH
  Slabs <- Slots, NoSlab <- NoPkt, Pkts <- {Payload[n] : n \in Packets},
  slab <- cur, lent <- kept

chain   == <<held_slabs, chain_total, damage, frameSod, dirty>>
parser  == <<start_SOD, geom_sig, relatches, ready, geom, cached>>
walk    == <<is_parsing_failure, is_passed_header, parse_fail_streak,
             frame_parse_failed, deadRun, resync_armed, resync_soft>>
told    == <<abort_armed, cbs, phase, off, reported, total_frames, trunc_frames>>
call    == <<pc, pk, relatch, cur>>
handler == <<chain, parser, walk, told, call, kept>>

\* Slabs pull_data() has given up and release_slab() was not yet called for
Owed == lent \ kept

-----------------------------------------------------------------------------
\* main() sets the release callback and no other.
PipeInit == Init /\ FH!Init /\ cbs = {} /\ given = {}

\* rtp_receive_hook() passes the packet on, without saying what was lost before
\* it.  The size it states is payload_len - 8, which may be 0; payloads have the
\* eight bytes of their header.
CallHook ==
  /\ ProcessJob
  /\ FH!PullPlain(Payload[slab[wjob.slab_idx]], wjob.slab_idx)
  /\ given' = given \cup {slab[wjob.slab_idx]}

\* A step of pull_data()
HandlerStep ==
  /\ wpc = "hook" /\ Owed = {}
  /\ \/ FH!CapFire \/ FH!CapPass \/ FH!MainStep \/ FH!BodyStep \/ FH!NotEOC
     \/ \E flushed \in BOOLEAN : FH!EOC(flushed)
  /\ UNCHANGED <<vars, given>>

\* The release callback that main() installs, for each slab given up; the order
\* is not told apart.
ReleaseSlab(i) ==
  /\ i \in Owed
  /\ HookRelease(i)
  /\ UNCHANGED <<handler, given>>

ReturnHook ==
  /\ pc = "idle" /\ Owed = {}
  /\ HookReturn
  /\ UNCHANGED <<handler, given>>

\* The worker between two calls of the hook
WorkerAlone ==
  /\ \/ WorkerCheck \/ DequeueEmpty \/ DequeueRead \/ DequeuePop
     \/ WaitPredicate \/ WaitSleep \/ WaitTimeout
  /\ UNCHANGED <<handler, given>>

Worker ==
  \/ WorkerAlone \/ CallHook \/ HandlerStep \/ ReturnHook
  \/ \E i \in Slots : ReleaseSlab(i)

\* main() starts the receiver once, with the hook, and stops it at last.
PipeNext ==
  \/ Worker
  \/ /\ \/ Start(TRUE) \/ StopFlag \/ StopStep
        \/ RecvIgnore \/ RecvError \/ RecvStep \/ Finished
        \/ \E n \in Packets : HandleDgram(n)
     /\ UNCHANGED <<handler, given>>

pipe == <<vars, handler, given>>

\* The threads are scheduled; nothing makes packets arrive.
PipeSpec == PipeInit /\ [][PipeNext]_pipe
PipeFair == PipeSpec /\ WF_pipe(Worker)

-----------------------------------------------------------------------------
(***************************************************************************)
(* Properties.                                                             *)
(***************************************************************************)
\* Between two calls of the hook, receiver and handler agree on who owns what:
\* the slabs lent are those of the open frame.  No path through pull_data()
\* leaks a slab or gives one back twice.
OwnersAgree == wpc # "hook" => lent = held_slabs

\* The chain is one frame as it was sent: in the slabs that are held lie a main
\* packet and all packets the hook was given after it, up to the last one, with
\* no other main packet and no end of a frame in between.
ChainIsFrame ==
  wpc # "hook" /\ held_slabs # {} =>
    LET pkts  == {slab[i] : i \in held_slabs}
        from  == CHOOSE n \in pkts : \A m \in pkts : n <= m
        to    == CHOOSE n \in pkts : \A m \in pkts : n >= m
    IN /\ NoPkt \notin pkts /\ Payload[from].MH >= 1
       /\ \A n \in given : from < n /\ n <= to => n \in pkts /\ Payload[n].MH = 0
       /\ \A n \in pkts : n < to => ~Payload[n].marker

\* The ring cannot be starved: when everything queued is processed and the worker
\* waits, some slab is free, so that a packet that ends the open frame, or fills
\* it to the cap, can still get in.
NeverStarved ==
  wpc = "waiting" /\ job_head = job_tail /\ rpc = "recv"
    => \E i \in Slots : in_worker[i] = 0

\* Once the last packet of a frame is queued, all slabs that are held go back.
FrameReleased ==
  (\E k \in Slots : Queued(k) /\ Payload[slab[job_queue[k].slab_idx]].marker)
    ~> (~running \/ held_slabs = {})
=============================================================================

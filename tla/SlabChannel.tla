------------------------------ MODULE SlabChannel ------------------------------
(***************************************************************************)
(* What rtp::Receiver promises to its hook, whatever the network does: a   *)
(* lossy channel that hands over whole packets, each at most once and in   *)
(* the order they were sent, each in a slab that is the hook's alone and   *)
(* whose bytes do not change until the hook gives it back.                 *)
(***************************************************************************)
EXTENDS Integers

CONSTANTS Slabs,    \* slab indices
          Packets   \* packet numbers, in the order of sending

VARIABLES view,     \* the packet in each slab the hook has at the moment
          last      \* the last packet handed over in this session, or -1

chan == <<view, last>>

Init == view = [i \in {} |-> 0] /\ last = -1

Deliver(i, n) ==
  /\ i \notin DOMAIN view /\ n > last
  /\ view' = [j \in DOMAIN view \cup {i} |-> IF j = i THEN n ELSE view[j]]
  /\ last' = n

Release(i) ==
  /\ i \in DOMAIN view
  /\ view' = [j \in DOMAIN view \ {i} |-> view[j]]
  /\ UNCHANGED last

NewSession == last' = -1 /\ UNCHANGED view

Next ==
  \/ \E i \in Slabs, n \in Packets : Deliver(i, n)
  \/ \E i \in Slabs : Release(i)
  \/ NewSession

Spec == Init /\ [][Next]_chan
=============================================================================

----------------------------- MODULE FrameHandler -----------------------------
(***************************************************************************)
(* j2k::frame_handler (frame_handler.hpp): one call of pull_data() per RTP *)
(* packet assembles frames from slabs it keeps, walks their precincts,     *)
(* latches the stream's structure from main headers, and reports chunks,   *)
(* aborts, complete frames and re-latches to its consumer.                 *)
(*                                                                         *)
(* pull_data() runs on the worker thread alone.  Its sections are actions  *)
(* in the order of the code, sequenced by pc; a call begins and ends with  *)
(* pc = "idle".  What the parser says of the bytes (the outcome of a walk, *)
(* of a flush, of a main header) and what the consumer's callbacks answer  *)
(* is chosen nondeterministically.                                         *)
(***************************************************************************)
EXTENDS Integers, FiniteSets

CONSTANTS
  Slabs,        \* slab indices of the receiver
  NoSlab,       \* the value of slab between calls
  SlabCap,      \* 3072: held slabs at which a frame is given up
  Pkts,         \* RTP payloads: [MH, marker, ORDB, size, hdr]
  Geoms,        \* stream geometries, the non-zero signatures
  relatch_k,    \* parse-failed frames before the escape hatch opens; 0 = off
  SodMod,       \* 2^32: the width of start_SOD
  MaxFrames     \* bound: no packet once a frame counter reaches it

\* A complete main header: its signature (0 if geometry_signature() rejects
\* it), its true geometry, whether parse_main_header() and create() accept it,
\* and the offset at which it ends.
Headers == [sig : Geoms \cup {0}, geom : Geoms, parses : BOOLEAN,
            creates : BOOLEAN, sod : Nat \ {0}]

ASSUME CapAssumption == SlabCap \in Nat \ {0}
ASSUME SlabAssumption == IsFiniteSet(Slabs) /\ NoSlab \notin Slabs
ASSUME GeomAssumption == Geoms \subseteq Nat \ {0}
ASSUME PktAssumption ==
  \A p \in Pkts : /\ p.MH \in 0 .. 3 /\ p.marker \in BOOLEAN
                  /\ p.ORDB \in BOOLEAN /\ p.size \in Nat
                  /\ p.hdr \in Headers /\ p.hdr.sod < SodMod
ASSUME CountAssumption ==
  /\ relatch_k \in Nat /\ MaxFrames \in Nat /\ SodMod \in Nat \ {0}

NoCall == <<>>      \* pk between calls

VARIABLES
  \* members of frame_handler
  held_slabs, chain_total, total_frames, trunc_frames, start_SOD,
  is_parsing_failure, is_passed_header,
  geom_sig, parse_fail_streak, frame_parse_failed, relatches,
  resync_armed, resync_soft, abort_armed,
  \* tile_hndr: is a structure latched, for which geometry, and has the walk
  \* of a frame left state in it since the last restart()?
  ready, geom, dirty,
  \* the call of pull_data() in progress
  pc, pk, slab, relatch,
  \* the consumer: which resync callbacks it set, and what it has been told
  cbs, phase, off, cached,
  \* history, read by no guard
  lent,        \* slabs handed to pull_data() and not released since
  damage,      \* what has gone wrong with the bytes of the open frame
  reported,    \* the last frame_ready: its intact flag and the true damage
  deadRun,     \* frames dead by parse failure since a clean frame or a latch
  frameSod     \* where the open frame's complete main header ends, or 0

countVars == <<total_frames, trunc_frames>>
streakVars == <<parse_fail_streak, frame_parse_failed, deadRun>>
resyncVars == <<resync_armed, resync_soft>>
flagVars  == <<is_parsing_failure, is_passed_header>>
chainVars == <<held_slabs, chain_total, lent>>
latchVars == <<ready, geom, geom_sig, start_SOD, relatches, cached>>
callVars  == <<pk, slab, relatch>>
tellVars  == <<phase, off, abort_armed>>

vars == <<countVars, streakVars, resyncVars, flagVars, chainVars, latchVars,
          callVars, tellVars, pc, dirty, cbs, damage, reported,
          frameSod>>

Init ==
  /\ held_slabs = {} /\ chain_total = 0 /\ lent = {}
  /\ total_frames = 0 /\ trunc_frames = 0 /\ start_SOD = 0
  /\ is_parsing_failure = FALSE /\ is_passed_header = FALSE
  /\ geom_sig = 0 /\ parse_fail_streak = 0 /\ frame_parse_failed = FALSE
  /\ relatches = 0 /\ resync_armed = FALSE /\ resync_soft = FALSE
  /\ abort_armed = FALSE
  /\ ready = FALSE /\ geom = 0 /\ dirty = FALSE
  /\ pc = "idle" /\ pk = NoCall /\ slab = NoSlab /\ relatch = "none"
  /\ cbs \in SUBSET {"gap", "point"}
  /\ phase = "none" /\ off = 0 /\ cached = 0
  /\ damage = {} /\ reported = [intact |-> FALSE, damage |-> {}]
  /\ deadRun = 0 /\ frameSod = 0

-----------------------------------------------------------------------------
(***************************************************************************)
(* The private helpers of frame_handler.                                   *)
(***************************************************************************)
\* deliver_chunk(): a consumer that is not told of the next contiguous byte
\* range, or of a first one, has lost track of the frame.
DeliverChunk ==
  /\ abort_armed' = TRUE /\ phase' = "open"
  /\ off' = IF chain_total = 0 \/ (phase = "open" /\ chain_total = off)
              THEN chain_total + pk.size ELSE -1

\* Mutant of FireAbort: the abort can fire again.
AbortStaysArmed ==
  /\ resync_armed' = FALSE /\ resync_soft' = FALSE
  /\ phase' = IF abort_armed THEN (IF phase = "open" THEN "dead" ELSE "twice")
                             ELSE phase
  /\ UNCHANGED <<off, abort_armed>>

\* Mutant of FireAbort: a parked walk stays parked.
AbortKeepsParked ==
  /\ abort_armed' = FALSE
  /\ phase' = IF abort_armed THEN (IF phase = "open" THEN "dead" ELSE "twice")
                             ELSE phase
  /\ UNCHANGED <<off, resync_armed, resync_soft>>

\* Mutant of FireAbort: the consumer is not told.
AbortSilent ==
  /\ resync_armed' = FALSE /\ resync_soft' = FALSE /\ abort_armed' = FALSE
  /\ UNCHANGED <<off, phase>>

\* fire_abort(), except that kAbortParse also sets frame_parse_failed
FireAbort ==
  /\ resync_armed' = FALSE /\ resync_soft' = FALSE /\ abort_armed' = FALSE
  /\ phase' = IF abort_armed THEN (IF phase = "open" THEN "dead" ELSE "twice")
                             ELSE phase
  /\ UNCHANGED off

\* Mutant of EndFrameStreak: every bad frame counts, lost packets included.
StreakCountsAll(clean, failed) ==
  /\ parse_fail_streak' = IF clean THEN 0 ELSE parse_fail_streak + 1
  /\ frame_parse_failed' = FALSE

\* end_frame_streak(clean), where failed is the value of frame_parse_failed
EndFrameStreak(clean, failed) ==
  /\ parse_fail_streak' = IF clean THEN 0
                          ELSE IF failed THEN parse_fail_streak + 1
                          ELSE parse_fail_streak
  /\ frame_parse_failed' = FALSE

\* The history of a frame that ends with damage d, told from what happened to
\* its bytes: a clean one ends the run of dead frames, one whose bytes did not
\* parse prolongs it, any other one leaves it.
EndHistory(d) ==
  /\ damage' = {}
  /\ deadRun' = IF d = {} THEN 0
                ELSE IF d \cap {"parse", "flush"} # {} THEN deadRun + 1
                ELSE deadRun

\* pull_data() returns.
Return == pc' = "idle" /\ pk' = NoCall /\ slab' = NoSlab /\ relatch' = "none"

\* release_held_slabs(), together with the current slab or without it
ReleaseHeld(also) ==
  /\ held_slabs' = {} /\ chain_total' = 0
  /\ lent' = lent \ (held_slabs \cup also)

-----------------------------------------------------------------------------
(***************************************************************************)
(* pull_data(): the gap check and the held-slab cap.                       *)
(***************************************************************************)
InFlight == is_passed_header \/ held_slabs # {}

\* A call with payload p in slab i, which the receiver does not hand out twice
Call(p, i) ==
  /\ pc = "idle" /\ i \in Slabs \ lent
  /\ total_frames < MaxFrames /\ trunc_frames < MaxFrames
  /\ pk' = p /\ slab' = i /\ lent' = lent \cup {i}
  /\ pc' = "cap"
  /\ UNCHANGED <<countVars, parse_fail_streak, deadRun, held_slabs,
                 chain_total, is_passed_header, latchVars, relatch, dirty,
                 cbs, reported, frameSod>>

\* No gap before the packet, or none that matters
PullPlain(p, i) ==
  /\ Call(p, i)
  /\ UNCHANGED <<frame_parse_failed, resyncVars, is_parsing_failure,
                 tellVars, damage>>

\* The consumer accepts the gap: the walk is parked, delivery goes on.
PullGapAccepted(p, i) ==
  /\ InFlight /\ ~is_parsing_failure
  /\ "gap" \in cbs /\ is_passed_header
  /\ Call(p, i)
  /\ resync_armed' = TRUE /\ resync_soft' = TRUE
  /\ damage' = damage \cup {"gap"}
  /\ UNCHANGED <<frame_parse_failed, is_parsing_failure, tellVars>>

\* The gap kills the frame in flight.
PullGapAborted(p, i) ==
  /\ InFlight /\ ~is_parsing_failure
  /\ Call(p, i)
  /\ FireAbort
  /\ is_parsing_failure' = TRUE
  /\ damage' = damage \cup {"gap"}
  /\ UNCHANGED frame_parse_failed

CapFire ==
  /\ pc = "cap" /\ Cardinality(held_slabs) >= SlabCap
  /\ FireAbort
  /\ ReleaseHeld({}) /\ dirty' = FALSE
  /\ trunc_frames' = trunc_frames + 1
  /\ EndFrameStreak(FALSE, frame_parse_failed)
  /\ EndHistory(damage \cup {"cap"})
  /\ is_parsing_failure' = FALSE /\ is_passed_header' = FALSE
  /\ pc' = "route"
  /\ UNCHANGED <<total_frames, latchVars, callVars, cbs, reported,
                 frameSod>>

\* Mutant of CapPass: one slab more than the cap.
CapPassOver ==
  /\ pc = "cap" /\ Cardinality(held_slabs) <= SlabCap
  /\ pc' = "route"
  /\ UNCHANGED <<countVars, streakVars, resyncVars, flagVars, chainVars,
                 latchVars, callVars, tellVars, dirty, cbs, damage,
                 reported, frameSod>>

CapPass ==
  /\ pc = "cap" /\ Cardinality(held_slabs) < SlabCap
  /\ pc' = "route"
  /\ UNCHANGED <<countVars, streakVars, resyncVars, flagVars, chainVars,
                 latchVars, callVars, tellVars, dirty, cbs, damage,
                 reported, frameSod>>

-----------------------------------------------------------------------------
(***************************************************************************)
(* pull_data(): body packets that are skipped.                             *)
(***************************************************************************)
Skipping ==
  pc = "route" /\ pk.MH = 0 /\ (~is_passed_header \/ is_parsing_failure)

\* Mutant of SkipBody: the skipped packet's slab is not given back.
SkipKeepsSlab ==
  /\ Skipping /\ ~pk.marker
  /\ Return
  /\ UNCHANGED <<countVars, streakVars, resyncVars, flagVars, chainVars,
                 latchVars, tellVars, dirty, cbs, damage, reported, frameSod>>

SkipBody ==
  /\ Skipping /\ ~pk.marker
  /\ lent' = lent \ {slab}
  /\ Return
  /\ UNCHANGED <<countVars, streakVars, resyncVars, flagVars, held_slabs,
                 chain_total, latchVars, tellVars, dirty,
                 cbs, damage, reported, frameSod>>

\* EOC of a frame that had been started
SkipEnd ==
  /\ Skipping /\ pk.marker /\ (is_parsing_failure \/ is_passed_header)
  /\ FireAbort
  /\ trunc_frames' = trunc_frames + 1 /\ total_frames' = total_frames + 1
  /\ EndFrameStreak(FALSE, frame_parse_failed)
  /\ EndHistory(damage \cup {"skipped"})
  /\ is_parsing_failure' = FALSE /\ is_passed_header' = FALSE
  /\ ReleaseHeld({slab}) /\ dirty' = FALSE
  /\ Return
  /\ UNCHANGED <<latchVars, cbs, reported, frameSod>>

\* EOC of a frame that had not
SkipStray ==
  /\ Skipping /\ pk.marker /\ ~is_parsing_failure /\ ~is_passed_header
  /\ EndHistory(damage \cup {"skipped"})
  /\ ReleaseHeld({slab}) /\ dirty' = FALSE
  /\ Return
  /\ UNCHANGED <<countVars, parse_fail_streak, frame_parse_failed, resyncVars,
                 flagVars, latchVars, tellVars, cbs,
                 reported, frameSod>>

-----------------------------------------------------------------------------
(***************************************************************************)
(* pull_data(): main packets.                                              *)
(***************************************************************************)
\* The previous frame is still open: it is abandoned first.
MissedEOC ==
  /\ pc = "route" /\ pk.MH >= 1 /\ held_slabs # {}
  /\ FireAbort
  /\ ReleaseHeld({}) /\ dirty' = FALSE
  /\ IF is_passed_header \/ is_parsing_failure
       THEN /\ trunc_frames' = trunc_frames + 1
            /\ total_frames' = total_frames + 1
            /\ EndFrameStreak(FALSE, frame_parse_failed)
       ELSE UNCHANGED <<countVars, parse_fail_streak, frame_parse_failed>>
  /\ EndHistory(damage \cup {"missed"})
  /\ is_passed_header' = FALSE
  /\ UNCHANGED <<is_parsing_failure, latchVars, callVars, pc, cbs,
                 reported, frameSod>>

\* Mutant of MainAppend: a frame still open is not abandoned.
MainOverOpen ==
  /\ pc = "route" /\ pk.MH >= 1
  /\ is_parsing_failure' = FALSE /\ frame_parse_failed' = FALSE
  /\ DeliverChunk
  /\ held_slabs' = held_slabs \cup {slab} /\ chain_total' = chain_total + pk.size
  /\ frameSod' = IF pk.MH >= 2 THEN pk.hdr.sod ELSE 0
  /\ pc' = "verify"
  /\ UNCHANGED <<countVars, parse_fail_streak, deadRun, resyncVars,
                 is_passed_header, lent, latchVars, callVars, dirty,
                 cbs, damage, reported>>

\* The main packet opens a frame with an empty chain.
MainAppend ==
  /\ pc = "route" /\ pk.MH >= 1 /\ held_slabs = {}
  /\ is_parsing_failure' = FALSE /\ frame_parse_failed' = FALSE
  /\ DeliverChunk
  /\ held_slabs' = {slab} /\ chain_total' = chain_total + pk.size
  /\ frameSod' = IF pk.MH >= 2 THEN pk.hdr.sod ELSE 0
  /\ pc' = "verify"
  /\ UNCHANGED <<countVars, parse_fail_streak, deadRun, resyncVars,
                 is_passed_header, lent, latchVars, callVars, dirty,
                 cbs, damage, reported>>

\* fire_abort(kAbortParse) and return, on a main header that is refused
RefuseHeader ==
  /\ FireAbort /\ frame_parse_failed' = TRUE
  /\ is_parsing_failure' = TRUE
  /\ damage' = damage \cup {"parse"}
  /\ Return
  /\ UNCHANGED <<countVars, parse_fail_streak, deadRun, is_passed_header,
                 chainVars, dirty, cbs, reported, frameSod>>

\* A malformed main header on a latched stream
VerifyMalformed ==
  /\ pc = "verify" /\ pk.MH >= 2 /\ ready /\ pk.hdr.sig = 0
  /\ RefuseHeader
  /\ UNCHANGED latchVars

\* What the main packets leave alone from here on
notLatch == <<countVars, frame_parse_failed, resyncVars, is_parsing_failure,
              chainVars, tellVars, dirty, cbs, reported, frameSod>>

\* A well-formed one: the structure is dropped if the signature changed or the
\* escape hatch is open.
VerifyLatched ==
  /\ pc = "verify" /\ pk.MH >= 2 /\ ready /\ pk.hdr.sig # 0
  /\ geom_sig' = IF geom_sig = 0 THEN pk.hdr.sig ELSE geom_sig
  /\ relatch' = IF relatch_k # 0 /\ parse_fail_streak >= relatch_k
                  THEN "parsefail"
                ELSE IF pk.hdr.sig # geom_sig' THEN "geometry"
                ELSE "none"
  /\ ready' = (relatch' = "none")
  /\ pc' = "latch"
  /\ UNCHANGED <<notLatch, pk, slab, parse_fail_streak, deadRun,
                 is_passed_header, geom, start_SOD, relatches, cached, damage>>

\* Nothing is latched, or the header is split and cannot be verified.
VerifyNothing ==
  /\ pc = "verify" /\ (pk.MH = 1 \/ ~ready)
  /\ pc' = "latch"
  /\ UNCHANGED <<notLatch, callVars, parse_fail_streak, deadRun,
                 is_passed_header, latchVars, damage>>

\* parse_main_header() or create() fails: nothing is latched.
LatchFail ==
  /\ pc = "latch" /\ ~ready /\ pk.MH >= 2
  /\ ~(pk.hdr.parses /\ pk.hdr.creates)
  /\ start_SOD' = IF pk.hdr.parses THEN pk.hdr.sod ELSE 0
  /\ RefuseHeader
  /\ UNCHANGED <<ready, geom, geom_sig, relatches, cached>>

\* Mutant of LatchNew: a consumer with caches is not told of the re-latch.
LatchUntold ==
  /\ pc = "latch" /\ ~ready /\ pk.MH >= 2
  /\ pk.hdr.parses /\ pk.hdr.creates
  /\ start_SOD' = pk.hdr.sod
  /\ ready' = TRUE /\ geom' = pk.hdr.geom /\ geom_sig' = pk.hdr.sig
  /\ is_passed_header' = TRUE
  /\ parse_fail_streak' = 0 /\ deadRun' = 0
  /\ relatches' = IF relatch # "none" THEN relatches + 1 ELSE relatches
  /\ cached' = IF cached = 0 THEN geom' ELSE cached
  /\ pc' = "eoc"
  /\ UNCHANGED <<notLatch, callVars, damage>>

\* The structure is built.  A consumer that is told to drop its caches, or has
\* none, builds them for the new geometry.
LatchNew ==
  /\ pc = "latch" /\ ~ready /\ pk.MH >= 2
  /\ pk.hdr.parses /\ pk.hdr.creates
  /\ start_SOD' = pk.hdr.sod
  /\ ready' = TRUE /\ geom' = pk.hdr.geom /\ geom_sig' = pk.hdr.sig
  /\ is_passed_header' = TRUE
  /\ parse_fail_streak' = 0 /\ deadRun' = 0
  /\ relatches' = IF relatch # "none" THEN relatches + 1 ELSE relatches
  /\ cached' = IF relatch # "none" \/ cached = 0 THEN geom' ELSE cached
  /\ pc' = "eoc"
  /\ UNCHANGED <<notLatch, callVars, damage>>

\* Mutant of LatchSplit: a part of a main header passes for a whole one.
SplitPasses ==
  /\ pc = "latch" /\ ~ready /\ pk.MH = 1
  /\ start_SOD' = (start_SOD + pk.size) % SodMod
  /\ damage' = damage \cup {"split"}
  /\ is_passed_header' = TRUE
  /\ \/ start_SOD' # 0 /\ pc' = "eoc" /\ UNCHANGED callVars
     \/ start_SOD' = 0 /\ Return
  /\ UNCHANGED <<notLatch, parse_fail_streak, deadRun, ready, geom, geom_sig,
                 relatches, cached>>

\* A part of a main header, with nothing latched: its length is added up.
LatchSplit ==
  /\ pc = "latch" /\ ~ready /\ pk.MH = 1
  /\ start_SOD' = (start_SOD + pk.size) % SodMod
  /\ damage' = damage \cup {"split"}
  /\ \/ start_SOD' # 0 /\ pc' = "eoc" /\ UNCHANGED callVars
     \/ start_SOD' = 0 /\ Return
  /\ UNCHANGED <<notLatch, parse_fail_streak, deadRun, is_passed_header,
                 ready, geom, geom_sig, relatches, cached>>

\* Mutant of LatchReuse: the offset of the first frame's body is kept.
ReuseKeepsSod ==
  /\ pc = "latch" /\ ready
  /\ is_passed_header' = TRUE
  /\ pc' = "eoc"
  /\ UNCHANGED <<notLatch, callVars, parse_fail_streak, deadRun, latchVars,
                 damage>>

\* The latched structure is reused.
LatchReuse ==
  /\ pc = "latch" /\ ready
  /\ start_SOD' = IF pk.MH >= 2 THEN pk.hdr.sod ELSE start_SOD
  /\ is_passed_header' = TRUE
  /\ pc' = "eoc"
  /\ UNCHANGED <<notLatch, callVars, parse_fail_streak, deadRun, ready, geom,
                 geom_sig, relatches, cached, damage>>

-----------------------------------------------------------------------------
(***************************************************************************)
(* pull_data(): body packets of the frame in flight, and EOC.              *)
(***************************************************************************)
BodyAppend ==
  /\ pc = "route" /\ pk.MH = 0 /\ is_passed_header /\ ~is_parsing_failure
  /\ DeliverChunk
  /\ held_slabs' = held_slabs \cup {slab}
  /\ chain_total' = chain_total + pk.size
  /\ dirty' = (dirty \/ pk.ORDB)             \* append_signal()
  /\ pc' = IF pk.ORDB THEN "walk" ELSE "eoc"
  /\ UNCHANGED <<countVars, streakVars, resyncVars, flagVars, lent, latchVars,
                 callVars, cbs, damage, reported, frameSod>>

\* An armed consumer is offered the resync point and may take it.
OfferPoint(take) == resync_armed /\ ~("point" \in cbs /\ take)

WalkParked(take) ==
  /\ pc = "walk" /\ resync_soft
  /\ resync_armed' = OfferPoint(take)
  /\ pc' = "eoc"
  /\ UNCHANGED <<countVars, streakVars, resync_soft, flagVars, chainVars,
                 latchVars, callVars, tellVars, dirty, cbs, damage,
                 reported, frameSod>>

WalkParsed(take) ==
  /\ pc = "walk" /\ ~resync_soft
  /\ resync_armed' = OfferPoint(take)
  /\ pc' = "eoc"
  /\ UNCHANGED <<countVars, streakVars, resync_soft, flagVars, chainVars,
                 latchVars, callVars, tellVars, dirty, cbs, damage,
                 reported, frameSod>>

WalkFailed ==
  /\ pc = "walk" /\ ~resync_soft
  /\ is_parsing_failure' = TRUE /\ is_passed_header' = FALSE
  /\ FireAbort /\ frame_parse_failed' = TRUE
  /\ damage' = damage \cup {"parse"}
  /\ pc' = "eoc"
  /\ UNCHANGED <<countVars, parse_fail_streak, deadRun, chainVars, latchVars,
                 callVars, dirty, cbs, reported, frameSod>>

NotEOC ==
  /\ pc = "eoc" /\ ~pk.marker
  /\ Return
  /\ UNCHANGED <<countVars, streakVars, resyncVars, flagVars, chainVars,
                 latchVars, tellVars, dirty, cbs, damage,
                 reported, frameSod>>

\* Mutant of FrameIntact: a frame with an accepted gap passes for intact.
IntactWhenParked == ~is_parsing_failure /\ is_passed_header

\* frame_intact
FrameIntact == ~is_parsing_failure /\ is_passed_header /\ ~resync_soft

\* EOC: an intact frame is flushed, with or without success; the consumer gets
\* the frame and the slabs go back.
EOC(flushed) ==
  LET flushFailed == FrameIntact /\ ~flushed
      d == IF flushFailed THEN damage \cup {"flush"} ELSE damage
  IN
  /\ pc = "eoc" /\ pk.marker
  /\ abort_armed' = FALSE /\ resync_armed' = FALSE /\ resync_soft' = FALSE
  /\ EndFrameStreak(FrameIntact /\ flushed, frame_parse_failed \/ flushFailed)
  /\ EndHistory(d)
  /\ phase' = IF phase = "open" THEN "done" ELSE "both"
  /\ reported' = [intact |-> FrameIntact, damage |-> d]
  /\ trunc_frames' = IF is_parsing_failure \/ flushFailed
                       THEN trunc_frames + 1 ELSE trunc_frames
  /\ total_frames' = total_frames + 1
  /\ is_parsing_failure' = FALSE /\ is_passed_header' = FALSE
  /\ ReleaseHeld({}) /\ dirty' = FALSE
  /\ Return
  /\ UNCHANGED <<off, latchVars, cbs, frameSod>>

-----------------------------------------------------------------------------
MainStep ==
  \/ MissedEOC \/ MainAppend \/ VerifyMalformed \/ VerifyLatched
  \/ VerifyNothing \/ LatchFail \/ LatchNew \/ LatchSplit \/ LatchReuse

BodyStep ==
  \/ SkipBody \/ SkipEnd \/ SkipStray \/ BodyAppend
  \/ \E take \in BOOLEAN : WalkParked(take) \/ WalkParsed(take)
  \/ WalkFailed

\* The worker makes no further call.
Rest == pc = "idle" /\ UNCHANGED vars

Next ==
  \/ \E p \in Pkts, i \in Slabs :
       PullPlain(p, i) \/ PullGapAccepted(p, i) \/ PullGapAborted(p, i)
  \/ CapFire \/ CapPass \/ MainStep \/ BodyStep
  \/ NotEOC \/ \E flushed \in BOOLEAN : EOC(flushed)
  \/ Rest

Spec == Init /\ [][Next]_vars

-----------------------------------------------------------------------------
(***************************************************************************)
(* Properties.                                                             *)
(***************************************************************************)
Damages == {"gap", "parse", "flush", "split", "cap", "skipped", "missed"}

\* Type correctness of the members of frame_handler and of the call in progress.
TypeOK ==
  /\ held_slabs \subseteq Slabs /\ lent \subseteq Slabs
  /\ chain_total \in Nat /\ off \in Nat \cup {-1}
  /\ total_frames \in Nat /\ trunc_frames \in Nat /\ relatches \in Nat
  /\ start_SOD \in Nat /\ frameSod \in Nat
  /\ is_parsing_failure \in BOOLEAN /\ is_passed_header \in BOOLEAN
  /\ geom_sig \in Geoms \cup {0} /\ geom \in Geoms \cup {0}
  /\ cached \in Geoms \cup {0}
  /\ parse_fail_streak \in Nat /\ deadRun \in Nat
  /\ frame_parse_failed \in BOOLEAN
  /\ resync_armed \in BOOLEAN /\ resync_soft \in BOOLEAN
  /\ abort_armed \in BOOLEAN /\ ready \in BOOLEAN /\ dirty \in BOOLEAN
  /\ pc \in {"idle", "cap", "route", "verify", "latch", "walk", "eoc"}
  /\ pc = "idle" => pk = NoCall /\ slab = NoSlab
  /\ pc # "idle" => pk \in Pkts /\ slab \in Slabs
  /\ relatch \in {"none", "geometry", "parsefail"}
  /\ cbs \subseteq {"gap", "point"}
  /\ phase \in {"none", "open", "done", "dead", "both", "twice"}
  /\ damage \subseteq Damages
  /\ reported \in [intact : BOOLEAN, damage : SUBSET Damages]

\* Every slab handed to pull_data() is either released by the time it returns
\* or held for the open frame, and no more than SlabCap are ever held: no path
\* through the handler leaks a slab of the receiver's ring.
SlabsAccounted ==
  /\ lent = held_slabs \cup (IF pc \in {"cap", "route"} THEN {slab} ELSE {})
  /\ pc \in {"cap", "route"} => slab \notin held_slabs
  /\ Cardinality(held_slabs) <= SlabCap

\* The handler's own idea of an open frame agrees with the consumer's, whatever
\* packets arrive: chunks are contiguous, an abort is never repeated, between
\* calls it can fire exactly when chunks were delivered and no end of the frame
\* was reported, and the bytes delivered are the bytes in the chain.
ConsumerAgrees ==
  /\ off # -1 /\ phase # "twice"
  /\ pc = "idle" => /\ abort_armed <=> phase = "open"
                    /\ is_passed_header /\ ~is_parsing_failure
                         => phase = "open" /\ off = chain_total

\* A frame is walked only against a latched structure, from slabs that are
\* still held, and the walk of a new frame starts from a restarted tile.
WalkOnLatched ==
  /\ is_passed_header => ready /\ held_slabs # {}
  /\ dirty => held_slabs # {} /\ (is_passed_header \/ is_parsing_failure)
  /\ pc \in {"verify", "latch"} => ~dirty

\* When a frame with a complete main header is walked, start_SOD is the end of
\* its own header, not of an earlier frame's.
BodyStart ==
  pc = "idle" /\ is_passed_header /\ frameSod # 0 => start_SOD = frameSod

\* The resync state belongs to one frame in flight: points are offered only
\* while the walk is parked, and a parked walk never outlives its frame.
ParkedInFlight ==
  /\ resync_armed => resync_soft
  /\ resync_soft => /\ pc \notin {"verify", "latch"}
                    /\ is_passed_header /\ ~is_parsing_failure
                    /\ "gap" \in damage

\* The escape hatch counts exactly the frames whose bytes failed to parse since
\* the last clean frame or the last latch; lost, capped and resynchronised
\* frames are neutral.
StreakExact == pc = "idle" => parse_fail_streak = deadRun

\* A frame reported intact lost no packet, and failed in no walk before EOC.
IntactMeansWhole == reported.intact => reported.damage \subseteq {"flush"}

-----------------------------------------------------------------------------
(***************************************************************************)
(* Claims of the comments, which hold for some inputs only.                *)
(***************************************************************************)
\* No main header is split over packets, and no EOC packet is walked as the
\* carrier of a resync point.
WholeHeaders(P) == \A p \in P : p.MH # 1 /\ (p.marker => ~p.ORDB)

\* Every header that geometry_signature() accepts can be latched.
SupportedHeaders(P) ==
  \A p \in P : p.MH >= 2 /\ p.hdr.sig # 0 => p.hdr.parses /\ p.hdr.creates

\* The contract of the chunk, abort and ready callbacks.
Delivery == INSTANCE IncrementalDelivery WITH Sizes <- {p.size : p \in Pkts}

ImplementsDelivery == Delivery!Spec

\* A frame ends in either frame_ready or frame_abort, never both.
NeverBoth == phase # "both"

\* A frame that is over was reported as ready or aborted.
EveryFrameEnds == pc = "idle" /\ held_slabs = {} => phase # "open"

\* While frames of a geometry are walked, the consumer's stream-scoped caches
\* are for that geometry: it was told of every change.
CacheFresh == pc = "idle" /\ is_passed_header => cached = geom
=============================================================================

----------------------------- MODULE ChipsetStep -----------------------------
(***************************************************************************)
(* rigel_chipset_step: one call advances Agnus by any number of colour     *)
(* clocks and then pulses the CIAs from what it sees of the beam before    *)
(* and after.  The CIAs are represented by the pulses they receive.        *)
(* src/src/chipset/chipset.c, timing/slot_scheduler.c (beam and VERTB)     *)
(***************************************************************************)
EXTENDS Beam

CONSTANTS
    Standards,     \* frame lengths BEAMCON0 can select
    ResetLines,    \* frame length after reset
    LaceValues,    \* values the guest writes to BPLCON0.LACE
    CckPerEclock,  \* colour clocks per E-clock tick (5 in the code)
    Word,          \* 2^32: the width the pulse count is cut to
    MaxStep,       \* bound: colour clocks of one rigel_step
    MaxCycles,     \* bound: colour clocks of a behaviour
    MaxWrites      \* bound: guest writes to BPLCON0 and BEAMCON0

ASSUME ConstantsAssumption ==
    /\ Standards \subseteq Nat \ {0}
    /\ ResetLines \in Standards
    /\ LaceValues \subseteq BOOLEAN
    /\ CckPerEclock \in Nat \ {0}
    /\ Word \in Nat \ {0}
    /\ MaxStep \in 0..(Word - 1)  \* the clocks of a step are a 32-bit number
    /\ MaxCycles \in Nat /\ MaxWrites \in Nat

VARIABLES
    beam,        \* agnus.beam
    cycles,      \* chipset.cycles
    eclock_rem,  \* chipset.cia_eclock_rem
    out,         \* what the step produced so far: VERTB requests, TOD pulses
                 \* to CIA-A and CIA-B, E-clock ticks
    seen,        \* what the beam really did: entries into vblank, lines ended
    snap,        \* a geometry snapshot and its time, for the projection
    writes       \* guest writes so far

vars == <<beam, cycles, eclock_rem, out, seen, snap, writes>>

Init ==
    /\ beam = beam_reset(ResetLines)
    /\ cycles = 0
    /\ eclock_rem = 0
    /\ out = [vertb |-> 0, tod_a |-> 0, tod_b |-> 0, eclock |-> 0]
    /\ seen = [vbl |-> 0, lines |-> 0]
    /\ snap = [time |-> 0, beam |-> beam_reset(ResetLines)]
    /\ writes = 0

(* The beam loop of agnus_slot_scheduler_step_until: n single clocks, with *)
(* the VERTB requests raised on the way.                                   *)
agnus_step(n) ==
    LET run[i \in 0..n] ==
          IF i = 0 THEN [beam |-> beam, vertb |-> 0, vbl |-> 0, lines |-> 0]
          ELSE LET p == run[i - 1]
                   b == beam_step1(p.beam)
               IN  [beam  |-> b,
                    vertb |-> p.vertb + (IF at_vertb(b) THEN 1 ELSE 0),
                    vbl   |-> p.vbl + (IF ~ in_vblank(p.beam) /\ in_vblank(b)
                                       THEN 1 ELSE 0),
                    lines |-> p.lines + (IF b.hpos = 0 THEN 1 ELSE 0)]
    IN  run[n]

(* CIA-A: one pulse if the step began outside and ended inside vblank.     *)
vbl_pulses(before, after) ==
    IF ~ in_vblank(before) /\ in_vblank(after) THEN 1 ELSE 0

(* Mutant: only lines within one frame are counted.                        *)
hsync_pulses_SameFrame(before, after) == (after.vpos - before.vpos) % Word

(* CIA-B: lines elapsed, reckoned in nominal frames, in unsigned integers. *)
hsync_pulses(before, after) ==
    LET lines == before.frame_lines
    IN  ((after.frame_count * lines + after.vpos)
           - (before.frame_count * lines + before.vpos)) % Word

(* Mutant: the remainder of the E-clock division is dropped.               *)
eclock_carry_Dropped(total) == 0

eclock_carry(total) == total % CckPerEclock

Step(n) ==
    LET r     == agnus_step(n)
        total == eclock_rem + n
    IN  /\ cycles + n <= MaxCycles
        /\ cycles' = cycles + n
        /\ beam' = r.beam
        /\ eclock_rem' = eclock_carry(total)
        /\ out' = [vertb  |-> out.vertb + r.vertb,
                   tod_a  |-> out.tod_a + vbl_pulses(beam, r.beam),
                   tod_b  |-> out.tod_b + hsync_pulses(beam, r.beam),
                   eclock |-> out.eclock + total \div CckPerEclock]
        /\ seen' = [vbl |-> seen.vbl + r.vbl, lines |-> seen.lines + r.lines]
        /\ UNCHANGED <<snap, writes>>

(* A host thread publishes rigel_get_beam_geometry for others to project.  *)
Snapshot ==
    /\ snap' = [time |-> cycles, beam |-> beam]
    /\ UNCHANGED <<beam, cycles, eclock_rem, out, seen, writes>>

(* The guest reprograms the raster; the host takes a new snapshot.         *)
Reprogram(b) ==
    /\ writes < MaxWrites
    /\ writes' = writes + 1
    /\ b # beam
    /\ beam' = b
    /\ snap' = [time |-> cycles, beam |-> b]
    /\ UNCHANGED <<cycles, eclock_rem, out, seen>>

WriteBplcon0(lace) == Reprogram(write_lace(beam, lace))

WriteBeamcon0(std) == Reprogram(set_video_std(beam, std))

Next ==
    \/ \E n \in 1..MaxStep : Step(n)
    \/ Snapshot
    \/ \E l \in LaceValues : WriteBplcon0(l)
    \/ \E s \in Standards : WriteBeamcon0(s)

Spec == Init /\ [][Next]_vars /\ WF_vars(Step(1))

-----------------------------------------------------------------------------
TypeOK ==
    /\ beam \in BeamState
    /\ beam.hpos < line_hmax(beam)
    /\ cycles \in 0..MaxCycles
    /\ eclock_rem \in 0..(CckPerEclock - 1)
    /\ out \in [vertb: Nat, tod_a: Nat, tod_b: Nat, eclock: Nat]
    /\ seen \in [vbl: Nat, lines: Nat]
    /\ writes \in 0..MaxWrites

(* "accumulate remainder to avoid drift": however time is cut into steps,  *)
(* the CIAs have had one E-clock tick per CckPerEclock colour clocks.      *)
EclockExact == out.eclock * CckPerEclock + eclock_rem = cycles

(* Every frame raises VERTB exactly once, through interlace and changes of *)
(* the video standard in mid-frame.                                        *)
VertbOncePerFrame ==
    out.vertb = beam.frame_count
                + (IF beam.vpos = 0 /\ beam.hpos = 0 THEN 0 ELSE 1)

BlankLines == VblEnd + 1

(* "CIA-A TOD increments once per VBL": a step that is no longer than the  *)
(* blank zone and no longer than the visible zone gives one pulse for each *)
(* vertical blank that began in it.  Longer steps can hide a blank.        *)
TodACountsVblanks ==
    [][(/\ cycles' - cycles <= BlankLines * LineClocks
        /\ cycles' - cycles <= (beam.frame_lines - BlankLines) * LineClocks)
          => out'.tod_a - out.tod_a = seen'.vbl - seen.vbl]_vars

(* "CIA-B TOD follows Agnus HSYNC": from a uniform progressive scan, a     *)
(* step of any length gives one pulse for every line that ended in it.     *)
(* The extra line of a long frame is never pulsed.                         *)
TodBCountsLines ==
    [][projectable(beam) => out'.tod_b - out.tod_b = seen'.lines - seen.lines]_vars

(* HSYNC comes at most once per line, so CIA-B can never have had more     *)
(* pulses than there were colour clocks.                                   *)
TodBWithinTime == out.tod_b <= cycles

(* "The projection is exact for uniform progressive scan": whenever        *)
(* rigel_beam_position_at accepts the last snapshot, it predicts where the *)
(* beam is now.                                                            *)
ProjectionExact ==
    projectable(snap.beam)
        => LET p == position_at(snap.beam, cycles - snap.time)
           IN  p.hpos = beam.hpos /\ p.vpos = beam.vpos

(* However the host cuts time into steps, the chipset's state is well      *)
(* formed and no E-clock is lost or gained.                                *)
TimeKept == TypeOK /\ EclockExact

(* What the raster drives is driven once for each cause, within the limits *)
(* the parts state: VERTB per frame, CIA-A's clock per blank, CIA-B's per  *)
(* line.                                                                   *)
RasterPulses == []VertbOncePerFrame /\ TodACountsVblanks /\ TodBCountsLines
=============================================================================

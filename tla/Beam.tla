-------------------------------- MODULE Beam --------------------------------
(***************************************************************************)
(* The raster beam of Agnus: position, long frames (LOF) and long lines    *)
(* (LOL), the vertical blank, and what the host asks about it.             *)
(* Operators on a record that stands for beam_state_t.                     *)
(*                                                                         *)
(* src/src/chipset/agnus/beam.c, timing/vblank.c, core/rigel_beam_api.c    *)
(***************************************************************************)
EXTENDS Integers

CONSTANTS
    LineClocks,  \* colour clocks of a line (227 in the code)
    VblEnd       \* last line of the vertical blank zone (25 in the code)

ASSUME BeamAssumption ==
    /\ LineClocks \in Nat /\ LineClocks > 1
    /\ VblEnd \in Nat

BeamState == [hpos: Nat, vpos: Nat, frame_lines: Nat \ {0}, frame_count: Nat,
              lof: BOOLEAN, lof_toggle: BOOLEAN, lol: BOOLEAN, lol_toggle: BOOLEAN]

beam_reset(frame_lines) ==
    [hpos |-> 0, vpos |-> 0, frame_lines |-> frame_lines, frame_count |-> 0,
     lof |-> FALSE, lof_toggle |-> FALSE, lol |-> FALSE, lol_toggle |-> FALSE]

line_hmax(b) == LineClocks + (IF b.lol THEN 1 ELSE 0)

frame_vmax(b) == b.frame_lines + (IF b.lof THEN 1 ELSE 0)

(* beam_advance_line: LOL is toggled per line, LOF per frame; the frame's  *)
(* length is tested before LOF changes.                                    *)
advance_line(b) ==
    LET lol  == b.lol_toggle /\ ~ b.lol
        next == [b EXCEPT !.hpos = 0, !.vpos = b.vpos + 1, !.lol = lol]
    IN  IF next.vpos < frame_vmax(b) THEN next
        ELSE [next EXCEPT !.vpos = 0,
                          !.frame_count = b.frame_count + 1,
                          !.lof = b.lof_toggle /\ ~ b.lof]

(* beam_step(beam, 1), the only way the slot scheduler moves the beam.     *)
beam_step1(b) ==
    IF b.hpos + 1 < line_hmax(b) THEN [b EXCEPT !.hpos = b.hpos + 1]
    ELSE advance_line(b)

in_vblank(b) == b.vpos <= VblEnd

(* The VERTB request is raised at line 0, clock 1.                         *)
at_vertb(b) == b.vpos = 0 /\ b.hpos = 1

until_line_end(b) == line_hmax(b) - b.hpos

(* agnus_cycles_to_vertb counts whole lines of the nominal frame, and from *)
(* line 0 counts to the VERTB of the next frame.                           *)
cycles_to_vertb(b) ==
    IF at_vertb(b) THEN 0
    ELSE (LineClocks - b.hpos)
         + (IF b.vpos < b.frame_lines THEN b.frame_lines - b.vpos - 1 ELSE 0)
           * LineClocks
         + 1

-----------------------------------------------------------------------------
(* The read-only projection for hosts on another core: a snapshot and the  *)
(* position it predicts after `elapsed` clocks.                            *)

(* Mutant: the interlace state in the snapshot is not looked at.           *)
projectable_AnyScan(g) ==
    g.hpos < LineClocks /\ g.vpos < g.frame_lines

projectable(g) ==
    /\ g.hpos < LineClocks
    /\ g.vpos < g.frame_lines
    /\ ~ (g.lof \/ g.lol \/ g.lof_toggle \/ g.lol_toggle)

position_at(g, elapsed) ==
    LET clocks == g.hpos + elapsed
    IN  [hpos |-> clocks % LineClocks,
         vpos |-> (g.vpos + clocks \div LineClocks) % g.frame_lines]

-----------------------------------------------------------------------------
(* A write to BPLCON0: LACE turns LOF toggling on; clearing it ends a long *)
(* frame at once.                                                          *)
write_lace(b, lace) == [b EXCEPT !.lof_toggle = lace, !.lof = lace /\ b.lof]

(* A write to BEAMCON0 on ECS: the frame length follows the standard and   *)
(* the beam stays where it is, even beyond the new frame's end.            *)
set_video_std(b, frame_lines) == [b EXCEPT !.frame_lines = frame_lines]
=============================================================================

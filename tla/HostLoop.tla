------------------------------ MODULE HostLoop ------------------------------
(***************************************************************************)
(* Hosts that let the processor run up to Rigel's deadline and then step   *)
(* the chipset: the loop of README.md, in which both count colour clocks,  *)
(* and harness_step, which runs a 68000 at twice that rate and flushes     *)
(* elapsed time before every chipset access.                               *)
(* src/src/core/rigel.c (rigel_get_deadline), src/harness/harness.c        *)
(*                                                                         *)
(* Blitter, copper, audio and disk offer deadlines of their own: any       *)
(* number of clocks from 1 up to the end of the line.                      *)
(***************************************************************************)
EXTENDS Beam

CONSTANTS
    FrameLines,  \* lines of a frame
    MaxInstr     \* bound: CPU cycles between two boundaries, and the overshoot

ASSUME ConstantsAssumption ==
    /\ FrameLines \in Nat \ {0}
    /\ MaxInstr \in Nat \ {0}

VARIABLES
    beam,     \* agnus.beam; its frame count is kept modulo 2
    phase,    \* the harness: "idle" or inside m68k_execute
    budget,   \* CPU cycles of the slice
    run,      \* m68k_cycles_run() at the last boundary
    flushed,  \* h->cycles_flushed
    cck_rem,  \* h->cck_rem
    owed      \* CPU cycles executed minus twice the clocks stepped

vars == <<beam, phase, budget, run, flushed, cck_rem, owed>>

Init ==
    /\ beam = beam_reset(FrameLines)
    /\ phase = "idle"
    /\ budget = 0
    /\ run = 0
    /\ flushed = 0
    /\ cck_rem = 0
    /\ owed = 0

(* rigel_step: n colour clocks.                                            *)
Advance(n) ==
    LET at[i \in 0..n] == IF i = 0 THEN beam ELSE beam_step1(at[i - 1])
    IN  [at[n] EXCEPT !.frame_count = @ % 2]

SetMin(S) == CHOOSE m \in S : \A x \in S : m <= x

(* rigel_get_next_observable_deadline, relative to now.                    *)
observable_deadline(other) ==
    SetMin({until_line_end(beam), cycles_to_vertb(beam), other})

(* rigel_get_next_deadline also asks the slot scheduler, whose table is    *)
(* dirty at the start of a line.                                           *)
next_deadline(other) ==
    IF beam.hpos = 0 THEN SetMin({1, observable_deadline(other)})
                     ELSE observable_deadline(other)

Others == 1..until_line_end(beam)

-----------------------------------------------------------------------------
(* README.md: run the processor until the deadline, step to its time.      *)
ReadmeIteration(other, over) ==
    LET d == next_deadline(other)
    IN  /\ beam' = Advance(IF d = 0 THEN 0 ELSE d + over)
        /\ UNCHANGED <<phase, budget, run, flushed, cck_rem, owed>>

-----------------------------------------------------------------------------
(* Mutant: no floor under the quantum when the deadline is now.            *)
quantum_NoFloor(other) ==
    LET cpu == 2 * observable_deadline(other)
    IN  IF cck_rem # 0 /\ cpu > 1 THEN cpu - 1 ELSE cpu

(* harness_quantum_cpu_cycles, with no cap from the caller.                *)
quantum(other) ==
    LET d   == observable_deadline(other)
        cpu == 2 * (IF d > 0 THEN d ELSE 1)
    IN  IF cck_rem # 0 /\ cpu > 1 THEN cpu - 1 ELSE cpu

BeginSlice(other) ==
    /\ phase = "idle"
    /\ phase' = "running"
    /\ budget' = quantum(other)
    /\ run' = 0
    /\ flushed' = 0
    /\ UNCHANGED <<beam, cck_rem, owed>>

(* Mutant: the odd CPU cycle is forgotten.                                 *)
carry_Dropped(scaled) == 0

carry(scaled) == scaled % 2

(* CPU cycles not yet accounted for become colour clocks (harness_flush    *)
(* and the end of harness_step): half of them, carrying the odd one.       *)
Integrate(delta) ==
    LET scaled == cck_rem + delta
    IN  /\ beam' = Advance(scaled \div 2)
        /\ cck_rem' = carry(scaled)
        /\ owed' = owed + delta - 2 * (scaled \div 2)

(* An instruction, k CPU cycles on, touches the chipset: flush first.      *)
Access(k) ==
    /\ phase = "running"
    /\ run < budget
    /\ run' = run + k
    /\ flushed' = run + k
    /\ Integrate(run + k - flushed)
    /\ UNCHANGED <<phase, budget>>

(* m68k_execute returns once the budget is used up; it finishes the        *)
(* instruction it is in, so it may have consumed more.                     *)
EndSlice(k) ==
    /\ phase = "running"
    /\ run + k >= budget
    /\ k > 0 => run + k < budget + MaxInstr
    /\ phase' = "idle"
    /\ run' = 0
    /\ flushed' = 0
    /\ budget' = 0
    /\ Integrate(run + k - flushed)

Next ==
    \/ \E o \in Others : BeginSlice(o)
    \/ \E k \in 1..MaxInstr : Access(k)
    \/ \E k \in 0..(2 * LineClocks + MaxInstr) : EndSlice(k)

(* The host calls harness_step for as long as the machine runs.            *)
Spec == Init /\ [][Next]_vars /\ WF_vars(Next)

ReadmeNext == \E o \in Others, v \in 0..MaxInstr : ReadmeIteration(o, v)

(* The same for the loop of README.md.                                     *)
ReadmeSpec == Init /\ [][ReadmeNext]_vars /\ WF_vars(ReadmeNext)

-----------------------------------------------------------------------------
TypeOK ==
    /\ beam \in BeamState /\ beam.hpos < LineClocks /\ beam.vpos < FrameLines
    /\ phase \in {"idle", "running"}
    /\ budget \in 0..(2 * LineClocks)
    /\ run \in 0..(budget + MaxInstr)
    /\ flushed = run
    /\ cck_rem \in {0, 1}
    /\ owed \in Int

(* "carrying the odd cycle so time is not lost across timeslices": the     *)
(* chipset is behind the processor by the carried cycle and nothing else,  *)
(* however accesses split the slice.                                       *)
NoTimeLost == owed = cck_rem

(* The loop makes progress: frame after frame goes by.                     *)
FramesKeepComing ==
    /\ []<>(beam.frame_count = 0)
    /\ []<>(beam.frame_count = 1)

(* Processor and chipset stay together to the odd cycle, through slices,   *)
(* accesses and overshoot.                                                 *)
InStep == TypeOK /\ NoTimeLost
=============================================================================

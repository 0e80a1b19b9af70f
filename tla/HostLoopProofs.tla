--------------------------- MODULE HostLoopProofs ---------------------------
(***************************************************************************)
(* Proofs about HostLoop: processor and chipset stay together to the odd   *)
(* cycle, for every length of line and frame and every overshoot.          *)
(***************************************************************************)
EXTENDS HostLoop, Induction

(* The positions of a beam whose interlace bits are off, which is where    *)
(* the loop keeps it: the state that beam_step1 stays in.                  *)
Scan == [hpos: 0..(LineClocks - 1), vpos: 0..(FrameLines - 1),
         frame_lines: {FrameLines}, frame_count: Nat,
         lof: {FALSE}, lof_toggle: {FALSE}, lol: {FALSE}, lol_toggle: {FALSE}]

LEMMA ScanFields ==
    ASSUME NEW b \in Scan
    PROVE  /\ b.hpos \in 0..(LineClocks - 1) /\ b.vpos \in 0..(FrameLines - 1)
           /\ b.frame_lines = FrameLines /\ b.frame_count \in Nat
BY Zenon DEF Scan

LEMMA ScanPlain ==
    ASSUME NEW b \in Scan
    PROVE  ~b.lof /\ ~b.lof_toggle /\ ~b.lol /\ ~b.lol_toggle
BY Zenon DEF Scan

LEMMA StepStays ==
    ASSUME NEW b \in Scan
    PROVE  beam_step1(b) \in Scan
<1> USE BeamAssumption, ConstantsAssumption, ScanFields
<1>1. line_hmax(b) = LineClocks /\ frame_vmax(b) = FrameLines
  BY ScanPlain DEF line_hmax, frame_vmax
<1>2. CASE b.hpos + 1 < LineClocks
  <2>1. b.hpos + 1 \in 0..(LineClocks - 1)
    BY <1>2
  <2>2. [b EXCEPT !.hpos = b.hpos + 1] \in Scan
    BY <2>1, Zenon DEF Scan
  <2> QED
    BY <1>1, <1>2, <2>2 DEF beam_step1
<1>3. CASE ~ (b.hpos + 1 < LineClocks)
  <2> DEFINE lol == b.lol_toggle /\ ~ b.lol
             next == [b EXCEPT !.hpos = 0, !.vpos = b.vpos + 1, !.lol = lol]
             wrap == [next EXCEPT !.vpos = 0,
                                  !.frame_count = b.frame_count + 1,
                                  !.lof = b.lof_toggle /\ ~ b.lof]
  <2>1. /\ 0 \in 0..(LineClocks - 1) /\ 0 \in 0..(FrameLines - 1)
        /\ b.frame_count + 1 \in Nat
        /\ b.vpos + 1 < FrameLines => b.vpos + 1 \in 0..(FrameLines - 1)
    OBVIOUS
  <2>2. lol = FALSE /\ (b.lof_toggle /\ ~ b.lof) = FALSE
    BY ScanPlain, Zenon
  <2>3. next.vpos = b.vpos + 1
    BY Zenon DEF Scan
  <2>4. b.vpos + 1 < FrameLines => next \in Scan
    BY <2>1, <2>2, Zenon DEF Scan
  <2>5. wrap \in Scan
    BY <2>1, <2>2, Zenon DEF Scan
  <2>6. advance_line(b) = IF next.vpos < frame_vmax(b) THEN next ELSE wrap
    BY DEF advance_line
  <2> QED
    BY <1>1, <1>3, <2>3, <2>4, <2>5, <2>6, Zenon DEF beam_step1
<1> QED
  BY <1>2, <1>3

(* rigel_step runs the beam step by step; any number of clocks leaves it   *)
(* on the raster.                                                          *)
LEMMA AdvanceStays ==
    ASSUME NEW n \in Nat, beam \in Scan
    PROVE  Advance(n) \in Scan
<1> DEFINE F == [b \in Scan |-> beam_step1(b)]
           Eq(g) == g = [i \in 0..n |-> IF i = 0 THEN beam ELSE beam_step1(g[i - 1])]
           at == CHOOSE g : Eq(g)
<1>1. \A b \in Scan : F[b] \in Scan
  BY StepStays
<1>2. PICK f : Run(F, beam, n, f)
  BY RunExists
<1>3. f \in [0..n -> Scan]
  BY <1>1, <1>2, RunInvariant
<1>4. Eq(f)
  <2>1. f = [i \in 0..n |-> IF i = 0 THEN beam ELSE F[f[i - 1]]]
    BY <1>2 DEF Run
  <2>2. ASSUME NEW i \in 0..n
        PROVE  f[i] = IF i = 0 THEN beam ELSE beam_step1(f[i - 1])
    <3>1. i # 0 => i - 1 \in 0..n
      OBVIOUS
    <3> QED
      BY <2>1, <1>3, <3>1
  <2> QED
    BY <2>2, <1>3
<1>5. Eq(at)
  BY <1>4
<1> HIDE DEF at
<1>6. at[n] \in Scan
  <2> DEFINE S == {k \in Nat : k \in 0..n => at[k] \in Scan}
  <2>1. 0 \in S
    BY <1>5
  <2>2. ASSUME NEW k \in Nat, k \in S
        PROVE  k + 1 \in S
    <3> SUFFICES ASSUME k + 1 \in 0..n PROVE at[k + 1] \in Scan
      OBVIOUS
    <3>1. k \in 0..n /\ k + 1 # 0 /\ (k + 1) - 1 = k
      OBVIOUS
    <3>2. at[k + 1] = beam_step1(at[k])
      BY <1>5, <3>1
    <3> QED
      BY <2>2, <3>1, <3>2, StepStays
  <2>3. Nat \subseteq S
    BY <2>1, <2>2, SetInduction
  <2> QED
    BY <2>3
<1>7. Advance(n) = [at[n] EXCEPT !.frame_count = @ % 2]
  BY DEF Advance, at
<1>8. \A b \in Scan : [b EXCEPT !.frame_count = b.frame_count % 2] \in Scan
  <2>1. \A b \in Scan : b.frame_count % 2 \in Nat
    BY ScanFields
  <2> QED
    BY <2>1, Zenon DEF Scan
<1> QED
  BY <1>6, <1>7, <1>8

-----------------------------------------------------------------------------
(* The inductive invariant: InStep says too little about the beam, whose   *)
(* interlace bits and frame length the next step depends on.               *)
IInv ==
    /\ beam \in Scan
    /\ phase \in {"idle", "running"}
    /\ budget \in 0..(2 * LineClocks)
    /\ run \in 0..(budget + MaxInstr)
    /\ flushed = run
    /\ cck_rem \in {0, 1}
    /\ owed = cck_rem

LEMMA IInvInStep == IInv => InStep
<1> USE BeamAssumption, ConstantsAssumption
<1>1. beam \in Scan => beam \in BeamState /\ beam.hpos < LineClocks /\ beam.vpos < FrameLines
  <2> SUFFICES ASSUME beam \in Scan
               PROVE  beam \in BeamState /\ beam.hpos < LineClocks /\ beam.vpos < FrameLines
    OBVIOUS
  <2>1. 0..(LineClocks - 1) \subseteq Nat /\ 0..(FrameLines - 1) \subseteq Nat
    OBVIOUS
  <2>2. beam \in BeamState
    BY <2>1, Zenon DEF Scan, BeamState
  <2> QED
    BY <2>2, ScanFields
<1> QED
  BY <1>1 DEF IInv, InStep, TypeOK, NoTimeLost

(* No deadline lies beyond the end of the line, so that a slice is never   *)
(* longer than a line.                                                     *)
LEMMA QuantumBounded ==
    ASSUME IInv, NEW o \in Others
    PROVE  quantum(o) \in 0..(2 * LineClocks)
<1> USE BeamAssumption, ConstantsAssumption
<1> DEFINE u == until_line_end(beam)
           c == cycles_to_vertb(beam)
<1>1. u \in 1..LineClocks
  BY ScanFields, ScanPlain DEF IInv, until_line_end, line_hmax
<1>2. o \in 1..LineClocks
  BY <1>1 DEF Others
<1>3. c \in Nat
  <2> DEFINE k == IF beam.vpos < beam.frame_lines THEN beam.frame_lines - beam.vpos - 1 ELSE 0
  <2>1. k \in Nat /\ beam.hpos \in 0..(LineClocks - 1)
    BY ScanFields DEF IInv
  <2>2. k * LineClocks \in Nat
    BY <2>1
  <2> HIDE DEF k
  <2> QED
    BY <2>1, <2>2 DEF cycles_to_vertb, k
<1> HIDE DEF u, c
<1>4. observable_deadline(o) \in 0..LineClocks
  <2>1. \E m \in {u, c, o} : \A x \in {u, c, o} : m <= x
    BY <1>1, <1>2, <1>3
  <2>2. SetMin({u, c, o}) \in {u, c, o} /\ SetMin({u, c, o}) <= o
    BY <2>1 DEF SetMin
  <2> QED
    BY <1>1, <1>2, <1>3, <2>2 DEF observable_deadline, u, c
<1> QED
  BY <1>4 DEF quantum

(* Folding elapsed CPU cycles into colour clocks keeps the beam on the     *)
(* raster and the debt at the carried odd cycle.                           *)
LEMMA IntegrateKeeps ==
    ASSUME IInv, NEW delta \in Nat, Integrate(delta)
    PROVE  beam' \in Scan /\ cck_rem' \in {0, 1} /\ owed' = cck_rem'
<1>1. cck_rem + delta \in Nat
  BY DEF IInv
<1>2. (cck_rem + delta) \div 2 \in Nat
  BY <1>1
<1>3. beam' \in Scan
  BY <1>2, AdvanceStays DEF IInv, Integrate
<1>4. cck_rem' = (cck_rem + delta) % 2
  BY DEF Integrate, carry
<1>5. (cck_rem + delta) % 2 = (cck_rem + delta) - 2 * ((cck_rem + delta) \div 2)
  <2> DEFINE m == cck_rem + delta
  <2> HIDE DEF m
  <2>1. m \in Nat
    BY <1>1 DEF m
  <2>2. m % 2 = m - 2 * (m \div 2)
    BY <2>1
  <2> QED
    BY <2>2 DEF m
<1> QED
  BY <1>1, <1>2, <1>3, <1>4, <1>5 DEF IInv, Integrate

LEMMA NextKeeps == IInv /\ [Next]_vars => IInv'
<1> USE BeamAssumption, ConstantsAssumption
<1> SUFFICES ASSUME IInv, [Next]_vars PROVE IInv'
  OBVIOUS
<1>1. ASSUME NEW o \in Others, BeginSlice(o) PROVE IInv'
  BY <1>1, QuantumBounded DEF IInv, BeginSlice
<1>2. ASSUME NEW k \in 1..MaxInstr, Access(k) PROVE IInv'
  <2>1. run + k - flushed = k /\ k \in Nat
    BY <1>2 DEF IInv
  <2>2. Integrate(k)
    BY <1>2, <2>1 DEF Access
  <2>3. beam' \in Scan /\ cck_rem' \in {0, 1} /\ owed' = cck_rem'
    BY <2>1, <2>2, IntegrateKeeps
  <2> QED
    BY <1>2, <2>3 DEF IInv, Access
<1>3. ASSUME NEW k \in 0..(2 * LineClocks + MaxInstr), EndSlice(k) PROVE IInv'
  <2>1. run + k - flushed = k /\ k \in Nat
    BY <1>3 DEF IInv
  <2>2. Integrate(k)
    BY <1>3, <2>1 DEF EndSlice
  <2>3. beam' \in Scan /\ cck_rem' \in {0, 1} /\ owed' = cck_rem'
    BY <2>1, <2>2, IntegrateKeeps
  <2> QED
    BY <1>3, <2>3 DEF IInv, EndSlice
<1>4. CASE UNCHANGED vars
  BY <1>4 DEF IInv, vars
<1> QED
  BY <1>1, <1>2, <1>3, <1>4 DEF Next

(* harness_step, harness_flush: however accesses and overshoot split the   *)
(* slices, the chipset is behind the processor by the carried odd cycle    *)
(* and nothing else, and a slice never runs past the line.                 *)
THEOREM HostInStep == Spec => []InStep
<1>1. Init => IInv
  BY BeamAssumption, ConstantsAssumption DEF Init, IInv, Scan, beam_reset
<1> QED
  BY <1>1, NextKeeps, IInvInStep, PTL DEF Spec
=============================================================================

---------------------------- MODULE CopperProofs ----------------------------
(***************************************************************************)
(* Proofs about Copper: for every list, every frame and every choice of    *)
(* slots, the Copper executes the instructions that program order, jumps   *)
(* and VERTB call for, waits exactly as long as its WAITs say, reports     *)
(* what it did and never raises its own privileges.                        *)
(***************************************************************************)
EXTENDS Copper, Induction

USE BeamAssumption, CopperAssumption, ProgramAssumption

MachineState == [cop: CopperState, dmacon: SUBSET Channels, blt_busy: BOOLEAN]

HistState == [due: Addresses, held: BOOLEAN, worked: BOOLEAN]

(* The raster of this model: a uniform progressive scan.                   *)
ScanState ==
    {b \in BeamState :
        /\ b.hpos < LineClocks /\ b.vpos < FrameLines /\ b.frame_lines = FrameLines
        /\ ~ (b.lof \/ b.lol \/ b.lof_toggle \/ b.lol_toggle)}

(* The Copper's state and what it should do agree: while it waits, it is   *)
(* for the WAIT that program order has just passed, and with the blitter   *)
(* bit of that WAIT; when it asks for an instruction it does not wait, and *)
(* the instruction is the one that is due.                                 *)
Agrees(mem, c, h) ==
    /\ c.waiting <=> h.held
    /\ c.fetch => ~c.waiting
    /\ c.waiting => /\ h.due = After(c.pc, 1)
                    /\ c.wait = mem[c.pc]
                    /\ c.wait_blitter <=> VBits - 1 \notin c.wait.vm
    /\ c.fetch /\ ~c.stopped => c.pc = h.due

Reports(c, h) == h.worked => c.event

CopInv ==
    /\ TypeOK
    /\ beam \in ScanState
    /\ Agrees(ram, cop, hist)
    /\ stepping => Reports(cop, hist)

-----------------------------------------------------------------------------
(* Addresses wrap.                                                         *)

LEMMA AfterFacts ==
    ASSUME NEW a \in Addresses
    PROVE  /\ \A n \in Nat : After(a, n) \in Addresses
           /\ After(After(a, 1), 1) = After(a, 2)
           /\ After(After(a, 1), 2 * HalfWord - 1) = a
<1> DEFINE M == 2 * HalfWord
<1>0. M \in Nat /\ M >= 2 /\ a \in 0..(M - 1)
  BY DEF Addresses
<1> HIDE DEF M
<1>1. \A n \in Nat : After(a, n) \in Addresses
  <2> TAKE n \in Nat
  <2>1. (a + n) % M \in 0..(M - 1)
    BY <1>0, DivMod
  <2> QED
    BY <2>1 DEF After, Addresses, M
<1>2. After(a, 1) = IF a + 1 = M THEN 0 ELSE a + 1
  <2>1. CASE a + 1 = M
    <3>1. (M * 1 + 0) % M = 0
      BY <1>0, DivUnique
    <3>2. a + 1 = M * 1 + 0
      BY <1>0, <2>1
    <3> QED
      BY <2>1, <3>1, <3>2 DEF After, M
  <2>2. CASE a + 1 # M
    <3>1. a + 1 \in 0..(M - 1)
      BY <1>0, <2>2
    <3>2. (M * 0 + (a + 1)) % M = a + 1
      BY <1>0, <3>1, DivUnique, SMTT(30)
    <3>3. a + 1 = M * 0 + (a + 1)
      BY <1>0
    <3> QED
      BY <2>2, <3>2, <3>3 DEF After, M
  <2> QED
    BY <2>1, <2>2
<1>3. After(After(a, 1), 1) = After(a, 2)
  <2>1. CASE a + 1 = M
    <3>1. (M * 1 + 1) % M = 1 /\ (M * 0 + 1) % M = 1
      BY <1>0, DivUnique
    <3>2. a + 2 = M * 1 + 1 /\ 0 + 1 = M * 0 + 1
      BY <1>0, <2>1
    <3>3. After(a, 1) = 0
      BY <1>2, <2>1
    <3> QED
      BY <3>1, <3>2, <3>3 DEF After, M
  <2>2. CASE a + 1 # M
    <3>1. After(a, 1) = a + 1 /\ (a + 1) + 1 = a + 2
      BY <1>0, <1>2, <2>2
    <3> QED
      BY <3>1 DEF After
  <2> QED
    BY <2>1, <2>2
<1>4. After(After(a, 1), M - 1) = a
  <2>1. CASE a + 1 = M
    <3>1. (M * 0 + (M - 1)) % M = M - 1
      BY <1>0, DivUnique
    <3>2. 0 + (M - 1) = M * 0 + (M - 1) /\ a = M - 1
      BY <1>0, <2>1
    <3>3. After(a, 1) = 0
      BY <1>2, <2>1
    <3> QED
      BY <3>1, <3>2, <3>3 DEF After, M
  <2>2. CASE a + 1 # M
    <3>1. (M * 1 + a) % M = a
      BY <1>0, DivUnique
    <3>2. (a + 1) + (M - 1) = M * 1 + a
      BY <1>0
    <3>3. After(a, 1) = a + 1
      BY <1>2, <2>2
    <3> QED
      BY <3>1, <3>2, <3>3 DEF After, M
  <2> QED
    BY <2>1, <2>2
<1> QED
  BY <1>1, <1>3, <1>4 DEF M

(* Packing the masked halves into one number compares the vertical half    *)
(* first: copper_beam_cmp is the reference comparison.                     *)
LEMMA CompareIsReached ==
    ASSUME NEW b \in ScanState, NEW w \in Compares({"WAIT", "SKIP"})
    PROVE  copper_beam_cmp(b, w) <=> Reached(b, w)
<1> USE MaskAssumption
<1> DEFINE P == 2^HBits
           v1 == Masked(b.vpos, w.vm)
           h1 == Masked(b.hpos, w.hm)
           v2 == Masked(w.v, w.vm)
           h2 == Masked(w.h, w.hm)
<1>1. /\ b.hpos \in Nat /\ b.vpos \in Nat /\ b.hpos < LineClocks /\ b.vpos < FrameLines
  BY DEF ScanState, BeamState
<1>2. /\ w.v \in 0..(2^VBits - 1) /\ w.h \in 0..(2^HBits - 1)
      /\ w.vm \in SUBSET VFull /\ w.hm \in SUBSET HFull
  BY Zenon DEF Compares
<1>3. P \in Nat /\ LineClocks <= P - 2
  OBVIOUS
<1>4. b.hpos \in 0..(2^HBits - 1) /\ b.vpos \in 0..FrameLines
  BY <1>1, <1>3
<1>5. v1 \in Nat /\ v2 \in Nat
  BY <1>2, <1>4, Zenon
<1>6. h1 \in 0..(P - 1) /\ h2 \in 0..(P - 1)
  BY <1>2, <1>4, Zenon
<1>7. copper_beam_cmp(b, w) <=> v1 * P + h1 >= v2 * P + h2
  BY Zenon DEF copper_beam_cmp
<1>8. Reached(b, w) <=> v1 - v2 > 0 \/ (v1 - v2 = 0 /\ h1 >= h2)
  BY Zenon DEF Reached
<1> HIDE DEF P, v1, v2, h1, h2
<1>9. CASE v1 = v2
  BY <1>3, <1>5, <1>6, <1>7, <1>8, <1>9
<1>10. CASE v1 > v2
  <2>1. v1 * P >= v2 * P + P
    BY <1>3, <1>5, <1>10
  <2>2. v1 * P \in Nat /\ v2 * P \in Nat
    BY <1>3, <1>5
  <2> QED
    BY <1>3, <1>5, <1>6, <1>7, <1>8, <1>10, <2>1, <2>2
<1>11. CASE v1 < v2
  <2>1. v2 * P >= v1 * P + P
    BY <1>3, <1>5, <1>11
  <2>2. v1 * P \in Nat /\ v2 * P \in Nat
    BY <1>3, <1>5
  <2> QED
    BY <1>3, <1>5, <1>6, <1>7, <1>8, <1>11, <2>1, <2>2
<1> QED
  BY <1>5, <1>9, <1>10, <1>11

-----------------------------------------------------------------------------
LEMMA ScanMoves ==
    ASSUME NEW b \in ScanState
    PROVE  [beam_step1(b) EXCEPT !.frame_count = 0] \in ScanState
<1> DEFINE c == beam_step1(b)
           lol == b.lol_toggle /\ ~ b.lol
           lof == b.lof_toggle /\ ~ b.lof
           next == [b EXCEPT !.hpos = 0, !.vpos = b.vpos + 1, !.lol = lol]
           wrap == [next EXCEPT !.vpos = 0, !.frame_count = b.frame_count + 1, !.lof = lof]
           along == [b EXCEPT !.hpos = b.hpos + 1]
<1>1. /\ b \in BeamState /\ b.hpos \in Nat /\ b.vpos \in Nat /\ b.frame_count \in Nat
      /\ b.hpos < LineClocks /\ b.vpos < FrameLines /\ b.frame_lines = FrameLines
      /\ ~ b.lof /\ ~ b.lol /\ ~ b.lof_toggle /\ ~ b.lol_toggle
  BY Zenon DEF ScanState, BeamState
<1>2. /\ b.hpos + 1 \in Nat /\ b.vpos + 1 \in Nat /\ b.frame_count + 1 \in Nat /\ 0 \in Nat
      /\ ~lol /\ ~lof /\ lol \in BOOLEAN /\ lof \in BOOLEAN
  BY <1>1
<1>3. line_hmax(b) = LineClocks /\ frame_vmax(b) = FrameLines
  BY <1>1 DEF line_hmax, frame_vmax
<1>4. c = IF b.hpos + 1 < LineClocks THEN along
          ELSE IF next.vpos < FrameLines THEN next ELSE wrap
  BY <1>3, Zenon DEF beam_step1, advance_line
<1> HIDE DEF lol, lof
<1>5. b.hpos + 1 < LineClocks => along \in ScanState
  <2>1. along \in BeamState
    BY <1>1, <1>2, Zenon DEF BeamState
  <2>2. /\ along.hpos = b.hpos + 1 /\ along.vpos = b.vpos /\ along.frame_lines = b.frame_lines
        /\ along.lof = b.lof /\ along.lol = b.lol
        /\ along.lof_toggle = b.lof_toggle /\ along.lol_toggle = b.lol_toggle
    BY <1>1, Zenon DEF BeamState
  <2> QED
    BY <1>1, <2>1, <2>2, Zenon DEF ScanState
<1>6. /\ next \in BeamState
      /\ next.hpos = 0 /\ next.vpos = b.vpos + 1 /\ next.frame_lines = b.frame_lines
      /\ next.lof = b.lof /\ next.lol = lol
      /\ next.lof_toggle = b.lof_toggle /\ next.lol_toggle = b.lol_toggle
  BY <1>1, <1>2, Zenon DEF BeamState
<1>7. 0 < LineClocks /\ 0 < FrameLines
  OBVIOUS
<1>8. next.vpos < FrameLines => next \in ScanState
  BY <1>1, <1>2, <1>6, <1>7, Zenon DEF ScanState
<1> HIDE DEF next
<1>9. wrap \in ScanState
  <2>1. wrap \in BeamState
    BY <1>2, <1>6, Zenon DEF BeamState
  <2>2. /\ wrap.hpos = next.hpos /\ wrap.vpos = 0 /\ wrap.frame_lines = next.frame_lines
        /\ wrap.lof = lof /\ wrap.lol = next.lol
        /\ wrap.lof_toggle = next.lof_toggle /\ wrap.lol_toggle = next.lol_toggle
    BY <1>6, Zenon DEF BeamState
  <2> QED
    BY <1>1, <1>2, <1>6, <1>7, <2>1, <2>2, Zenon DEF ScanState
<1> HIDE DEF wrap, along
<1>10. c \in ScanState
  BY <1>4, <1>5, <1>8, <1>9, Zenon
<1> HIDE DEF c
<1> DEFINE d == [c EXCEPT !.frame_count = 0]
<1>11. d \in BeamState
  BY <1>2, <1>10, Zenon DEF ScanState, BeamState
<1>12. /\ d.hpos = c.hpos /\ d.vpos = c.vpos /\ d.frame_lines = c.frame_lines
       /\ d.lof = c.lof /\ d.lol = c.lol
       /\ d.lof_toggle = c.lof_toggle /\ d.lol_toggle = c.lol_toggle
  BY <1>10, Zenon DEF ScanState, BeamState
<1>13. d \in ScanState
  BY <1>10, <1>11, <1>12, Zenon DEF ScanState
<1> QED
  BY <1>13 DEF c

-----------------------------------------------------------------------------
(* Register writes.                                                        *)

LEMMA PointerTypes ==
    ASSUME NEW p \in Addresses
    PROVE  /\ \A v \in 0..1 : set_pointer_hi(p, v) \in Addresses
           /\ \A v \in 0..(HalfWord - 1) : set_pointer_lo(p, v) \in Addresses
<1>1. p \in Nat /\ p < 2 * HalfWord
  BY DEF Addresses
<1> DEFINE q == p \div HalfWord
           r == p % HalfWord
<1>2. q \in Nat /\ r \in 0..(HalfWord - 1) /\ p = HalfWord * q + r
  <2>1. p \in Int /\ HalfWord \in Nat \ {0}
    BY <1>1
  <2> QED
    BY <1>1, <2>1, DivMod
<1> HIDE DEF q, r
<1>3. q \in 0..1
  <2> SUFFICES ASSUME q >= 2 PROVE FALSE
    BY <1>2
  <2>1. HalfWord * q >= HalfWord * 2
    BY <1>2
  <2>2. HalfWord * q \in Nat
    BY <1>2
  <2> QED
    BY <1>1, <1>2, <2>1, <2>2
<1>4. \A v \in 0..1 : r + v * HalfWord \in Addresses
  BY <1>2 DEF Addresses
<1>5. \A v \in 0..(HalfWord - 1) : q * HalfWord + v \in Addresses
  <2> TAKE v \in 0..(HalfWord - 1)
  <2>1. CASE q = 0
    BY <2>1 DEF Addresses
  <2>2. CASE q = 1
    BY <2>2 DEF Addresses
  <2> QED
    BY <1>3, <2>1, <2>2
<1> QED
  BY <1>4, <1>5 DEF set_pointer_hi, set_pointer_lo, q, r

IsJump(reg) == reg \in {"COPJMP1", "COPJMP2"}

Target(c, reg) == IF reg = "COPJMP1" THEN c.cop1lc ELSE c.cop2lc

LEMMA CopChange ==
    ASSUME NEW m \in MachineState, NEW d \in CopperState, NEW r, r = [m EXCEPT !.cop = d]
    PROVE  /\ r \in MachineState /\ r.cop = d
           /\ r.blt_busy = m.blt_busy /\ r.dmacon = m.dmacon
BY Zenon DEF MachineState

(* What no write but a jump changes.                                       *)
SameControl(c, d) ==
    /\ d.pc = c.pc /\ d.waiting = c.waiting /\ d.fetch = c.fetch
    /\ d.event = c.event /\ d.wait = c.wait /\ d.wait_blitter = c.wait_blitter

(* What a register write can do to the Copper: a jump moves it, abandons a *)
(* WAIT and asks for an instruction; no other write touches its control.   *)
LEMMA WriteFacts ==
    ASSUME NEW m \in MachineState, NEW reg \in Regs, NEW value \in Operands(reg),
           NEW r, r = custom_regs_write(m, reg, value)
    PROVE  /\ r \in MachineState
           /\ r.cop.stopped = m.cop.stopped
           /\ reg # "COPCON" => r.cop.cdang = m.cop.cdang
           /\ reg # "BLTSIZE" => r.blt_busy = m.blt_busy
           /\ IsJump(reg) => /\ r.cop.pc = Target(m.cop, reg)
                             /\ ~r.cop.waiting /\ r.cop.fetch
           /\ ~IsJump(reg) => SameControl(m.cop, r.cop)
<1> DEFINE c == m.cop
           G == /\ r \in MachineState
                /\ r.cop.stopped = m.cop.stopped
                /\ reg # "COPCON" => r.cop.cdang = m.cop.cdang
                /\ reg # "BLTSIZE" => r.blt_busy = m.blt_busy
                /\ IsJump(reg) => /\ r.cop.pc = Target(m.cop, reg)
                                  /\ ~r.cop.waiting /\ r.cop.fetch
                /\ ~IsJump(reg) => SameControl(m.cop, r.cop)
<1> SUFFICES G
  OBVIOUS
<1>0. c \in CopperState /\ m.dmacon \in SUBSET Channels /\ m.blt_busy \in BOOLEAN
  BY Zenon DEF MachineState
<1>1. c.cop1lc \in Addresses /\ c.cop2lc \in Addresses
  BY <1>0, Zenon DEF CopperState
<1>2. CASE reg = "COPCON"
  <2> DEFINE d == [c EXCEPT !.cdang = value]
  <2>1. r = [m EXCEPT !.cop = d]
    BY <1>2, Zenon DEF custom_regs_write
  <2>2. value \in BOOLEAN
    BY <1>2 DEF Operands, Values
  <2>3. d \in CopperState /\ SameControl(c, d) /\ d.stopped = c.stopped
    BY <1>0, <2>2, Zenon DEF CopperState, SameControl
  <2> HIDE DEF d
  <2>4. r \in MachineState /\ r.cop = d /\ r.blt_busy = m.blt_busy
    BY <2>1, <2>3, CopChange
  <2>5. ~IsJump(reg)
    BY <1>2 DEF IsJump
  <2> QED
    BY <1>2, <2>3, <2>4, <2>5, Zenon
<1>3. CASE reg = "COP1LCH"
  <2> DEFINE d == [c EXCEPT !.cop1lc = set_pointer_hi(c.cop1lc, value)]
  <2>1. r = [m EXCEPT !.cop = d]
    BY <1>3, Zenon DEF custom_regs_write
  <2>2. set_pointer_hi(c.cop1lc, value) \in Addresses
    <3>1. value \in 0..1
      BY <1>3 DEF Operands, Values
    <3> QED
      BY <1>1, <3>1, PointerTypes
  <2>3. d \in CopperState /\ SameControl(c, d) /\ d.stopped = c.stopped /\ d.cdang = c.cdang
    BY <1>0, <2>2, Zenon DEF CopperState, SameControl
  <2> HIDE DEF d
  <2>4. r \in MachineState /\ r.cop = d /\ r.blt_busy = m.blt_busy
    BY <2>1, <2>3, CopChange
  <2>5. ~IsJump(reg)
    BY <1>3 DEF IsJump
  <2> QED
    BY <1>3, <2>3, <2>4, <2>5, Zenon
<1>4. CASE reg = "COP1LCL"
  <2> DEFINE d == [c EXCEPT !.cop1lc = set_pointer_lo(c.cop1lc, value)]
  <2>1. r = [m EXCEPT !.cop = d]
    BY <1>4, Zenon DEF custom_regs_write
  <2>2. set_pointer_lo(c.cop1lc, value) \in Addresses
    <3>1. value \in 0..(HalfWord - 1)
      BY <1>4 DEF Operands, Values
    <3> QED
      BY <1>1, <3>1, PointerTypes
  <2>3. d \in CopperState /\ SameControl(c, d) /\ d.stopped = c.stopped /\ d.cdang = c.cdang
    BY <1>0, <2>2, Zenon DEF CopperState, SameControl
  <2> HIDE DEF d
  <2>4. r \in MachineState /\ r.cop = d /\ r.blt_busy = m.blt_busy
    BY <2>1, <2>3, CopChange
  <2>5. ~IsJump(reg)
    BY <1>4 DEF IsJump
  <2> QED
    BY <1>4, <2>3, <2>4, <2>5, Zenon
<1>5. CASE reg = "COP2LCH"
  <2> DEFINE d == [c EXCEPT !.cop2lc = set_pointer_hi(c.cop2lc, value)]
  <2>1. r = [m EXCEPT !.cop = d]
    BY <1>5, Zenon DEF custom_regs_write
  <2>2. set_pointer_hi(c.cop2lc, value) \in Addresses
    <3>1. value \in 0..1
      BY <1>5 DEF Operands, Values
    <3> QED
      BY <1>1, <3>1, PointerTypes
  <2>3. d \in CopperState /\ SameControl(c, d) /\ d.stopped = c.stopped /\ d.cdang = c.cdang
    BY <1>0, <2>2, Zenon DEF CopperState, SameControl
  <2> HIDE DEF d
  <2>4. r \in MachineState /\ r.cop = d /\ r.blt_busy = m.blt_busy
    BY <2>1, <2>3, CopChange
  <2>5. ~IsJump(reg)
    BY <1>5 DEF IsJump
  <2> QED
    BY <1>5, <2>3, <2>4, <2>5, Zenon
<1>6. CASE reg = "COP2LCL"
  <2> DEFINE d == [c EXCEPT !.cop2lc = set_pointer_lo(c.cop2lc, value)]
  <2>1. r = [m EXCEPT !.cop = d]
    BY <1>6, Zenon DEF custom_regs_write
  <2>2. set_pointer_lo(c.cop2lc, value) \in Addresses
    <3>1. value \in 0..(HalfWord - 1)
      BY <1>6 DEF Operands, Values
    <3> QED
      BY <1>1, <3>1, PointerTypes
  <2>3. d \in CopperState /\ SameControl(c, d) /\ d.stopped = c.stopped /\ d.cdang = c.cdang
    BY <1>0, <2>2, Zenon DEF CopperState, SameControl
  <2> HIDE DEF d
  <2>4. r \in MachineState /\ r.cop = d /\ r.blt_busy = m.blt_busy
    BY <2>1, <2>3, CopChange
  <2>5. ~IsJump(reg)
    BY <1>6 DEF IsJump
  <2> QED
    BY <1>6, <2>3, <2>4, <2>5, Zenon
<1>7. CASE reg = "COPJMP1"
  <2> DEFINE d == copper_jump(c, c.cop1lc)
  <2>1. r = [m EXCEPT !.cop = d]
    BY <1>7, Zenon DEF custom_regs_write
  <2>2. /\ d \in CopperState /\ d.stopped = c.stopped /\ d.cdang = c.cdang
        /\ d.pc = c.cop1lc /\ ~d.waiting /\ d.fetch
    BY <1>0, <1>1, Zenon DEF CopperState, copper_jump
  <2> HIDE DEF d
  <2>3. r \in MachineState /\ r.cop = d /\ r.blt_busy = m.blt_busy
    BY <2>1, <2>2, CopChange
  <2>4. IsJump(reg) /\ Target(c, reg) = c.cop1lc
    BY <1>7 DEF IsJump, Target
  <2> QED
    BY <2>2, <2>3, <2>4, Zenon
<1>8. CASE reg = "COPJMP2"
  <2> DEFINE d == copper_jump(c, c.cop2lc)
  <2>1. r = [m EXCEPT !.cop = d]
    BY <1>8, Zenon DEF custom_regs_write
  <2>2. /\ d \in CopperState /\ d.stopped = c.stopped /\ d.cdang = c.cdang
        /\ d.pc = c.cop2lc /\ ~d.waiting /\ d.fetch
    BY <1>0, <1>1, Zenon DEF CopperState, copper_jump
  <2> HIDE DEF d
  <2>3. r \in MachineState /\ r.cop = d /\ r.blt_busy = m.blt_busy
    BY <2>1, <2>2, CopChange
  <2>4. IsJump(reg) /\ Target(c, reg) = c.cop2lc
    BY <1>8 DEF IsJump, Target
  <2> QED
    BY <2>2, <2>3, <2>4, Zenon
<1>9. CASE reg = "DMACON"
  <2> DEFINE dma == IF value.set THEN m.dmacon \cup value.bits ELSE m.dmacon \ value.bits
  <2>1. r = [m EXCEPT !.dmacon = dma]
    BY <1>9, Zenon DEF custom_regs_write
  <2>2. value \in [set: BOOLEAN, bits: SUBSET Channels]
    BY <1>9 DEF Operands
  <2>3. dma \in SUBSET Channels
    BY <1>0, <2>2, Zenon
  <2> HIDE DEF dma
  <2>4. r \in MachineState /\ r.cop = c /\ r.blt_busy = m.blt_busy
    BY <2>1, <2>3, Zenon DEF MachineState
  <2>5. ~IsJump(reg)
    BY <1>9 DEF IsJump
  <2> QED
    BY <2>4, <2>5, Zenon DEF SameControl
<1>10. CASE reg = "BLTSIZE"
  <2>1. r = [m EXCEPT !.blt_busy = TRUE]
    BY <1>10, Zenon DEF custom_regs_write
  <2>2. r \in MachineState /\ r.cop = c
    BY <2>1, Zenon DEF MachineState
  <2>3. ~IsJump(reg)
    BY <1>10 DEF IsJump
  <2> QED
    BY <1>10, <2>2, <2>3, Zenon DEF SameControl
<1>11. CASE reg = "COLOR"
  <2>1. r = m
    BY <1>11, Zenon DEF custom_regs_write
  <2>2. ~IsJump(reg)
    BY <1>11 DEF IsJump
  <2> QED
    BY <2>1, <2>2, Zenon DEF SameControl
<1> HIDE DEF G
<1> QED
  BY <1>2, <1>3, <1>4, <1>5, <1>6, <1>7, <1>8, <1>9, <1>10, <1>11 DEF Regs

-----------------------------------------------------------------------------
(* The WAIT comparison meets a WAIT exactly when the history says so.      *)
LEMMA CopperFields ==
    ASSUME NEW c \in CopperState
    PROVE  /\ c.cop1lc \in Addresses /\ c.cop2lc \in Addresses /\ c.pc \in Addresses
           /\ c.wait \in Compares({"WAIT"})
BY Zenon DEF CopperState

LEMMA MetExactly ==
    ASSUME CopInv
    PROVE  Met <=> /\ copper_enabled(dmacon) /\ cop.waiting
                   /\ ~ (cop.wait_blitter /\ blt_busy)
                   /\ copper_beam_cmp(beam, cop.wait)
<1>1. /\ cop \in CopperState /\ beam \in ScanState /\ Agrees(ram, cop, hist)
  BY Zenon DEF CopInv, TypeOK
<1> DEFINE w == ram[After(hist.due, 2 * HalfWord - 1)]
<1>2. Met <=> /\ hist.held /\ copper_enabled(dmacon) /\ Reached(beam, w)
              /\ VBits - 1 \in w.vm \/ ~ blt_busy
  BY Zenon DEF Met
<1> HIDE DEF w
<1>3. cop.waiting <=> hist.held
  BY <1>1, Zenon DEF Agrees
<1>4. CASE cop.waiting
  <2>1. hist.due = After(cop.pc, 1) /\ cop.wait = ram[cop.pc]
    BY <1>1, <1>4, Zenon DEF Agrees
  <2>2. cop.wait_blitter <=> VBits - 1 \notin cop.wait.vm
    BY <1>1, <1>4, Zenon DEF Agrees
  <2>3. w = cop.wait
    BY <1>1, <2>1, AfterFacts, CopperFields DEF w
  <2>4. cop.wait \in Compares({"WAIT", "SKIP"})
    <3>1. cop.wait \in Compares({"WAIT"})
      BY <1>1, CopperFields
    <3> QED
      BY <3>1, Zenon DEF Compares
  <2>5. copper_beam_cmp(beam, cop.wait) <=> Reached(beam, cop.wait)
    BY <1>1, <2>4, CompareIsReached
  <2> QED
    BY <1>2, <1>3, <1>4, <2>2, <2>3, <2>5, Zenon
<1>5. CASE ~cop.waiting
  BY <1>2, <1>3, <1>5, Zenon
<1> QED
  BY <1>4, <1>5

LEMMA ComparedFacts ==
    ASSUME CopInv
    PROVE  /\ Compared \in CopperState /\ WaitHistory \in HistState
           /\ Agrees(ram, Compared, WaitHistory)
           /\ stepping => Reports(Compared, WaitHistory)
           /\ Compared.stopped = cop.stopped /\ Compared.cdang = cop.cdang
           /\ Compared.cop1lc = cop.cop1lc /\ Compared.cop2lc = cop.cop2lc
           /\ WaitHistory.due = hist.due
<1>1. /\ cop \in CopperState /\ hist \in HistState /\ Agrees(ram, cop, hist)
      /\ stepping => Reports(cop, hist)
  BY Zenon DEF CopInv, TypeOK, HistState
<1> DEFINE h == WaitHistory
           held == hist.held /\ ~ Met
           worked == hist.worked \/ Met
<1>2. held \in BOOLEAN /\ worked \in BOOLEAN
  OBVIOUS
<1>3. h = [hist EXCEPT !.held = held, !.worked = worked]
  BY Zenon DEF WaitHistory
<1>4. h \in HistState /\ h.due = hist.due /\ h.held = held /\ h.worked = worked
  <2> HIDE DEF held, worked
  <2> QED
    BY <1>1, <1>2, <1>3, Zenon DEF HistState
<1> HIDE DEF h
<1>5. CASE Met
  <2> DEFINE d == [cop EXCEPT !.waiting = FALSE, !.wait_blitter = FALSE,
                              !.pc = After(cop.pc, 1), !.event = TRUE, !.fetch = TRUE]
  <2>1. /\ copper_enabled(dmacon) /\ cop.waiting
        /\ ~ (cop.wait_blitter /\ blt_busy)
        /\ copper_beam_cmp(beam, cop.wait)
    BY <1>5, MetExactly
  <2>2. Compared = d
    BY <2>1, Zenon DEF Compared, copper_domain_step
  <2>3. After(cop.pc, 1) \in Addresses
    BY <1>1, AfterFacts, CopperFields
  <2>4. /\ d \in CopperState /\ ~d.waiting /\ d.pc = After(cop.pc, 1) /\ d.event /\ d.fetch
        /\ d.stopped = cop.stopped /\ d.cdang = cop.cdang
        /\ d.cop1lc = cop.cop1lc /\ d.cop2lc = cop.cop2lc
    BY <1>1, <2>3, Zenon DEF CopperState
  <2> HIDE DEF d
  <2>5. ~h.held
    BY <1>4, <1>5, Zenon
  <2>6. hist.due = After(cop.pc, 1)
    BY <1>1, <2>1, Zenon DEF Agrees
  <2>7. Agrees(ram, d, h)
    BY <1>4, <2>4, <2>5, <2>6, Zenon DEF Agrees
  <2> QED
    BY <1>4, <2>2, <2>4, <2>7, Zenon DEF Reports, h
<1>6. CASE ~Met
  <2>1. Compared = cop
    BY <1>6, MetExactly, Zenon DEF Compared, copper_domain_step
  <2>2. (h.held <=> hist.held) /\ (h.worked <=> hist.worked)
    BY <1>4, <1>6, Zenon
  <2>3. Agrees(ram, cop, h)
    BY <1>1, <1>4, <2>2, Zenon DEF Agrees
  <2>4. stepping => Reports(cop, h)
    BY <1>1, <2>2, Zenon DEF Reports
  <2> QED
    BY <1>1, <1>4, <2>1, <2>3, <2>4, Zenon DEF h
<1> QED
  BY <1>5, <1>6

-----------------------------------------------------------------------------
LEMMA InstructionKinds ==
    ASSUME NEW ir \in Instructions
    PROVE  \/ ir.op = "MOVE" /\ ir.reg \in Regs /\ ir.value \in Operands(ir.reg)
           \/ ir.op = "WAIT" /\ ir \in Compares({"WAIT"})
           \/ ir.op = "SKIP" /\ ir \in Compares({"WAIT", "SKIP"})
<1>1. ASSUME NEW reg \in Regs, NEW value \in Operands(reg), ir = Move(reg, value)
      PROVE  ir.op = "MOVE" /\ ir.reg \in Regs /\ ir.value \in Operands(ir.reg)
  <2>1. ir.op = "MOVE" /\ ir.reg = reg /\ ir.value = value
    BY <1>1, Zenon DEF Move
  <2> QED
    BY <1>1, <2>1, Zenon
<1>2. ASSUME ir \in Compares({"WAIT", "SKIP"})
      PROVE  \/ ir.op = "WAIT" /\ ir \in Compares({"WAIT"})
             \/ ir.op = "SKIP" /\ ir \in Compares({"WAIT", "SKIP"})
  BY <1>2 DEF Compares
<1>3. ir \in AllMoves => \E reg \in Regs : \E value \in Operands(reg) : ir = Move(reg, value)
  BY DEF AllMoves
<1>4. ir \in AllMoves \/ ir \in Compares({"WAIT", "SKIP"})
  BY Zenon DEF Instructions
<1> QED
  BY <1>1, <1>2, <1>3, <1>4, Zenon

(* One instruction: what the Copper does is what the history records.      *)
LEMMA FetchFacts ==
    ASSUME CopInv, Compared.fetch, ~Compared.stopped, NEW r,
           r = step_program([Machine EXCEPT !.cop = Compared], beam)
    PROVE  /\ r \in MachineState /\ FetchHistory \in HistState
           /\ Agrees(ram, r.cop, FetchHistory)
           /\ stepping => Reports(r.cop, FetchHistory)
           /\ r.cop.cdang = cop.cdang
           /\ r.blt_busy => blt_busy \/ cop.cdang
<1> DEFINE c == Compared
           h == WaitHistory
           m == [Machine EXCEPT !.cop = c]
           n == [m EXCEPT !.cop = [m.cop EXCEPT !.fetch = FALSE]]
           ir == ram[hist.due]
           nc == [c EXCEPT !.fetch = FALSE]
<1>1. /\ c \in CopperState /\ h \in HistState /\ Agrees(ram, c, h)
      /\ stepping => Reports(c, h)
      /\ c.cdang = cop.cdang /\ c.cop1lc = cop.cop1lc /\ c.cop2lc = cop.cop2lc
      /\ h.due = hist.due
  BY ComparedFacts, Zenon
<1>2. /\ ram \in [Addresses -> Instructions] /\ hist.due \in Addresses
      /\ Machine \in MachineState /\ Machine.blt_busy = blt_busy /\ beam \in ScanState
  BY Zenon DEF CopInv, TypeOK, Machine, MachineState
<1>3. /\ m \in MachineState /\ m.cop = c /\ m.blt_busy = blt_busy
  <2> HIDE DEF c
  <2> QED
    BY <1>1, <1>2, CopChange
<1>4. c.fetch /\ ~c.stopped /\ ~c.waiting /\ ~h.held /\ c.pc = hist.due
  BY <1>1, Zenon DEF Agrees
<1> HIDE DEF c, h
<1>5. /\ nc \in CopperState /\ ~nc.fetch /\ ~nc.stopped /\ ~nc.waiting /\ nc.pc = hist.due
      /\ nc.cdang = c.cdang /\ nc.event = c.event
      /\ nc.cop1lc = c.cop1lc /\ nc.cop2lc = c.cop2lc
  BY <1>1, <1>4, Zenon DEF CopperState
<1>6. n = [m EXCEPT !.cop = nc]
  BY <1>3, Zenon
<1> HIDE DEF nc, m, n
<1>7. n \in MachineState /\ n.cop = nc /\ n.blt_busy = blt_busy
  BY <1>3, <1>5, <1>6, CopChange
<1>8. ir \in Instructions /\ ir = ram[m.cop.pc]
  BY <1>2, <1>3, <1>4
<1>9. After(hist.due, 1) \in Addresses /\ After(hist.due, 2) \in Addresses
      /\ After(After(hist.due, 1), 1) = After(hist.due, 2)
  BY <1>2, AfterFacts
<1>10. \/ ir.op = "MOVE" /\ ir.reg \in Regs /\ ir.value \in Operands(ir.reg)
       \/ ir.op = "WAIT" /\ ir \in Compares({"WAIT"})
       \/ ir.op = "SKIP" /\ ir \in Compares({"WAIT", "SKIP"})
  BY <1>8, InstructionKinds
<1> HIDE DEF ir
<1>11. /\ ir.op = "SKIP" =>
            r = [n EXCEPT !.cop.pc = After(@, IF copper_beam_cmp(beam, ir) THEN 2 ELSE 1),
                          !.cop.fetch = TRUE]
       /\ ir.op = "WAIT" => r = [n EXCEPT !.cop = copper_wait_arm(@, ir)]
       /\ ir.op = "MOVE" =>
            r = IF copper_exec_move(n, ir).cop.stopped THEN copper_exec_move(n, ir)
                ELSE [copper_move_advance(copper_exec_move(n, ir), m.cop.pc)
                        EXCEPT !.cop.event = TRUE, !.cop.fetch = TRUE]
  <2>1. r = step_program(m, beam)
    BY DEF m, c
  <2>2. step_program(m, beam) =
          CASE ir.op = "SKIP" ->
                 [n EXCEPT !.cop.pc = After(@, IF copper_beam_cmp(beam, ir) THEN 2 ELSE 1),
                           !.cop.fetch = TRUE]
            [] ir.op = "WAIT" -> [n EXCEPT !.cop = copper_wait_arm(@, ir)]
            [] ir.op = "MOVE" ->
                 IF copper_exec_move(n, ir).cop.stopped THEN copper_exec_move(n, ir)
                 ELSE [copper_move_advance(copper_exec_move(n, ir), m.cop.pc)
                         EXCEPT !.cop.event = TRUE, !.cop.fetch = TRUE]
    BY <1>8, Zenon DEF step_program, n
  <2> QED
    BY <2>1, <2>2
<1> DEFINE G == /\ r \in MachineState /\ FetchHistory \in HistState
                /\ Agrees(ram, r.cop, FetchHistory)
                /\ stepping => Reports(r.cop, FetchHistory)
                /\ r.cop.cdang = cop.cdang
                /\ r.blt_busy => blt_busy \/ cop.cdang
<1> SUFFICES G
  OBVIOUS
<1>12. CASE ir.op = "SKIP" /\ ir \in Compares({"WAIT", "SKIP"})
  <2> DEFINE far == copper_beam_cmp(beam, ir)
             a == After(hist.due, IF far THEN 2 ELSE 1)
             d == [nc EXCEPT !.pc = a, !.fetch = TRUE]
             f == [h EXCEPT !.due = a]
  <2>1. far <=> Reached(beam, ir)
    BY <1>2, <1>12, CompareIsReached
  <2>2. a \in Addresses /\ a = IF Reached(beam, ir) THEN After(After(hist.due, 1), 1)
                               ELSE After(hist.due, 1)
    BY <1>9, <2>1, Zenon
  <2>3. r = [n EXCEPT !.cop = d]
    BY <1>5, <1>7, <1>11, <1>12, ZenonT(60)
  <2>4. FetchHistory = f
    <3>1. ir.op # "WAIT" /\ ir.op # "MOVE"
      BY <1>12
    <3> QED
      BY <1>12, <2>2, <3>1, Zenon DEF FetchHistory, ir, h
  <2> HIDE DEF a, far
  <2>5. /\ d \in CopperState /\ d.fetch /\ ~d.waiting /\ d.pc = a /\ d.cdang = nc.cdang
        /\ d.event = nc.event
    BY <1>5, <2>2, Zenon DEF CopperState
  <2>6. f \in HistState /\ f.due = a /\ f.held = h.held /\ f.worked = h.worked
    BY <1>1, <2>2, Zenon DEF HistState
  <2> HIDE DEF d, f
  <2>7. r \in MachineState /\ r.cop = d /\ r.blt_busy = blt_busy
    BY <1>7, <2>3, <2>5, CopChange
  <2>8. Agrees(ram, d, f)
    BY <1>4, <2>5, <2>6, Zenon DEF Agrees
  <2>9. stepping => Reports(d, f)
    BY <1>1, <1>5, <2>5, <2>6, Zenon DEF Reports
  <2> QED
    BY <1>1, <1>5, <2>4, <2>5, <2>6, <2>7, <2>8, <2>9, Zenon
<1>13. CASE ir.op = "WAIT" /\ ir \in Compares({"WAIT"})
  <2> DEFINE d == copper_wait_arm(nc, ir)
             f == [h EXCEPT !.due = After(hist.due, 1), !.held = TRUE]
             bfd == VBits - 1 \notin ir.vm
             last == ir = EndOfList
  <2>1. r = [n EXCEPT !.cop = d]
    BY <1>7, <1>11, <1>13, Zenon
  <2>2. FetchHistory = f
    <3>1. ir.op # "SKIP" /\ ir.op # "MOVE"
      BY <1>13
    <3> QED
      BY <1>13, <3>1, Zenon DEF FetchHistory, ir, h
  <2>3. bfd \in BOOLEAN /\ last \in BOOLEAN
    OBVIOUS
  <2>4. d = [nc EXCEPT !.wait = ir, !.waiting = TRUE, !.wait_blitter = bfd, !.stopped = last]
    BY Zenon DEF copper_wait_arm
  <2> HIDE DEF bfd, last
  <2>5. /\ d \in CopperState /\ d.fetch = nc.fetch /\ d.waiting /\ d.pc = nc.pc
        /\ d.cdang = nc.cdang /\ d.event = nc.event /\ d.wait = ir /\ d.wait_blitter = bfd
    BY <1>5, <1>13, <2>3, <2>4, Zenon DEF CopperState
  <2>6. f \in HistState /\ f.due = After(hist.due, 1) /\ f.held /\ f.worked = h.worked
    BY <1>1, <1>9, Zenon DEF HistState
  <2> HIDE DEF d, f
  <2>7. r \in MachineState /\ r.cop = d /\ r.blt_busy = blt_busy
    BY <1>7, <2>1, <2>5, CopChange
  <2>8. Agrees(ram, d, f)
    <3>1. d.wait = ram[d.pc]
      BY <1>5, <2>5, Zenon DEF ir
    <3> QED
      BY <1>5, <2>5, <2>6, <3>1, Zenon DEF Agrees, bfd
  <2>9. stepping => Reports(d, f)
    BY <1>1, <1>5, <2>5, <2>6, Zenon DEF Reports
  <2> QED
    BY <1>1, <1>5, <2>2, <2>5, <2>6, <2>7, <2>8, <2>9, Zenon
<1>14. CASE ir.op = "MOVE" /\ ir.reg \in Regs /\ ir.value \in Operands(ir.reg)
  <2> DEFINE done == copper_exec_move(n, ir)
  <2>1. r = IF done.cop.stopped THEN done
            ELSE [copper_move_advance(done, hist.due) EXCEPT !.cop.event = TRUE, !.cop.fetch = TRUE]
    BY <1>3, <1>4, <1>11, <1>14, Zenon
  <2>2. copper_forbidden(nc, ir.reg) <=> copper_forbidden(cop, ir.reg)
    BY <1>1, <1>5, Zenon DEF copper_forbidden
  <2>3. CASE copper_forbidden(cop, ir.reg)
    <3> DEFINE d == [nc EXCEPT !.waiting = FALSE, !.fetch = FALSE, !.stopped = TRUE]
    <3>1. done = [n EXCEPT !.cop = d]
      BY <1>7, <2>2, <2>3, Zenon DEF copper_exec_move
    <3>2. /\ d \in CopperState /\ d.stopped /\ ~d.waiting /\ ~d.fetch
          /\ d.cdang = nc.cdang /\ d.event = nc.event
      BY <1>5, Zenon DEF CopperState
    <3> HIDE DEF d, done
    <3>3. done \in MachineState /\ done.cop = d /\ done.blt_busy = blt_busy
      BY <1>7, <3>1, <3>2, CopChange
    <3>4. r = done
      BY <2>1, <3>2, <3>3, Zenon
    <3>5. FetchHistory = h
      BY <1>14, <2>3, Zenon DEF FetchHistory, ir, h
    <3>6. Agrees(ram, d, h)
      BY <1>4, <3>2, Zenon DEF Agrees
    <3>7. stepping => Reports(d, h)
      BY <1>1, <1>5, <3>2, Zenon DEF Reports
    <3> QED
      BY <1>1, <1>5, <3>2, <3>3, <3>4, <3>5, <3>6, <3>7, Zenon
  <2>4. CASE ~copper_forbidden(cop, ir.reg)
    <3> DEFINE adv == copper_move_advance(done, hist.due)
               e == adv.cop
               d == [e EXCEPT !.event = TRUE, !.fetch = TRUE]
               to == JumpTarget(ir)
               f == [h EXCEPT !.worked = TRUE,
                              !.due = IF to = hist.due THEN After(hist.due, 1) ELSE to]
    <3>1. done = custom_regs_write(n, ir.reg, ir.value)
      BY <2>2, <2>4, <1>7, Zenon DEF copper_exec_move
    <3> HIDE DEF done
    <3>2. /\ done \in MachineState /\ done.cop.stopped = nc.stopped
          /\ ir.reg # "COPCON" => done.cop.cdang = nc.cdang
          /\ ir.reg # "BLTSIZE" => done.blt_busy = blt_busy
          /\ IsJump(ir.reg) => done.cop.pc = Target(nc, ir.reg) /\ ~done.cop.waiting
          /\ ~IsJump(ir.reg) => SameControl(nc, done.cop)
      BY <1>7, <1>14, <3>1, WriteFacts
    <3>3. ir.reg # "COPCON" /\ (ir.reg = "BLTSIZE" => cop.cdang)
      BY <2>4, Zenon DEF copper_forbidden
    <3>4. ~done.cop.stopped /\ ~done.cop.waiting
      BY <1>5, <3>2, Zenon DEF SameControl
    <3>5. r = [adv EXCEPT !.cop = d]
      BY <2>1, <3>4, Zenon
    <3>6. done.cop.pc = IF IsJump(ir.reg) THEN Target(nc, ir.reg) ELSE hist.due
      BY <1>5, <3>2, Zenon DEF SameControl
    <3>7. to = IF IsJump(ir.reg) THEN Target(nc, ir.reg) ELSE After(hist.due, 1)
      <4>1. CASE ir.reg = "COPJMP1"
        BY <1>1, <1>5, <4>1, Zenon DEF JumpTarget, IsJump, Target
      <4>2. CASE ir.reg = "COPJMP2"
        BY <1>1, <1>5, <4>2 DEF JumpTarget, IsJump, Target
      <4>3. CASE ir.reg # "COPJMP1" /\ ir.reg # "COPJMP2"
        BY <4>3, Zenon DEF JumpTarget, IsJump
      <4> QED
        BY <4>1, <4>2, <4>3
    <3>8. adv \in MachineState /\ adv.blt_busy = done.blt_busy /\ e.stopped = done.cop.stopped
          /\ e.cdang = done.cop.cdang /\ e.waiting = done.cop.waiting
          /\ e.pc = IF to = hist.due THEN After(hist.due, 1) ELSE to
      <4> DEFINE dc == done.cop
      <4>0. dc \in CopperState
        BY <3>2, Zenon DEF MachineState
      <4>1. CASE dc.pc = hist.due
        <5> DEFINE ec == [dc EXCEPT !.pc = After(dc.pc, 1)]
        <5>1. adv = [done EXCEPT !.cop = ec]
          BY <4>1, Zenon DEF copper_move_advance
        <5>2. /\ ec \in CopperState /\ ec.pc = After(hist.due, 1) /\ ec.stopped = dc.stopped
              /\ ec.cdang = dc.cdang /\ ec.waiting = dc.waiting
          BY <1>9, <4>0, <4>1, Zenon DEF CopperState
        <5> HIDE DEF ec, adv
        <5>3. adv \in MachineState /\ adv.cop = ec /\ adv.blt_busy = done.blt_busy
          BY <3>2, <5>1, <5>2, CopChange
        <5>4. After(hist.due, 1) = IF to = hist.due THEN After(hist.due, 1) ELSE to
          BY <3>6, <3>7, <4>1, Zenon
        <5> QED
          BY <5>2, <5>3, <5>4, Zenon
      <4>2. CASE dc.pc # hist.due
        <5>1. adv = done
          BY <4>2, Zenon DEF copper_move_advance
        <5>2. to = dc.pc
          BY <3>6, <3>7, <4>2, Zenon
        <5> QED
          BY <3>2, <4>2, <5>1, <5>2, Zenon
      <4> QED
        BY <4>1, <4>2
    <3> HIDE DEF adv
    <3>9. e \in CopperState
      BY <3>8, Zenon DEF MachineState
    <3> HIDE DEF e, to
    <3>10. /\ d \in CopperState /\ d.fetch /\ d.event /\ d.pc = e.pc /\ d.waiting = e.waiting
           /\ d.cdang = e.cdang /\ d.stopped = e.stopped
      BY <3>9, Zenon DEF CopperState
    <3>11. e.pc \in Addresses
      BY <3>9, CopperFields
    <3>12. f = [h EXCEPT !.worked = TRUE, !.due = e.pc]
      BY <3>8, Zenon
    <3>13. FetchHistory = f
      <4>1. ir.op # "WAIT" /\ ir.op # "SKIP"
        BY <1>14
      <4> QED
        BY <1>14, <2>4, <4>1, Zenon DEF FetchHistory, ir, h, to
    <3>14. f \in HistState /\ f.due = e.pc /\ f.held = h.held
      BY <1>1, <3>11, <3>12, Zenon DEF HistState
    <3> HIDE DEF d, f
    <3>15. r \in MachineState /\ r.cop = d /\ r.blt_busy = adv.blt_busy
      BY <3>5, <3>8, <3>10, CopChange
    <3>16. Agrees(ram, d, f)
      BY <1>4, <3>4, <3>8, <3>10, <3>14, Zenon DEF Agrees
    <3>17. stepping => Reports(d, f)
      BY <3>10, Zenon DEF Reports
    <3>18. r.blt_busy => blt_busy \/ cop.cdang
      BY <3>2, <3>3, <3>8, <3>15, Zenon
    <3>19. r.cop.cdang = cop.cdang
      BY <1>1, <1>5, <3>2, <3>3, <3>8, <3>10, <3>15, Zenon
    <3> QED
      BY <3>13, <3>14, <3>15, <3>16, <3>17, <3>18, <3>19, Zenon
  <2> QED
    BY <2>3, <2>4
<1> HIDE DEF G
<1> QED
  BY <1>10, <1>12, <1>13, <1>14, Zenon

-----------------------------------------------------------------------------
(* The rest of a clock, VERTB included, keeps the agreement.               *)
LEMMA EndClockKeeps ==
    ASSUME CopInv, NEW m \in MachineState, NEW h \in HistState,
           Agrees(ram, m.cop, h), stepping => Reports(m.cop, h), EndClock(m, h)
    PROVE  CopInv'
<1> DEFINE b == [beam_step1(beam) EXCEPT !.frame_count = 0]
           reload == at_vertb(b) /\ copper_enabled(m.dmacon)
           c == m.cop
           v == copper_vbl_reload(c)
           g == [due |-> c.cop1lc, held |-> FALSE, worked |-> FALSE]
           there == c.cop1lc # 0
<1>1. /\ beam' = b
      /\ cop' = IF reload THEN v ELSE c
      /\ hist' = IF reload THEN g ELSE h
      /\ dmacon' = m.dmacon /\ blt_busy' = m.blt_busy
      /\ ram' = ram /\ stepping' = stepping /\ writes' = writes
  BY Zenon DEF EndClock
<1>2. /\ c \in CopperState /\ m.dmacon \in SUBSET Channels /\ m.blt_busy \in BOOLEAN
  BY Zenon DEF MachineState
<1>3. b \in ScanState
  BY ScanMoves DEF CopInv
<1> HIDE DEF b, reload
<1>4. c.cop1lc \in Addresses /\ there \in BOOLEAN
  BY <1>2, CopperFields
<1>5. v = [c EXCEPT !.pc = c.cop1lc, !.waiting = FALSE, !.wait_blitter = FALSE,
                    !.stopped = FALSE, !.fetch = there, !.event = FALSE]
  BY Zenon DEF copper_vbl_reload
<1> HIDE DEF v, there
<1>6. v \in CopperState /\ v.pc = c.cop1lc /\ ~v.waiting
  BY <1>2, <1>4, <1>5, Zenon DEF CopperState
<1>7. g \in HistState /\ g.due = c.cop1lc /\ ~g.held /\ ~g.worked
  BY <1>4, Zenon DEF HistState
<1> HIDE DEF g, c
<1>8. cop' \in CopperState /\ hist' \in HistState
  BY <1>1, <1>2, <1>6, <1>7, Zenon
<1>9. Agrees(ram', cop', hist')
  <2>1. Agrees(ram, v, g)
    BY <1>6, <1>7, Zenon DEF Agrees
  <2>2. Agrees(ram, c, h)
    BY DEF c
  <2> QED
    BY <1>1, <2>1, <2>2, Zenon
<1>10. stepping' => Reports(cop', hist')
  <2>1. Reports(v, g)
    BY <1>7, Zenon DEF Reports
  <2>2. stepping => Reports(c, h)
    BY DEF c
  <2> QED
    BY <1>1, <2>1, <2>2, Zenon
<1>11. TypeOK'
  <2>1. beam' \in BeamState /\ beam'.hpos < LineClocks /\ beam'.vpos < FrameLines
    BY <1>1, <1>3, Zenon DEF ScanState
  <2>2. hist' \in [due: Addresses, held: BOOLEAN, worked: BOOLEAN]
    BY <1>8 DEF HistState
  <2>3. dmacon' \subseteq Channels /\ blt_busy' \in BOOLEAN
    BY <1>1, <1>2, Zenon
  <2> QED
    BY <1>1, <1>8, <2>1, <2>2, <2>3, Zenon DEF TypeOK, CopInv
<1> QED
  BY <1>1, <1>3, <1>9, <1>10, <1>11, Zenon DEF CopInv

(* A clock keeps the invariant, and lends no privilege.                    *)
LEMMA ClockKeeps ==
    ASSUME CopInv, Clock
    PROVE  /\ CopInv'
           /\ cop'.cdang = cop.cdang /\ (blt_busy' => blt_busy \/ cop.cdang)
<1> DEFINE m == [Machine EXCEPT !.cop = Compared]
           n(ends) == [Machine EXCEPT !.cop = Compared, !.blt_busy = ~ ends]
<1>1. /\ Compared \in CopperState /\ WaitHistory \in HistState
      /\ Agrees(ram, Compared, WaitHistory)
      /\ stepping => Reports(Compared, WaitHistory)
      /\ Compared.stopped = cop.stopped /\ Compared.cdang = cop.cdang
  BY ComparedFacts, Zenon
<1>2. Machine \in MachineState /\ Machine.blt_busy = blt_busy
  BY Zenon DEF CopInv, TypeOK, Machine, MachineState
<1>3. m \in MachineState /\ m.cop = Compared /\ m.blt_busy = blt_busy
  BY <1>1, <1>2, CopChange
<1> HIDE DEF m
<1>4. ASSUME NEW x \in MachineState, NEW h, EndClock(x, h), x.cop.cdang = cop.cdang,
             x.blt_busy => blt_busy \/ cop.cdang
      PROVE  cop'.cdang = cop.cdang /\ (blt_busy' => blt_busy \/ cop.cdang)
  <2>1. x.cop \in CopperState
    BY Zenon DEF MachineState
  <2> DEFINE there == x.cop.cop1lc # 0
  <2>2. copper_vbl_reload(x.cop).cdang = x.cop.cdang
    BY <2>1, Zenon DEF CopperState, copper_vbl_reload
  <2>3. cop' = copper_vbl_reload(x.cop) \/ cop' = x.cop
    BY <1>4, Zenon DEF EndClock
  <2>4. blt_busy' = x.blt_busy
    BY <1>4, Zenon DEF EndClock
  <2> QED
    BY <1>4, <2>2, <2>3, <2>4, Zenon
<1>5. ASSUME EndClock(m, WaitHistory)
      PROVE  /\ CopInv'
             /\ cop'.cdang = cop.cdang /\ (blt_busy' => blt_busy \/ cop.cdang)
  <2>1. CopInv'
    BY <1>1, <1>3, <1>5, EndClockKeeps
  <2> QED
    BY <1>1, <1>3, <1>4, <1>5, <2>1, Zenon
<1>6. CASE CopperSlot
  <2>1. CASE Compared.stopped
    BY <1>5, <1>6, <2>1, Zenon DEF CopperSlot, m
  <2>2. CASE ~Compared.stopped
    <3> DEFINE r == step_program(m, beam)
    <3>1. Compared.fetch /\ EndClock(r, FetchHistory)
      BY <1>6, <2>2, Zenon DEF CopperSlot, CopperRequest, m
    <3> HIDE DEF r
    <3>2. r = step_program([Machine EXCEPT !.cop = Compared], beam)
      BY DEF r, m
    <3>3. /\ r \in MachineState /\ FetchHistory \in HistState
          /\ Agrees(ram, r.cop, FetchHistory)
          /\ stepping => Reports(r.cop, FetchHistory)
          /\ r.cop.cdang = cop.cdang
          /\ r.blt_busy => blt_busy \/ cop.cdang
      BY <2>2, <3>1, <3>2, FetchFacts, Zenon
    <3>4. CopInv'
      BY <3>1, <3>3, EndClockKeeps
    <3> QED
      BY <1>4, <3>1, <3>3, <3>4, Zenon
  <2> QED
    BY <2>1, <2>2
<1>7. ASSUME NEW ends \in BOOLEAN, BlitterSlot(ends)
      PROVE  /\ CopInv'
             /\ cop'.cdang = cop.cdang /\ (blt_busy' => blt_busy \/ cop.cdang)
  <2> DEFINE x == n(ends)
             busy == ~ ends
  <2>0. busy \in BOOLEAN
    OBVIOUS
  <2>1. EndClock(x, WaitHistory) /\ blt_busy
    BY <1>7, Zenon DEF BlitterSlot, BlitterActive
  <2>2. x = [Machine EXCEPT !.cop = Compared, !.blt_busy = busy]
    BY Zenon
  <2> HIDE DEF x, busy
  <2>3. x \in MachineState /\ x.cop = Compared
    BY <1>1, <1>2, <2>0, <2>2, Zenon DEF MachineState
  <2>4. CopInv'
    BY <1>1, <2>1, <2>3, EndClockKeeps
  <2> QED
    BY <1>1, <1>4, <2>1, <2>3, <2>4, Zenon
<1>8. CASE OtherSlot
  BY <1>5, <1>8, Zenon DEF OtherSlot, m
<1> QED
  BY <1>6, <1>7, <1>8 DEF Clock

-----------------------------------------------------------------------------
LEMMA InitCop == Init => CopInv
<1> SUFFICES ASSUME Init PROVE CopInv
  OBVIOUS
<1> USE DEF Init
<1>1. PICK p1 \in Pointers, p2 \in Pointers :
        cop = [copper_reset EXCEPT !.cop1lc = p1, !.cop2lc = p2]
  OBVIOUS
<1>2. p1 \in Addresses /\ p2 \in Addresses /\ 0 \in Addresses
  BY DEF Addresses
<1> DEFINE w == Wait(0, 0, VFull, HFull)
<1>3. w \in Compares({"WAIT"})
  <2>1. 0 \in 0..(2^VBits - 1) /\ 0 \in 0..(2^HBits - 1)
    BY MaskAssumption
  <2> QED
    BY <2>1, Zenon DEF Wait, Compares
<1> HIDE DEF w
<1>4. cop \in CopperState /\ ~cop.waiting /\ ~cop.fetch
  <2>1. copper_reset \in CopperState /\ ~copper_reset.waiting /\ ~copper_reset.fetch
    BY <1>2, <1>3, Zenon DEF copper_reset, CopperState, w
  <2> HIDE DEF Init
  <2> QED
    BY <1>1, <1>2, <2>1, Zenon DEF CopperState
<1>5. hist \in HistState /\ ~hist.held /\ ~hist.worked
  BY <1>2, Zenon DEF HistState
<1>6. beam \in ScanState
  <2>1. FrameLines \in Nat \ {0} /\ 0 \in Nat /\ 0 < LineClocks /\ 0 < FrameLines
    OBVIOUS
  <2>2. beam \in BeamState
    BY <2>1, Zenon DEF beam_reset, BeamState
  <2>3. /\ beam.hpos = 0 /\ beam.vpos = 0 /\ beam.frame_lines = FrameLines
        /\ ~beam.lof /\ ~beam.lol /\ ~beam.lof_toggle /\ ~beam.lol_toggle
    BY Zenon DEF beam_reset
  <2> QED
    BY <2>1, <2>2, <2>3, Zenon DEF ScanState
<1>7. TypeOK
  <2>1. ram \in [Addresses -> Instructions]
    OBVIOUS
  <2>2. beam \in BeamState /\ beam.hpos < LineClocks /\ beam.vpos < FrameLines
    BY <1>6, Zenon DEF ScanState
  <2>3. hist \in [due: Addresses, held: BOOLEAN, worked: BOOLEAN]
    BY <1>5 DEF HistState
  <2>4. dmacon \subseteq Channels /\ blt_busy \in BOOLEAN /\ stepping \in BOOLEAN
    BY Zenon
  <2>5. writes \in 0..MaxWrites
    OBVIOUS
  <2> QED
    BY <1>4, <2>1, <2>2, <2>3, <2>4, <2>5, Zenon DEF TypeOK
<1>8. Agrees(ram, cop, hist)
  BY <1>4, <1>5, Zenon DEF Agrees
<1>9. Reports(cop, hist)
  BY <1>5, Zenon DEF Reports
<1> QED
  BY <1>6, <1>7, <1>8, <1>9, Zenon DEF CopInv

LEMMA GuestKeeps ==
    ASSUME CopInv, NEW reg \in GuestRegs, NEW value \in Values(reg), GuestWrite(reg, value)
    PROVE  CopInv'
<1> DEFINE m == custom_regs_write(Machine, reg, value)
           jump == [hist EXCEPT !.due = m.cop.pc, !.held = FALSE]
<1>1. /\ ~ stepping /\ writes < MaxWrites /\ writes' = writes + 1
      /\ cop' = m.cop /\ dmacon' = m.dmacon /\ blt_busy' = m.blt_busy
      /\ hist' = IF IsJump(reg) THEN jump ELSE hist
      /\ ram' = ram /\ beam' = beam /\ stepping' = stepping
  BY Zenon DEF GuestWrite, IsJump
<1>2. Machine \in MachineState /\ Machine.cop = cop
  BY Zenon DEF CopInv, TypeOK, Machine, MachineState
<1>3. reg \in Regs /\ value \in Operands(reg)
  <2>1. reg \in Regs
    OBVIOUS
  <2>2. CASE reg = "DMACON"
    <3>1. value \in [set: BOOLEAN, bits: {{"COPEN"}, {"BLTEN"}}]
      BY <2>2 DEF Values
    <3>2. {{"COPEN"}, {"BLTEN"}} \subseteq SUBSET Channels
      BY DEF Channels
    <3>3. value \in [set: BOOLEAN, bits: SUBSET Channels]
      BY <3>1, <3>2, Zenon
    <3> QED
      BY <2>1, <2>2, <3>3, Zenon DEF Operands
  <2>3. CASE reg # "DMACON"
    BY <2>1, <2>3, Zenon DEF Operands
  <2> QED
    BY <2>2, <2>3
<1> HIDE DEF m
<1>4. /\ m \in MachineState
      /\ IsJump(reg) => ~m.cop.waiting /\ m.cop.fetch
      /\ ~IsJump(reg) => SameControl(cop, m.cop)
      /\ m.cop.stopped = cop.stopped
  <2>1. m = custom_regs_write(Machine, reg, value)
    BY DEF m
  <2>2. /\ m \in MachineState
        /\ IsJump(reg) => ~m.cop.waiting /\ m.cop.fetch
        /\ ~IsJump(reg) => SameControl(Machine.cop, m.cop)
        /\ m.cop.stopped = Machine.cop.stopped
    BY <1>2, <1>3, <2>1, WriteFacts
  <2> QED
    BY <1>2, <2>2, Zenon
<1>5. /\ m.cop \in CopperState /\ m.dmacon \subseteq Channels /\ m.blt_busy \in BOOLEAN
  BY <1>4, Zenon DEF MachineState
<1>6. /\ hist \in HistState /\ Agrees(ram, cop, hist)
  BY Zenon DEF CopInv, TypeOK, HistState
<1>7. jump \in HistState /\ jump.due = m.cop.pc /\ ~jump.held
  <2>1. m.cop.pc \in Addresses
    BY <1>5, CopperFields
  <2> QED
    BY <1>6, <2>1, Zenon DEF HistState
<1> HIDE DEF jump
<1>8. Agrees(ram', cop', hist')
  <2>1. CASE IsJump(reg)
    BY <1>1, <1>4, <1>7, <2>1, Zenon DEF Agrees
  <2>2. CASE ~IsJump(reg)
    BY <1>1, <1>4, <1>6, <2>2, Zenon DEF Agrees, SameControl
  <2> QED
    BY <2>1, <2>2
<1>9. TypeOK'
  <2>1. writes' \in 0..MaxWrites
    BY <1>1 DEF CopInv, TypeOK
  <2>2. hist' \in [due: Addresses, held: BOOLEAN, worked: BOOLEAN]
    BY <1>1, <1>6, <1>7, Zenon DEF HistState
  <2> QED
    BY <1>1, <1>5, <2>1, <2>2, Zenon DEF CopInv, TypeOK
<1>10. beam' \in ScanState
  BY <1>1, Zenon DEF CopInv
<1> QED
  BY <1>1, <1>8, <1>9, <1>10, Zenon DEF CopInv

LEMMA NextCop == CopInv /\ [Next]_vars => CopInv'
<1> SUFFICES ASSUME CopInv, [Next]_vars PROVE CopInv'
  OBVIOUS
<1>1. CASE Clock
  BY <1>1, ClockKeeps
<1>2. CASE StepBegin
  <2>1. /\ cop \in CopperState /\ hist \in HistState /\ Agrees(ram, cop, hist)
    BY Zenon DEF CopInv, TypeOK, HistState
  <2>2. /\ stepping' = TRUE
        /\ cop' = [cop EXCEPT !.event = FALSE]
        /\ hist' = [hist EXCEPT !.worked = FALSE]
        /\ ram' = ram /\ beam' = beam /\ dmacon' = dmacon /\ blt_busy' = blt_busy
        /\ writes' = writes
    BY <1>2, Zenon DEF StepBegin
  <2>3. /\ cop' \in CopperState /\ SameControl(cop, [cop' EXCEPT !.event = cop.event])
        /\ cop'.stopped = cop.stopped /\ cop'.pc = cop.pc /\ cop'.waiting = cop.waiting
        /\ cop'.fetch = cop.fetch /\ cop'.wait = cop.wait
        /\ cop'.wait_blitter = cop.wait_blitter
    BY <2>1, <2>2, Zenon DEF CopperState, SameControl
  <2>4. hist' \in HistState /\ hist'.due = hist.due /\ hist'.held = hist.held /\ ~hist'.worked
    BY <2>1, <2>2, Zenon DEF HistState
  <2>5. Agrees(ram', cop', hist')
    BY <2>1, <2>2, <2>3, <2>4, Zenon DEF Agrees
  <2>6. Reports(cop', hist')
    BY <2>4, Zenon DEF Reports
  <2>7. hist' \in [due: Addresses, held: BOOLEAN, worked: BOOLEAN]
    BY <2>4 DEF HistState
  <2>8. TypeOK'
    BY <2>2, <2>3, <2>7, Zenon DEF CopInv, TypeOK
  <2> QED
    BY <2>2, <2>5, <2>6, <2>8, Zenon DEF CopInv
<1>3. CASE StepEnd
  BY <1>3, Zenon DEF StepEnd, CopInv, TypeOK
<1>4. ASSUME NEW reg \in GuestRegs, NEW value \in Values(reg), GuestWrite(reg, value)
      PROVE  CopInv'
  BY <1>4, GuestKeeps
<1>5. CASE UNCHANGED vars
  BY <1>5, Zenon DEF vars, CopInv, TypeOK
<1> QED
  BY <1>1, <1>2, <1>3, <1>4, <1>5 DEF Next

LEMMA CopperInvariant == Spec => []CopInv
BY InitCop, NextCop, PTL DEF Spec

(* The Copper executes program order: whatever list it runs and whatever   *)
(* interrupts it, the instruction it is about to fetch is the one the      *)
(* list, the jumps and VERTB call for (copper_service.c, copper_domain.c). *)
THEOREM CopperFollowsList == Spec => []ListFollowed
<1>1. CopInv => ListFollowed
  BY Zenon DEF CopInv, Agrees, ListFollowed, ProgramOrder
<1> QED
  BY <1>1, CopperInvariant, PTL

(* No WAIT ends before its line, its clock and, if asked for, the end of   *)
(* the blit, and none outlasts the clock that meets it.                    *)
THEOREM CopperWaitsExactly == Spec => []WaitExact
<1>1. CopInv => WaitExact
  <2> SUFFICES ASSUME CopInv PROVE cop.waiting = hist.held
    BY DEF WaitExact
  <2>1. cop.waiting \in BOOLEAN /\ hist.held \in BOOLEAN
    BY Zenon DEF CopInv, TypeOK, CopperState
  <2>2. cop.waiting <=> hist.held
    BY Zenon DEF CopInv, Agrees
  <2>3. CASE cop.waiting
    <3>1. cop.waiting = TRUE /\ hist.held = TRUE
      BY <2>1, <2>2, <2>3, Zenon
    <3> QED
      BY <3>1, Zenon
  <2>4. CASE ~cop.waiting
    <3>1. cop.waiting = FALSE /\ hist.held = FALSE
      BY <2>1, <2>2, <2>4, Zenon
    <3> QED
      BY <3>1, Zenon
  <2> QED
    BY <2>3, <2>4
<1> QED
  BY <1>1, CopperInvariant, PTL

(* RIGEL_EVENT_COPPER misses no work of the Copper in a rigel_step since   *)
(* the last VERTB.                                                         *)
THEOREM CopperReports == Spec => []EventReported
<1>1. CopInv => EventReported
  BY Zenon DEF CopInv, Reports, EventReported
<1> QED
  BY <1>1, CopperInvariant, PTL

(* No list raises its danger bit, or starts a blit the guest has not       *)
(* allowed it, however it jumps and waits.                                 *)
THEOREM CopperStaysConfined == Spec => NoEscalation
<1>1. ASSUME CopInv, [Next]_vars
      PROVE  [stepping => /\ cop'.cdang = cop.cdang
                          /\ blt_busy' => blt_busy \/ cop.cdang]_vars
  <2> SUFFICES ASSUME stepping
               PROVE  cop'.cdang = cop.cdang /\ (blt_busy' => blt_busy \/ cop.cdang)
    BY Zenon
  <2>1. CASE Clock
    BY <1>1, <2>1, ClockKeeps
  <2>2. CASE StepEnd \/ UNCHANGED vars
    <3>1. cop' = cop /\ blt_busy' = blt_busy
      BY <2>2, Zenon DEF StepEnd, vars
    <3> QED
      BY <3>1
  <2>3. ~StepBegin /\ ~ \E reg \in GuestRegs : \E value \in Values(reg) : GuestWrite(reg, value)
    BY Zenon DEF StepBegin, GuestWrite
  <2> QED
    BY <1>1, <2>1, <2>2, <2>3, Zenon DEF Next
<1> QED
  BY <1>1, CopperInvariant, PTL DEF Spec, NoEscalation
=============================================================================

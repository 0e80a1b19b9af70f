------------------------------- MODULE Copper -------------------------------
(***************************************************************************)
(* The Copper of Agnus: a processor of MOVE, WAIT and SKIP instructions    *)
(* that runs beside the guest's 68000, in bus slots the slot scheduler     *)
(* leaves FREE and the blitter does not take.                              *)
(*                                                                         *)
(* One Cck is one agnus_slot_scheduler_step: the WAIT comparison, the slot *)
(* arbitration, at most one instruction, the beam, and at VERTB the        *)
(* restart of the list.  Which slots are FREE is left open (the table and  *)
(* disk DMA decide it); how long a blit takes is left open too.            *)
(*                                                                         *)
(* An address counts instructions.  copper_state.triggered is left out:    *)
(* nothing but a unit test reads it.                                       *)
(*                                                                         *)
(* src/src/chipset/agnus/copper/, src/src/domains/copper/                  *)
(***************************************************************************)
EXTENDS Beam, FiniteSetsExt

CONSTANTS
    FrameLines,    \* lines of a frame (313 in the code)
    VBits,         \* bits of a vertical position in an instruction (8)
    HBits,         \* bits of a horizontal position (8)
    HalfWord,      \* instructions addressed by the low half of a pointer
    Programs,      \* contents of chip RAM a run starts from
    Pointers,      \* what the guest loads into COP1LC and COP2LC at start
    MaxWrites,     \* bound: register writes of the guest in a behaviour
    GuestRegs      \* registers the guest writes while the Copper runs

Regs == {"COPCON", "BLTSIZE", "COP1LCH", "COP1LCL", "COP2LCH", "COP2LCL",
         "COPJMP1", "COPJMP2", "DMACON", "COLOR"}

Channels == {"DMAEN", "COPEN", "BLTEN"}

ASSUME CopperAssumption ==
    /\ FrameLines \in Nat \ {0}
    /\ VBits \in Nat \ {0} /\ HBits \in Nat \ {0}
    /\ LineClocks <= 2^HBits - 2
    /\ HalfWord \in Nat \ {0}
    /\ MaxWrites \in Nat
    /\ GuestRegs \subseteq Regs

Addresses == 0..(2 * HalfWord - 1)

(* Fetches wrap at the end of chip RAM.                                    *)
After(pc, n) == (pc + n) % (2 * HalfWord)

VARIABLES
    ram,        \* chip RAM, an instruction per address
    cop,        \* copper_state_t
    beam,       \* agnus.beam
    dmacon,     \* the DMACON bits set, of those the Copper and blitter need
    blt_busy,   \* blitter_is_busy
    stepping,   \* the host is inside rigel_step
    writes,     \* register writes of the guest so far
    hist        \* history: due, the address program order fetches next;
                \* held, the WAIT before it has not been met yet; worked, a
                \* MOVE or a met WAIT in this rigel_step since VERTB

vars == <<ram, cop, beam, dmacon, blt_busy, stepping, writes, hist>>

-----------------------------------------------------------------------------
(* Instructions.                                                           *)

VFull == 0..(VBits - 1)   \* a vertical mask is the set of bits compared
HFull == 1..(HBits - 1)   \* bit 0 of a horizontal position is never compared

Move(reg, value) == [op |-> "MOVE", reg |-> reg, value |-> value]

Wait(v, h, vm, hm) == [op |-> "WAIT", v |-> v, h |-> h, vm |-> vm, hm |-> hm]

Skip(v, h, vm, hm) == [op |-> "SKIP", v |-> v, h |-> h, vm |-> vm, hm |-> hm]

(* $FFFF,$FFFE: a horizontal position no line reaches.                     *)
EndOfList == Wait(2^VBits - 1, 2^HBits - 2, VFull, HFull)

(* x & mask                                                                *)
Masked(x, mask) == MapThenSumSet(LAMBDA b : 2^b * ((x \div 2^b) % 2), mask)

(* Mutant: the two halves of the position are compared independently.      *)
copper_beam_cmp_Halves(b, w) ==
    /\ Masked(b.vpos, w.vm) >= Masked(w.v, w.vm)
    /\ Masked(b.hpos, w.hm) >= Masked(w.h, w.hm)

(* The masked positions are packed into one number, vertical high.         *)
copper_beam_cmp(b, w) ==
    LET pack(v, h) == Masked(v, w.vm) * 2^HBits + Masked(h, w.hm)
    IN  pack(b.vpos, b.hpos) >= pack(w.v, w.h)

(* What the guest writes to a register, and what a MOVE of a list may.     *)
Values(reg) ==
    CASE reg = "COPCON" -> BOOLEAN
      [] reg \in {"COP1LCH", "COP2LCH"} -> 0..1
      [] reg \in {"COP1LCL", "COP2LCL"} -> 0..(HalfWord - 1)
      [] reg = "DMACON" -> [set: BOOLEAN, bits: {{"COPEN"}, {"BLTEN"}}]
      [] OTHER -> {0}

Operands(reg) ==
    IF reg = "DMACON" THEN [set: BOOLEAN, bits: SUBSET Channels] ELSE Values(reg)

Compares(ops) ==
    [op: ops, v: 0..(2^VBits - 1), h: 0..(2^HBits - 1), vm: SUBSET VFull, hm: SUBSET HFull]

AllMoves == UNION {{Move(reg, value) : value \in Operands(reg)} : reg \in Regs}

Instructions == AllMoves \cup Compares({"WAIT", "SKIP"})

ASSUME ProgramAssumption ==
    /\ Programs \subseteq [Addresses -> Instructions]
    /\ Pointers \subseteq Addresses

(* x & mask is a number, and no larger than the bits of a position allow.  *)
ASSUME MaskAssumption ==
    /\ 2^VBits \in Nat \ {0} /\ 2^HBits \in Nat \ {0}
    /\ \A v \in 0..FrameLines \cup 0..(2^VBits - 1) : \A m \in SUBSET VFull :
          Masked(v, m) \in Nat
    /\ \A h \in 0..(2^HBits - 1) : \A m \in SUBSET HFull :
          Masked(h, m) \in 0..(2^HBits - 1)

-----------------------------------------------------------------------------
(* Operators on copper_state_t.                                            *)

CopperState ==
    [cop1lc: Addresses, cop2lc: Addresses, pc: Addresses, wait: Compares({"WAIT"}),
     cdang: BOOLEAN, waiting: BOOLEAN, wait_blitter: BOOLEAN,
     stopped: BOOLEAN, event: BOOLEAN, fetch: BOOLEAN]

copper_reset ==
    [cop1lc |-> 0, cop2lc |-> 0, pc |-> 0, wait |-> Wait(0, 0, VFull, HFull),
     cdang |-> FALSE, waiting |-> FALSE, wait_blitter |-> FALSE,
     stopped |-> FALSE, event |-> FALSE, fetch |-> FALSE]

(* Mutant: the Copper stays stopped through the vertical blank.            *)
copper_vbl_reload_Stopped(c) ==
    [c EXCEPT !.pc = c.cop1lc, !.waiting = FALSE, !.wait_blitter = FALSE,
              !.fetch = c.cop1lc # 0, !.event = FALSE]

(* Restart from COP1LC; a null pointer leaves the Copper idle.             *)
copper_vbl_reload(c) ==
    [c EXCEPT !.pc = c.cop1lc, !.waiting = FALSE, !.wait_blitter = FALSE,
              !.stopped = FALSE, !.fetch = c.cop1lc # 0, !.event = FALSE]

(* Mutant: a WAIT in progress survives the jump.                           *)
copper_jump_Waiting(c, target) ==
    [c EXCEPT !.pc = target, !.event = FALSE, !.fetch = TRUE]

(* A write to COPJMP1 or COPJMP2, by the guest or by a MOVE.               *)
copper_jump(c, target) ==
    [c EXCEPT !.pc = target, !.event = FALSE, !.fetch = TRUE, !.waiting = FALSE]

set_pointer_hi(ptr, value) == (ptr % HalfWord) + value * HalfWord

set_pointer_lo(ptr, value) == (ptr \div HalfWord) * HalfWord + value

(* The blitter-finished-disable bit is the top bit of the vertical mask.   *)
copper_wait_arm(c, ir) ==
    [c EXCEPT !.wait = ir, !.waiting = TRUE,
              !.wait_blitter = VBits - 1 \notin ir.vm,
              !.stopped = ir = EndOfList]

copper_enabled(dma) == {"DMAEN", "COPEN"} \subseteq dma

(* Mutant: a met WAIT is not announced.                                    *)
copper_domain_step_Silent(c, b, dma, busy) ==
    IF /\ copper_enabled(dma) /\ c.waiting
       /\ ~ (c.wait_blitter /\ busy)
       /\ copper_beam_cmp(b, c.wait)
    THEN [c EXCEPT !.waiting = FALSE, !.wait_blitter = FALSE,
                   !.pc = After(c.pc, 1), !.fetch = TRUE]
    ELSE c

(* The WAIT comparison, on every clock and without a bus slot.             *)
copper_domain_step(c, b, dma, busy) ==
    IF /\ copper_enabled(dma) /\ c.waiting
       /\ ~ (c.wait_blitter /\ busy)
       /\ copper_beam_cmp(b, c.wait)
    THEN [c EXCEPT !.waiting = FALSE, !.wait_blitter = FALSE,
                   !.pc = After(c.pc, 1), !.event = TRUE, !.fetch = TRUE]
    ELSE c

-----------------------------------------------------------------------------
(* Register writes.  A machine is what a write can change.                 *)

Machine == [cop |-> cop, dmacon |-> dmacon, blt_busy |-> blt_busy]

(* A value of DMACON is a set of bits with SETCLR; BLTSIZE starts a blit.  *)
custom_regs_write(m, reg, value) ==
    CASE reg = "COPCON"  -> [m EXCEPT !.cop.cdang = value]
      [] reg = "COP1LCH" -> [m EXCEPT !.cop.cop1lc = set_pointer_hi(@, value)]
      [] reg = "COP1LCL" -> [m EXCEPT !.cop.cop1lc = set_pointer_lo(@, value)]
      [] reg = "COP2LCH" -> [m EXCEPT !.cop.cop2lc = set_pointer_hi(@, value)]
      [] reg = "COP2LCL" -> [m EXCEPT !.cop.cop2lc = set_pointer_lo(@, value)]
      [] reg = "COPJMP1" -> [m EXCEPT !.cop = copper_jump(@, m.cop.cop1lc)]
      [] reg = "COPJMP2" -> [m EXCEPT !.cop = copper_jump(@, m.cop.cop2lc)]
      [] reg = "DMACON"  -> [m EXCEPT !.dmacon = IF value.set THEN @ \cup value.bits
                                                 ELSE @ \ value.bits]
      [] reg = "BLTSIZE" -> [m EXCEPT !.blt_busy = TRUE]
      [] OTHER           -> m

(* Mutant: only the range of the blitter registers is protected.           *)
copper_forbidden_NoFloor(c, reg) == ~ c.cdang /\ reg = "BLTSIZE"

(* COPCON is at $02E, below every limit; the blitter from $040 to $07E.    *)
copper_forbidden(c, reg) ==
    reg = "COPCON" \/ (~ c.cdang /\ reg = "BLTSIZE")

(* A forbidden MOVE stops the Copper, where it is, until VERTB.            *)
copper_exec_move(m, ir) ==
    IF copper_forbidden(m.cop, ir.reg)
    THEN [m EXCEPT !.cop.waiting = FALSE, !.cop.fetch = FALSE, !.cop.stopped = TRUE]
    ELSE custom_regs_write(m, ir.reg, ir.value)

(* The counter advances unless the MOVE was a jump; a jump to the MOVE     *)
(* itself looks like no jump.                                              *)
copper_move_advance(m, pc_before) ==
    IF m.cop.pc = pc_before THEN [m EXCEPT !.cop.pc = After(@, 1)] ELSE m

(* rigel_copper_service_step_program past its early returns.               *)
step_program(m, b) ==
    LET ir == ram[m.cop.pc]
        n  == [m EXCEPT !.cop.fetch = FALSE]
    IN  CASE ir.op = "SKIP" ->
               [n EXCEPT !.cop.pc = After(@, IF copper_beam_cmp(b, ir) THEN 2 ELSE 1),
                         !.cop.fetch = TRUE]
          [] ir.op = "WAIT" -> [n EXCEPT !.cop = copper_wait_arm(@, ir)]
          [] ir.op = "MOVE" ->
               LET done == copper_exec_move(n, ir)
               IN  IF done.cop.stopped THEN done
                   ELSE [copper_move_advance(done, m.cop.pc)
                           EXCEPT !.cop.event = TRUE, !.cop.fetch = TRUE]

-----------------------------------------------------------------------------
(* What the Copper should do, from the instructions and not from cop: the  *)
(* history variable.                                                       *)

Reached(b, w) ==
    LET v == Masked(b.vpos, w.vm) - Masked(w.v, w.vm)
    IN  v > 0 \/ (v = 0 /\ Masked(b.hpos, w.hm) >= Masked(w.h, w.hm))

(* The WAIT in force is met on this clock.                                 *)
Met ==
    LET w == ram[After(hist.due, 2 * HalfWord - 1)]
    IN  /\ hist.held /\ copper_enabled(dmacon)
        /\ Reached(beam, w)
        /\ VBits - 1 \in w.vm \/ ~ blt_busy

WaitHistory ==
    [hist EXCEPT !.held = @ /\ ~ Met, !.worked = @ \/ Met]

JumpTarget(ir) ==
    CASE ir.reg = "COPJMP1" -> cop.cop1lc
      [] ir.reg = "COPJMP2" -> cop.cop2lc
      [] OTHER -> After(hist.due, 1)

(* The effect on the history of the instruction at `due`.  A jump to       *)
(* itself is not taken.                                                    *)
FetchHistory ==
    LET ir   == ram[hist.due]
        next == After(hist.due, 1)
    IN  CASE ir.op = "WAIT" -> [WaitHistory EXCEPT !.due = next, !.held = TRUE]
          [] ir.op = "SKIP" -> [WaitHistory EXCEPT
                !.due = IF Reached(beam, ir) THEN After(next, 1) ELSE next]
          [] ir.op = "MOVE" ->
                IF copper_forbidden(cop, ir.reg) THEN WaitHistory
                ELSE [WaitHistory EXCEPT !.worked = TRUE,
                        !.due = IF JumpTarget(ir) = hist.due THEN next ELSE JumpTarget(ir)]

-----------------------------------------------------------------------------
(* Actions.                                                                *)

(* Agnus after reset, once the guest has set its pointers and DMACON.       *)
Init ==
    /\ ram \in Programs
    /\ \E p1, p2 \in Pointers :
          cop = [copper_reset EXCEPT !.cop1lc = p1, !.cop2lc = p2]
    /\ beam = beam_reset(FrameLines)
    /\ dmacon = Channels
    /\ blt_busy = FALSE
    /\ stepping = FALSE
    /\ writes = 0
    /\ hist = [due |-> 0, held |-> FALSE, worked |-> FALSE]

(* The rest of a clock: the beam moves on, and at VERTB the list restarts  *)
(* if Copper DMA is on.  The frame counter is not kept.                    *)
EndClock(m, h) ==
    LET b      == [beam_step1(beam) EXCEPT !.frame_count = 0]
        reload == at_vertb(b) /\ copper_enabled(m.dmacon)
    IN  /\ beam' = b
        /\ cop' = IF reload THEN copper_vbl_reload(m.cop) ELSE m.cop
        /\ hist' = IF reload THEN [due |-> m.cop.cop1lc, held |-> FALSE, worked |-> FALSE]
                   ELSE h
        /\ dmacon' = m.dmacon
        /\ blt_busy' = m.blt_busy
        /\ UNCHANGED <<ram, stepping, writes>>

Compared == copper_domain_step(cop, beam, dmacon, blt_busy)

BlitterActive == blt_busy /\ {"DMAEN", "BLTEN"} \subseteq dmacon

(* sched->copper_request                                                   *)
CopperRequest == copper_enabled(dmacon) /\ Compared.fetch

(* A FREE slot goes to the Copper: one instruction, unless it is stopped.  *)
CopperSlot ==
    LET m == [Machine EXCEPT !.cop = Compared]
    IN  /\ stepping
        /\ CopperRequest /\ ~ BlitterActive
        /\ IF Compared.stopped THEN EndClock(m, WaitHistory)
           ELSE EndClock(step_program(m, beam), FetchHistory)

(* A FREE slot goes to the blitter, which may complete its blit in it.     *)
BlitterSlot(ends) ==
    /\ stepping
    /\ BlitterActive
    /\ EndClock([Machine EXCEPT !.cop = Compared, !.blt_busy = ~ ends], WaitHistory)

(* The slot belongs to a fixed channel, to disk DMA or to nobody.          *)
OtherSlot ==
    /\ stepping
    /\ EndClock([Machine EXCEPT !.cop = Compared], WaitHistory)

Clock == CopperSlot \/ (\E ends \in BOOLEAN : BlitterSlot(ends)) \/ OtherSlot

(* rigel_step forgets the events of the previous call ...                  *)
StepBegin ==
    /\ ~ stepping
    /\ stepping' = TRUE
    /\ cop' = [cop EXCEPT !.event = FALSE]
    /\ hist' = [hist EXCEPT !.worked = FALSE]
    /\ UNCHANGED <<ram, beam, dmacon, blt_busy, writes>>

(* ... and reports RIGEL_EVENT_COPPER from cop.event when it returns.      *)
StepEnd ==
    /\ stepping
    /\ stepping' = FALSE
    /\ UNCHANGED <<ram, cop, beam, dmacon, blt_busy, writes, hist>>

(* The guest writes a register between two calls of rigel_step.            *)
GuestWrite(reg, value) ==
    LET m == custom_regs_write(Machine, reg, value)
    IN  /\ ~ stepping
        /\ writes < MaxWrites
        /\ writes' = writes + 1
        /\ cop' = m.cop /\ dmacon' = m.dmacon /\ blt_busy' = m.blt_busy
        /\ hist' = IF reg \in {"COPJMP1", "COPJMP2"}
                   THEN [hist EXCEPT !.due = m.cop.pc, !.held = FALSE]
                   ELSE hist
        /\ UNCHANGED <<ram, beam, stepping>>

Next ==
    \/ Clock
    \/ StepBegin
    \/ StepEnd
    \/ \E reg \in GuestRegs : \E value \in Values(reg) : GuestWrite(reg, value)

(* The host keeps stepping, by calls that sooner or later advance time;    *)
(* every line has FREE slots; a blit that gets slots ends.                 *)
Fairness ==
    /\ WF_vars(StepBegin)
    /\ SF_vars(Clock)
    /\ SF_vars(CopperSlot)
    /\ SF_vars(BlitterSlot(TRUE))

Spec == Init /\ [][Next]_vars /\ Fairness

-----------------------------------------------------------------------------
TypeOK ==
    /\ ram \in [Addresses -> Instructions]
    /\ cop \in CopperState
    /\ beam \in BeamState /\ beam.hpos < LineClocks /\ beam.vpos < FrameLines
    /\ dmacon \subseteq Channels
    /\ blt_busy \in BOOLEAN /\ stepping \in BOOLEAN
    /\ writes \in 0..MaxWrites
    /\ hist \in [due: Addresses, held: BOOLEAN, worked: BOOLEAN]

(* The instruction the Copper is about to fetch is the one program order,  *)
(* the jumps of the list and of the guest, and the restart at VERTB call   *)
(* for, whatever was interrupted (copper_service.c, copper_domain.c).      *)
ProgramOrder == cop.fetch /\ ~ cop.stopped => cop.pc = hist.due

(* The Copper is waiting exactly while the WAIT it executed last is not    *)
(* met: no WAIT ends early, by a jump, a stale blitter bit or a wrong      *)
(* comparison, and none outlasts the clock that meets it.                  *)
WaitExact == cop.waiting = hist.held

(* A rigel_step in which a MOVE was done or a WAIT was met will report     *)
(* RIGEL_EVENT_COPPER, unless VERTB came after (rigel.c:401).              *)
EventReported == stepping /\ hist.worked => cop.event

(* No list, however it jumps, raises its own danger bit, or starts a blit  *)
(* that the guest has not allowed (copper_exec_move).                      *)
NoEscalation ==
    [][stepping => /\ cop'.cdang = cop.cdang
                   /\ blt_busy' => blt_busy \/ cop.cdang]_vars

(* While Copper DMA stays on, a list is started again and again, whatever  *)
(* the last run of it did: stopped, waited for a line or for the blitter.  *)
FrameRestart ==
    <>[](copper_enabled(dmacon) /\ cop.cop1lc # 0)
       => []<><<CopperSlot /\ ~ cop.stopped /\ Compared.pc = cop.cop1lc>>_vars

(* The Copper's state is well formed and the next instruction is the one   *)
(* the list, the guest's jumps and VERTB call for.                         *)
ListFollowed == TypeOK /\ ProgramOrder
=============================================================================

------------------------------ MODULE Blitter -------------------------------
(***************************************************************************)
(* The blitter: registers, the command frozen when a size is written, the  *)
(* bus slots granted to it, and the registers it leaves behind.            *)
(* src/src/chipset/agnus/blitter/ (blitter_regs.c, blitter_dma.c,          *)
(* blitter_timing.c), src/src/domains/blitter/blitter_domain.c             *)
(*                                                                         *)
(* The guest programs the registers, starts and restarts blits, writes     *)
(* chip RAM and gates BLTEN in any order; the arbiter grants single slots  *)
(* (slot_scheduler.c).  A copy computes everything on its first slot and   *)
(* counts the others down; a line draws a pixel per slot, or per two slots *)
(* in the cycle-exact mode.                                                *)
(***************************************************************************)
EXTENDS BlitterOps, FiniteSets

CONSTANTS
    Images,     \* register images the guest programs
    Sizes,      \* <<width, height>> fields written to the size registers
    MaxWidth,   \* what a width of 0 stands for (64, or 2048)
    MaxHeight,  \* what a height of 0 stands for (1024, or 32768)
    PtrLow,     \* values of the low half of a pointer (2^16)
    PtrHalves,  \* values written to one half of BLTAPT
    Pokes,      \* <<address, word>> the processor writes to chip RAM
    Memory0,    \* contents of chip RAM at the start
    SlotSpace,  \* values of the slot counter (2^32)
    MaxBltOps   \* bound: operations of guest and host

(* The registers, and what a blit leaves for them.                         *)
Regs == [pt: [Channel4 -> 0..(PtrSpace - 1)], mod: [Channel4 -> Int],
         dat: [{"A", "B", "C"} -> Word], ddat: Word, bhold: Word, afwm: Word,
         alwm: Word, minterm: SUBSET (0..7), ash: Bits, bsh: Bits,
         use: SUBSET Channel4, con1: SUBSET (0..7), sizh: Nat, sizv: Nat]

Result == [pt: [Channel4 -> 0..(PtrSpace - 1)], dat: [{"A", "B", "C"} -> Word],
           ddat: Word, bhold: Word, zero: BOOLEAN]

ASSUME BlitterAssumption ==
    /\ MaxWidth \in Nat \ {0} /\ MaxHeight \in Nat \ {0}
    /\ PtrLow \in Nat \ {0} /\ PtrHalves \subseteq Nat
    /\ Memory0 \in [ChipAddr -> Word]
    /\ SlotSpace \in Nat /\ MaxBltOps \in Nat
    /\ PtrSpace % PtrLow = 0 /\ PtrSpace % ErrSpace = 0
    /\ Images \subseteq Regs /\ Pokes \subseteq ChipAddr \X Word
    /\ Sizes \subseteq (0..(MaxWidth - 1)) \X (0..(MaxHeight - 1))
    /\ 5 * (MaxWidth * MaxHeight) < SlotSpace  \* no blit takes as many slots

VARIABLES
    regs,         \* BlitterRegs
    cmd,          \* BlitCommand
    result,       \* BlitterResult
    exec,         \* exec_state
    busy,         \* BBUSY
    remaining,    \* cycles_remaining
    consumed,     \* dma_slots_consumed
    line,         \* BlitterLineState, with lineInit for its initialized flag
    lineInit,
    phase,        \* pixel_slot_phase
    cycle_exact,
    blten,        \* DMAEN and BLTEN in DMACON
    blitreq,      \* BLIT in INTREQ
    ram,          \* chip RAM
    base,         \* history: chip RAM when the command was given
    disturbed,    \* history: RAM or the cost mode changed since then
    bltOps        \* operations of guest and host so far

bltRegs  == <<regs, cmd, result, exec, busy, remaining, consumed, line, lineInit, phase>>
bltVars  == <<bltRegs, cycle_exact, blten, blitreq, ram, base, disturbed, bltOps>>

BltTypeOK ==
    /\ regs \in Regs /\ cmd \in BlitCommand /\ result \in Result
    /\ exec \in {"idle", "pending", "running"} /\ busy \in BOOLEAN
    /\ busy <=> exec # "idle"
    /\ remaining \in Nat /\ consumed \in 0..(SlotSpace - 1)
    /\ line.cpt \in ChipAddr /\ line.x_shift \in Bits /\ line.pattern \in Word
    /\ line.error \in (-(ErrSpace \div 2))..(ErrSpace \div 2 - 1)
    /\ lineInit \in BOOLEAN /\ phase \in {0, 1}
    /\ ram \in [ChipAddr -> Word]
    /\ bltOps \in 0..MaxBltOps

(* memset and blitter_init *)
zero_result == [pt |-> [ch \in Channel4 |-> 0], dat |-> [ch \in {"A", "B", "C"} |-> {}],
                ddat |-> {}, bhold |-> {}, zero |-> TRUE]

blitter_init_regs ==
    [pt |-> [ch \in Channel4 |-> 0], mod |-> [ch \in Channel4 |-> 0],
     dat |-> [ch \in {"A", "B", "C"} |-> {}], ddat |-> {}, bhold |-> {},
     afwm |-> AllOnes, alwm |-> AllOnes, minterm |-> {}, ash |-> 0, bsh |-> 0,
     use |-> {}, con1 |-> {}, sizh |-> 0, sizv |-> 0]

(* blitter_build_command *)
build_command(r) ==
    [pt |-> [ch \in Channel4 |-> Chip(r.pt[ch])], mod |-> r.mod, dat |-> r.dat,
     bhold |-> r.bhold, afwm |-> r.afwm, alwm |-> r.alwm,
     width |-> r.sizh, height |-> r.sizv, minterm |-> r.minterm,
     ash |-> r.ash, bsh |-> r.bsh, use |-> r.use, con1 |-> r.con1]

BltInit ==
    /\ regs = blitter_init_regs /\ cmd = build_command(blitter_init_regs)
    /\ result = zero_result /\ exec = "idle" /\ busy = FALSE
    /\ remaining = 0 /\ consumed = 0
    /\ line = line_state_init(build_command(blitter_init_regs))
    /\ lineInit = FALSE /\ phase = 0
    /\ cycle_exact \in BOOLEAN /\ blten = TRUE /\ blitreq = FALSE
    /\ ram = Memory0 /\ base = Memory0
    /\ disturbed = FALSE /\ bltOps = 0

-----------------------------------------------------------------------------
(* blitter_timing.c: the cost of a command.                                *)

active_channel_count(c) == IF c.use = {} THEN 1 ELSE Cardinality(c.use)

word_cost(c) ==
    active_channel_count(c) + (IF "D" \in c.use /\ "C" \notin c.use THEN 1 ELSE 0)

(* Mutant: a line is always charged two slots a pixel.                     *)
estimate_cycles_TwoPerPixel(c, exact) ==
    LET n == IF line_mode(c) THEN 2 * c.height
             ELSE c.width * c.height * (IF exact THEN word_cost(c) ELSE 1)
    IN IF n = 0 THEN 1 ELSE n

(* blitter_estimate_cycles *)
estimate_cycles(c, exact) ==
    LET n == IF line_mode(c) THEN c.height * (IF exact THEN 2 ELSE 1)
             ELSE c.width * c.height * (IF exact THEN word_cost(c) ELSE 1)
    IN IF n = 0 THEN 1 ELSE n

(* Mutant: the line state of the command before is kept.                   *)
Begin_KeepsLine(r) ==
    /\ regs' = r /\ cmd' = build_command(r)
    /\ busy' = TRUE /\ exec' = "pending" /\ result' = zero_result
    /\ line' = IF lineInit THEN [line EXCEPT !.step_index = 0] ELSE line_state_init(cmd')
    /\ lineInit' = FALSE /\ phase' = 0
    /\ consumed' = 0 /\ remaining' = estimate_cycles(cmd', cycle_exact)
    /\ base' = ram /\ disturbed' = FALSE
    /\ UNCHANGED <<cycle_exact, blten, ram>>

(* blitter_begin_command: freeze the registers and start the clock.  A     *)
(* command given while another runs replaces it.                           *)
Begin(r) ==
    /\ regs' = r /\ cmd' = build_command(r)
    /\ busy' = TRUE /\ exec' = "pending" /\ result' = zero_result
    /\ line' = line_state_init(cmd') /\ lineInit' = FALSE /\ phase' = 0
    /\ consumed' = 0 /\ remaining' = estimate_cycles(cmd', cycle_exact)
    /\ base' = ram /\ disturbed' = FALSE
    /\ UNCHANGED <<cycle_exact, blten, ram>>

Operation == bltOps < MaxBltOps /\ bltOps' = bltOps + 1

Width(w) == IF w = 0 THEN MaxWidth ELSE w
Height(h) == IF h = 0 THEN MaxHeight ELSE h

(* Writes of BLTSIZE, which takes back the BLIT request (agnus_write.c),   *)
(* BLTSIZV (a latch) and BLTSIZH (which starts).                           *)
WriteSize(w, h) ==
    /\ Operation /\ Begin([regs EXCEPT !.sizh = Width(w), !.sizv = Height(h)])
    /\ blitreq' = FALSE

WriteSizeH(w) ==
    Operation /\ Begin([regs EXCEPT !.sizh = Width(w)]) /\ UNCHANGED blitreq

SetRegs(r) ==
    /\ Operation /\ r # regs /\ regs' = r
    /\ UNCHANGED <<cmd, result, exec, busy, remaining, consumed, line, lineInit,
                   phase, cycle_exact, blten, blitreq, ram, base, disturbed>>

WriteSizeV(h) == SetRegs([regs EXCEPT !.sizv = Height(h)])

(* A run of writes to the registers that do not start anything.            *)
WriteImage(i) ==
    SetRegs([i EXCEPT !.sizh = regs.sizh, !.sizv = regs.sizv, !.ddat = regs.ddat])

(* make_ptr: the two halves of a pointer.                                  *)
WritePtrHi(v) == SetRegs([regs EXCEPT !.pt["A"] = Ptr(v * PtrLow + (@ % PtrLow))])

WritePtrLo(v) ==
    SetRegs([regs EXCEPT !.pt["A"] = (@ \div PtrLow) * PtrLow + ((v - (v % 2)) % PtrLow)])

(* BLTCON0L changes the minterm only; BLTBDAT goes through the shifter.    *)
WriteCon0L(m) == SetRegs([regs EXCEPT !.minterm = m])

make_b_hold(r, v) ==
    IF 1 \in r.con1 THEN shift_descending(r.dat["B"], v, r.bsh)
    ELSE shift_ascending(r.dat["B"], v, r.bsh)

WriteBdat(v) ==
    SetRegs([regs EXCEPT !.bhold = make_b_hold(regs, v), !.dat["B"] = v])

-----------------------------------------------------------------------------
(* blitter_step_dma with one slot.                                         *)

(* blitter_publish_result *)
publish(r, res) ==
    [r EXCEPT !.pt = res.pt, !.dat = res.dat, !.ddat = res.ddat, !.bhold = res.bhold]

(* blitter_force_finish *)
Finish(res) ==
    /\ regs' = publish(regs, res)
    /\ busy' = FALSE /\ exec' = "idle" /\ remaining' = 0 /\ blitreq' = TRUE

less(n) == IF n > 0 THEN n - 1 ELSE 0

GrantCopy ==
    /\ ~line_mode(cmd)
    /\ consumed' = (consumed + 1) % SlotSpace
    /\ IF exec = "pending"
       THEN \E out \in {execute_copy_mode(cmd, ram)} :
                result' = out.result /\ ram' = out.mem
       ELSE UNCHANGED <<result, ram>>
    /\ IF remaining > 1
       THEN /\ remaining' = remaining - 1 /\ exec' = "running"
            /\ UNCHANGED <<regs, busy, blitreq>>
       ELSE Finish(result')
    /\ UNCHANGED <<line, lineInit, phase>>

DeferPixel == cycle_exact /\ phase = 0

(* Mutant: every slot of a pixel is taken for its read slot.               *)
GrantLineRead_NoPhase ==
    /\ line_mode(cmd) /\ DeferPixel
    /\ consumed' = (consumed + 1) % SlotSpace /\ remaining' = less(remaining)
    /\ UNCHANGED <<regs, result, exec, busy, line, lineInit, phase, blitreq, ram>>

(* The read slot of a pixel.                                               *)
GrantLineRead ==
    /\ line_mode(cmd) /\ DeferPixel
    /\ phase' = 1
    /\ consumed' = (consumed + 1) % SlotSpace /\ remaining' = less(remaining)
    /\ UNCHANGED <<regs, result, exec, busy, line, lineInit, blitreq, ram>>

(* The slot that draws it; a line of height 0 only initializes the state   *)
(* and then publishes the cleared result.                                  *)
GrantLineDraw ==
    LET draws == line.step_index < cmd.height
    IN \E s \in {IF draws THEN line_pixel(cmd, line, ram) ELSE line} :
       /\ line_mode(cmd) /\ ~DeferPixel
       /\ phase' = 0 /\ lineInit' = TRUE
       /\ consumed' = (consumed + 1) % SlotSpace
       /\ line' = s
       /\ ram' = IF draws THEN line_mem(cmd, line, ram) ELSE ram
       /\ result' = IF draws THEN line_result(cmd, s) ELSE result
       /\ IF s.step_index >= cmd.height THEN Finish(result')
          ELSE /\ remaining' = less(remaining)
               /\ UNCHANGED <<regs, exec, busy, blitreq>>

Grant ==
    /\ busy /\ blten
    /\ GrantCopy \/ GrantLineRead \/ GrantLineDraw
    /\ UNCHANGED <<cmd, cycle_exact, blten, base, disturbed, bltOps>>

-----------------------------------------------------------------------------
(* The processor writes chip RAM, the guest gates DMA and acknowledges,    *)
(* the host switches the cost mode or resets.                              *)

CpuPoke(p) ==
    /\ Operation /\ ram[p[1]] # p[2]
    /\ ram' = [ram EXCEPT ![p[1]] = p[2]]
    /\ disturbed' = TRUE
    /\ UNCHANGED <<bltRegs, cycle_exact, blten, blitreq, base>>

SetBlten(b) ==
    /\ Operation /\ b # blten /\ blten' = b
    /\ UNCHANGED <<bltRegs, cycle_exact, blitreq, ram, base, disturbed>>

(* rigel_set_cycle_exact *)
SetCycleExact(b) ==
    /\ Operation /\ b # cycle_exact /\ cycle_exact' = b
    /\ disturbed' = TRUE
    /\ UNCHANGED <<bltRegs, blten, blitreq, ram, base>>

AckBlit ==
    /\ blitreq /\ blitreq' = FALSE
    /\ UNCHANGED <<bltRegs, cycle_exact, blten, ram, base, disturbed, bltOps>>

(* blitter_reset through rigel_reset, which clears DMACON and INTREQ and   *)
(* keeps the configured cost mode.                                         *)
ResetBlitter ==
    /\ Operation
    /\ regs' = blitter_init_regs /\ cmd' = build_command(blitter_init_regs)
    /\ result' = zero_result /\ exec' = "idle" /\ busy' = FALSE
    /\ remaining' = 0 /\ consumed' = 0 /\ line' = line_state_init(cmd')
    /\ lineInit' = FALSE /\ phase' = 0
    /\ blten' = FALSE /\ blitreq' = FALSE
    /\ UNCHANGED <<cycle_exact, ram, base, disturbed>>

BltNext ==
    \/ Grant \/ AckBlit \/ ResetBlitter
    \/ \E i \in Images : WriteImage(i)
    \/ \E s \in Sizes : WriteSize(s[1], s[2]) \/ WriteSizeH(s[1]) \/ WriteSizeV(s[2])
    \/ \E v \in PtrHalves : WritePtrHi(v) \/ WritePtrLo(v)
    \/ \E v \in {{}, {0}} : WriteCon0L(v) \/ WriteBdat(v)
    \/ \E p \in Pokes : CpuPoke(p)
    \/ \E b \in BOOLEAN : SetBlten(b) \/ SetCycleExact(b)

(* Of the steps of BltNext only Grant counts a slot.                       *)
SlotGranted == busy /\ blten /\ consumed' = (consumed + 1) % SlotSpace

BltSpec == BltInit /\ [][BltNext]_bltVars /\ WF_consumed(SlotGranted)

-----------------------------------------------------------------------------
(* A copy seen as one stream of words: word i of a channel lies at         *)
(* At(ch, i), each source is one long string of bits, and the shifters     *)
(* delay that string by a number of bits.                                  *)
Words == 0..(cmd.width * cmd.height - 1)

At(ch, i) ==
    LET d == 2 * i + cmd.mod[ch] * (i \div cmd.width)
    IN Chip(IF descending(cmd) THEN cmd.pt[ch] - d ELSE cmd.pt[ch] + d)

Source(ch, i) == IF ch \in cmd.use THEN ram[At(ch, i)] ELSE cmd.dat[ch]

MaskedA(i) ==
    {b \in Source("A", i) :
        /\ i % cmd.width = 0 => b \in cmd.afwm
        /\ (i + 1) % cmd.width = 0 => b \in cmd.alwm}

(* Bit b of word i of the stream, delayed by s bits.                       *)
Delayed(Stream(_), i, b, s) ==
    LET q == W * i + (IF descending(cmd) THEN b ELSE W - 1 - b) - s
    IN /\ q >= 0
       /\ (IF descending(cmd) THEN q % W ELSE W - 1 - (q % W)) \in Stream(q \div W)

Bsource(i) == Source("B", i)

Bit(x, v) == IF x THEN v ELSE 0

Logic(i) ==
    {b \in Bits :
        Bit(Delayed(MaskedA, i, b, cmd.ash), 4) +
        Bit(IF "B" \in cmd.use THEN Delayed(Bsource, i, b, cmd.bsh)
                               ELSE b \in cmd.bhold, 2) +
        Bit(b \in Source("C", i), 1) \in cmd.minterm}

(* Inclusive fill: a bit is set when an odd number of edges lie on its     *)
(* line up to and including it, the carry in counted as one.               *)
Edges(i, b) ==
    {e \in Words \X Bits :
        /\ e[1] \div cmd.width = i \div cmd.width
        /\ e[2] \in Logic(e[1])
        /\ \/ e[1] < i
           \/ e[1] = i /\ (IF descending(cmd) THEN e[2] <= b ELSE e[2] >= b)}

Output(i) ==
    IF fill_mode(cmd) = "none" THEN Logic(i)
    ELSE {b \in Bits : (Cardinality(Edges(i, b)) + Bit(fill_carry_in(cmd), 1)) % 2 = 1}

(* No word is written more than one word before it is still to be read.    *)
NoClobber ==
    \A j \in Words, i \in Words, ch \in cmd.use \ {"D"} :
        At("D", j) = At(ch, i) => i <= j + 1

Copied ==
    IF "D" \notin cmd.use THEN ram
    ELSE [a \in ChipAddr |->
            LET w == {i \in Words : At("D", i) = a}
            IN IF w = {} THEN ram[a] ELSE Output(CHOOSE i \in w : \A j \in w : j <= i)]

(* A copy leaves in chip RAM what the stream view says, for every shift,   *)
(* mask and direction, without fill and with inclusive fill, also when     *)
(* source and destination overlap by the one word that the write pipeline  *)
(* allows; BZERO tells whether all of the output was 0.  Exclusive fill is *)
(* left out: blitter_ref.c gives it inclusive fill's result, on the edges  *)
(* too, and blitter_fill.c says "fill between edges, not on them".         *)
CopyMatchesStream ==
    [][(exec = "pending" /\ ~line_mode(cmd) /\ fill_mode(cmd) # "exclusive"
         /\ consumed' = 1 /\ NoClobber)
         => /\ ram' = Copied
            /\ result'.zero <=> \A i \in Words : Output(i) = {}]_bltVars

(* A line drawn slot by slot, with registers rewritten and DMA gated in    *)
(* between, ends with the RAM and the registers of the reference in        *)
(* blitter_ref.c, unless RAM was changed meanwhile.  A height of 0 is left *)
(* out: there the stepper publishes cleared pointers and the reference     *)
(* keeps them.                                                             *)
LineMatchesReference ==
    [][(busy /\ ~busy' /\ blitreq' /\ line_mode(cmd) /\ ~disturbed /\ cmd.height > 0)
         => LET ref == execute_line_mode(cmd, base)
            IN /\ ram' = ref.mem
               /\ regs' = publish(regs, ref.result)]_bltVars

(* While a blit runs, the slots still announced to the host are at least   *)
(* one and, with those consumed, make up the estimate, so the deadline at  *)
(* rigel.c:329 is never the present moment; and it ends with the slot that *)
(* the estimate named, no earlier and no later.  It takes a switch of the  *)
(* cost mode in mid-blit, or a line of height 0, to break this.            *)
SlotsExact ==
    ~disturbed /\ ~(line_mode(cmd) /\ cmd.height = 0) =>
        /\ busy => /\ remaining > 0
                   /\ consumed + remaining = estimate_cycles(cmd, cycle_exact)
        /\ ~busy /\ consumed > 0 => consumed = estimate_cycles(cmd, cycle_exact)

(* A blit ends while the arbiter may grant it slots.                       *)
BlitEnds == busy ~> (~busy \/ ~blten)

(* The blitter is well formed and takes the slots it announced.            *)
SlotsKept == BltTypeOK /\ SlotsExact
=============================================================================

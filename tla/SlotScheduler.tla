--------------------------- MODULE SlotScheduler ----------------------------
(***************************************************************************)
(* The slot scheduler of Agnus: a table of slot owners, rebuilt when it is *)
(* dirty, stepped once per colour clock; bitplane and sprite DMA as the    *)
(* slots drive them; and what the host is told about the bus.              *)
(* src/src/chipset/agnus/timing/slot_scheduler.c,                          *)
(* bitplanes/bitplane_pointers.c, dma/sprite_dma.c,                        *)
(* rigel_get_bus_state in src/src/core/rigel.c                             *)
(*                                                                         *)
(* Copper, blitter and disk are requesters with a number of slots still    *)
(* wanted (Copper, Blitter and DiskDma model them); the copper may ask at  *)
(* any clock.  Chip RAM holds at each address that address.                *)
(***************************************************************************)
EXTENDS SlotMap, SpriteDma

CONSTANTS
    FrameLines,   \* lines of a frame
    PtrWords,     \* word addresses of chip RAM
    Programs,     \* register settings the guest makes in one go
    DmaWrites,    \* sets of DMACON bits set or cleared later
    DiskLen,      \* words of a disk transfer
    BlitLen,      \* slots of a blit
    MaxBusOps     \* bound: operations of the guest

ASSUME SlotSchedulerAssumption ==
    /\ FrameLines \in Nat \ {0, 1} /\ PtrWords \in Nat \ {0}
    /\ DiskLen \in Nat \ {0} /\ BlitLen \in Nat \ {0} /\ MaxBusOps \in Nat

(* What the guest can write: register fields of the width the code has.    *)
ASSUME GuestAssumption ==
    /\ \A p \in Programs :
          /\ p.dmacon \subseteq DmaBits /\ p.depth \in 0..7 /\ p.hires \in BOOLEAN
          /\ {p.ddfstrt, p.ddfstop, p.vstrt, p.spr} \subseteq Nat
          /\ p.pt \in [Plane -> 0..(PtrWords - 1)] /\ p.mod \in Int \X Int
    /\ DmaWrites \subseteq SUBSET DmaBits
    /\ SpriteWords \in [DOMAIN SpriteWords -> Nat] /\ SpriteSpace \in Nat \ {0}

(* Sprite 0 has an A slot and after it a B slot (0x15, 0x17) of its own.   *)
SlotA == CHOOSE h \in SpritePos[0] : (h \div 2) % 2 = 0
SlotB == CHOOSE h \in SpritePos[0] : (h \div 2) % 2 = 1

ASSUME SpriteSlotsAssumption ==
    /\ 0 \in DOMAIN SpritePos /\ SpritePos[0] = {SlotA, SlotB} /\ SlotA < SlotB
    /\ (SlotA \div 2) % 2 = 0 /\ (SlotB \div 2) % 2 = 1
    /\ \A s \in DOMAIN SpritePos : s # 0 => SpritePos[s] \cap SpritePos[0] = {}

VARIABLES
    sched,     \* agnus_slot_scheduler_t: the table, its inputs, the flags
    beamAt,    \* <<hpos, vpos>>
    dmacon,    \* DMACON in the DMA domain
    bpl,       \* bitplane pointers, modulos and the latches of the line
    sprite,    \* one sprite DMA channel
    wants,     \* slots the disk and the blitter still want
    granted,   \* owner of the last clock
    quiet,     \* history: nothing disturbed the line so far
    band,      \* history: where the data of the sprite's band begins
    busOps     \* operations of the guest so far

busVars == <<sched, beamAt, dmacon, bpl, sprite, wants, granted, quiet, band, busOps>>

hpos == beamAt[1]
vpos == beamAt[2]

(* The registers the next rebuild will use.                                *)
SchedInputs == [dmacon |-> sched.dmacon, ddfstrt |-> sched.ddfstrt,
                ddfstop |-> sched.ddfstop, depth |-> sched.depth,
                hires |-> sched.hires, vstrt |-> sched.vstrt]

PtrOf(p) == p % PtrWords

BusTypeOK ==
    /\ sched.table \in [Slot -> Owners] /\ SchedInputs \in SchedRegs
    /\ beamAt \in Slot \X (0..(FrameLines - 1))
    /\ dmacon \in SUBSET DmaBits /\ (~sched.dirty => sched.dmacon = dmacon)
    /\ bpl.pt \in [Plane -> 0..(PtrWords - 1)]
    /\ \A x \in bpl.words : x \in Plane \X (0..(MaxWords - 1)) \X (0..(PtrWords - 1))
    /\ \A x, y \in bpl.words : x[1] = y[1] /\ x[2] = y[2] => x = y
    /\ sprite \in SpriteChannel /\ granted \in Owners
    /\ wants \in [disk: 0..DiskLen, blit: 0..BlitLen]
    /\ quiet \in BOOLEAN /\ busOps \in 0..MaxBusOps

(* agnus_slot_scheduler_init *)
scheduler_init ==
    [table |-> [h \in Slot |-> CPU], index |-> [h \in Slot |-> {}],
     dmacon |-> {}, ddfstrt |-> Unit * 2 + 1, ddfstop |-> Slots, depth |-> 0,
     hires |-> FALSE, vstrt |-> LastVbl + 1, dirty |-> TRUE,
     blitter |-> FALSE, nasty |-> FALSE, copper |-> FALSE]

line_reset(b) ==
    [b EXCEPT !.base = [p \in Plane |-> 0], !.valid = FALSE, !.depth = 0,
              !.count = 0, !.words = {}]

bplpt_reset ==
    [pt |-> [p \in Plane |-> 0], mod |-> <<0, 0>>, base |-> [p \in Plane |-> 0],
     valid |-> FALSE, depth |-> 0, count |-> 0, words |-> {}]

AtReset ==
    [sched |-> scheduler_init, beamAt |-> <<0, 0>>, bpl |-> bplpt_reset,
     sprite |-> sprite_reset, wants |-> [disk |-> 0, blit |-> 0]]

BusInit ==
    /\ sched = AtReset.sched /\ beamAt = AtReset.beamAt /\ bpl = AtReset.bpl
    /\ sprite = AtReset.sprite /\ wants = AtReset.wants /\ dmacon = {}
    /\ granted = CPU /\ quiet = TRUE /\ band = <<>> /\ busOps = 0

-----------------------------------------------------------------------------
(* agnus_slot_scheduler_step.                                              *)

(* Mutant: only a change of DMACON makes the table dirty, not a new line.  *)
scheduler_new_line_Clean(s) == s

(* A new line may lie in another part of the frame.                        *)
scheduler_new_line(s) == [s EXCEPT !.dirty = TRUE]

(* The flags follow the live registers; the table is rebuilt if dirty.     *)
scheduler_refresh(s, live, blit, copper) ==
    LET t == [s EXCEPT !.dirty = @ \/ s.dmacon # live, !.dmacon = live,
                       !.blitter = blit /\ On(live, "BLTEN"),
                       !.nasty = "BLTPRI" \in live,
                       !.copper = copper /\ On(live, "COPEN")]
        r == [SchedInputs EXCEPT !.dmacon = live]
    IN IF ~t.dirty THEN t
       ELSE [t EXCEPT !.dirty = FALSE,
                      !.table = [h \in Slot |-> table_owner(r, vpos, h)],
                      !.index = [h \in Slot |-> IF fetching(r, vpos)
                                                THEN logical_at(r, h) ELSE {}]]

(* dispatch_slot, AGNUS_SLOT_BITPLANE: the first fetch of a line latches   *)
(* the pointers and the depth; later ones count words from there.          *)
fetch_bitplane(b, depth, logical) ==
    LET plane == logical % depth
        widx == logical \div depth
        base == IF b.valid THEN b.base ELSE b.pt
    IN IF depth \in 1..MaxDepth /\ widx < MaxWords
       THEN [b EXCEPT !.base = base, !.valid = TRUE,
                      !.depth = IF b.valid THEN @ ELSE depth,
                      !.words = @ \cup {<<plane, widx, PtrOf(base[plane] + widx)>>},
                      !.count = IF widx + 1 > @ THEN widx + 1 ELSE @]
       ELSE b

(* Mutant: the odd planes take the modulo of the even ones.                *)
apply_modulo_OneForAll(b) ==
    [p \in Plane |-> IF p < b.depth THEN PtrOf(b.base[p] + b.count + b.mod[1]) ELSE b.pt[p]]

(* bplpt_apply_modulo, after the pointers have moved past the line.        *)
apply_modulo(b) ==
    [p \in Plane |-> IF p < b.depth THEN PtrOf(b.base[p] + b.count + b.mod[1 + (p % 2)])
                     ELSE b.pt[p]]

end_line(b) == line_reset(IF b.valid THEN [b EXCEPT !.pt = apply_modulo(b)] ELSE b)

(* The word a slot of the table fetches.                                   *)
word_of(index) == CHOOSE i \in index : TRUE

is_b == (hpos \div 2) % 2 = 1

(* dispatch_slot, AGNUS_SLOT_SPRITE_0.                                     *)
fetch_sprite(ch) == IF is_b THEN sprite_slot_b(ch, vpos) ELSE sprite_slot_a(ch, vpos)

next_at == IF hpos + 1 < Slots THEN <<hpos + 1, vpos>> ELSE <<0, (vpos + 1) % FrameLines>>

Step(copper) ==
    LET s == scheduler_refresh(sched, dmacon, wants.blit > 0, copper)
        own == s.table[hpos]
        byDisk == disk_override(s.dmacon, own, wants.disk > 0)
        owner == IF byDisk THEN DISK ELSE dynamic_owner(own, s.blitter, s.nasty, s.copper)
        restored == byDisk /\ "DSKEN" \notin s.dmacon
        t == IF restored THEN [s EXCEPT !.dmacon = @ \cup {"DSKEN"}, !.dirty = TRUE] ELSE s
        b == IF owner = BITPLANE
             THEN fetch_bitplane(bpl, s.depth, word_of(s.index[hpos])) ELSE bpl
        sp == IF owner = SPRITE(0) THEN fetch_sprite(sprite) ELSE sprite
    IN /\ granted' = owner
       /\ dmacon' = t.dmacon
       /\ beamAt' = next_at
       /\ sched' = IF next_at[1] = 0 THEN scheduler_new_line(t) ELSE t
       /\ bpl' = IF next_at[1] = 0 THEN end_line(b) ELSE b
       /\ sprite' = IF next_at = <<1, 0>> THEN sprite_frame_start(sp) ELSE sp
       /\ wants' = [disk |-> IF owner = DISK /\ wants.disk > 0 THEN wants.disk - 1
                             ELSE wants.disk,
                    blit |-> IF owner = BLITTER THEN wants.blit - 1 ELSE wants.blit]
       /\ quiet' = (next_at[1] = 0 \/ (quiet /\ ~byDisk))
       /\ band' = IF byDisk \/ next_at = <<1, 0>> THEN <<>>
                  ELSE IF owner = SPRITE(0) /\ is_b /\ sprite.fetch_ctrl
                          /\ sprite_delivers(sprite, vpos)
                  THEN (IF sp.vstart > vpos THEN <<sp.ptr>> ELSE <<>>)
                  ELSE band
       /\ UNCHANGED busOps

-----------------------------------------------------------------------------
(* The guest.                                                              *)
Op == busOps < MaxBusOps /\ busOps' = busOps + 1

Disturb == quiet' = FALSE /\ band' = <<>>

(* agnus_slot_scheduler_set_ddf, _set_vstrt, _set_hires, _set_depth        *)
set_ddf(s, strt, stop) ==
    [s EXCEPT !.ddfstrt = Masked(strt, Unit \div 2),
              !.ddfstop = Masked(stop, Unit \div 2), !.dirty = TRUE]

set_vstrt(s, v) == [s EXCEPT !.vstrt = v, !.dirty = @ \/ s.vstrt # v]

set_hires(s, hires) == [s EXCEPT !.hires = hires, !.dirty = @ \/ s.hires # hires]

set_depth(s, depth) == [s EXCEPT !.depth = depth, !.dirty = @ \/ s.depth # depth]

(* rigel_denise_write_reg hands BPLCON0 on.                                *)
set_bplcon0(s, depth, hires) == set_depth(set_hires(s, hires), depth)

SetSched(s) ==
    /\ Op /\ Disturb /\ sched' = s /\ s # sched
    /\ UNCHANGED <<beamAt, dmacon, bpl, sprite, wants, granted>>

WriteDdfStrt(v) == SetSched(set_ddf(sched, v, sched.ddfstop))
WriteDdfStop(v) == SetSched(set_ddf(sched, sched.ddfstrt, v))
WriteDiwStrt(v) == SetSched(set_vstrt(sched, v))
WriteBplcon0(depth, hires) == SetSched(set_bplcon0(sched, depth, hires))

(* A write of DMACON: agnus_slot_scheduler_invalidate.                     *)
invalidate(s, d) == [s EXCEPT !.dmacon = d, !.dirty = TRUE]

WriteDmacon(d) ==
    /\ Op /\ Disturb /\ d # dmacon
    /\ dmacon' = d /\ sched' = invalidate(sched, d)
    /\ UNCHANGED <<beamAt, bpl, sprite, wants, granted>>

(* bplpt_set_hi, bplpt_set_lo; a pointer written after the first fetch of  *)
(* a line is overwritten at its end.                                       *)
WriteBplPt(p, v) ==
    /\ Op /\ Disturb /\ bpl.pt[p] # v
    /\ bpl' = [bpl EXCEPT !.pt[p] = v]
    /\ UNCHANGED <<sched, beamAt, dmacon, sprite, wants, granted>>

WriteSprPt(v) ==
    /\ Op /\ Disturb
    /\ sprite' = sprite_set_ptr(sprite, v)
    /\ UNCHANGED <<sched, beamAt, dmacon, bpl, wants, granted>>

(* A run of register writes that sets up a display.                        *)
Program(p) ==
    /\ Op /\ Disturb
    /\ dmacon' = p.dmacon
    /\ sched' = invalidate(set_bplcon0(set_vstrt(set_ddf(sched, p.ddfstrt, p.ddfstop),
                                                 p.vstrt), p.depth, p.hires), p.dmacon)
    /\ bpl' = [bpl EXCEPT !.pt = p.pt, !.mod = p.mod]
    /\ sprite' = sprite_set_ptr(sprite, p.spr)
    /\ UNCHANGED <<beamAt, wants, granted>>

(* The second write of DSKLEN, and of a blitter size.                      *)
StartDisk ==
    /\ Op /\ wants' = [wants EXCEPT !.disk = DiskLen] /\ wants.disk = 0
    /\ UNCHANGED <<sched, beamAt, dmacon, bpl, sprite, granted, quiet, band>>

StartBlit ==
    /\ Op /\ wants' = [wants EXCEPT !.blit = BlitLen] /\ wants.blit = 0
    /\ UNCHANGED <<sched, beamAt, dmacon, bpl, sprite, granted, quiet, band>>

(* rigel_agnus_reset *)
ResetAgnus ==
    /\ Op
    /\ sched' = AtReset.sched /\ beamAt' = AtReset.beamAt /\ bpl' = AtReset.bpl
    /\ sprite' = AtReset.sprite /\ wants' = AtReset.wants /\ dmacon' = {}
    /\ granted' = CPU /\ quiet' = TRUE /\ band' = <<>>

(* Whether the copper wants the slot: only with its DMA on does it matter. *)
CopperAsks == IF On(dmacon, "COPEN") THEN BOOLEAN ELSE {FALSE}

BusNext ==
    \/ \E c \in CopperAsks : Step(c)
    \/ \E p \in Programs :
          \/ Program(p) \/ WriteDdfStrt(p.ddfstrt) \/ WriteDdfStop(p.ddfstop)
          \/ WriteDiwStrt(p.vstrt) \/ WriteBplcon0(p.depth, p.hires)
          \/ WriteSprPt(p.spr) \/ \E x \in Plane : WriteBplPt(x, p.pt[x])
    \/ \E d \in DmaWrites : WriteDmacon(dmacon \cup d) \/ WriteDmacon(dmacon \ d)
    \/ StartDisk \/ StartBlit \/ ResetAgnus

(* rigel_step drives the scheduler one clock at a time for as long as the  *)
(* host runs.                                                              *)
Clocked == beamAt' = next_at

Spec == BusInit /\ [][BusNext]_busVars /\ WF_beamAt(Clocked)

-----------------------------------------------------------------------------
(* The cached table is never out of date: with its dirty flag, its copy of *)
(* DMACON and its rebuilds it grants every clock to the owner that the     *)
(* registers of that moment call for.                                      *)
LiveRegs == [SchedInputs EXCEPT !.dmacon = dmacon]

A == INSTANCE Arbiter WITH
        LineLength <- Slots, FrameLength <- FrameLines,
        now <- LiveRegs, at <- beamAt, disk <- wants.disk, blit <- wants.blit,
        grant <- granted

ImplementsArbiter == A!ArbiterSpec

(* The clocks of a line at which its words are fetched, all in the line.   *)
Fits == \A i \in 0..(words_per_plane(SchedInputs) * sched.depth - 1) :
            \E h \in Slot : i \in logical_at(SchedInputs, h)

LineEnding ==
    /\ beamAt'[1] = 0 /\ hpos = Slots - 1 /\ sched'.depth = sched.depth /\ quiet
    /\ granted' # DISK /\ fetching(SchedInputs, vpos) /\ Fits
    /\ words_per_plane(SchedInputs) \in 1..MaxWords

(* The words of a line: n of each plane, from its pointer on.              *)
LineWords(pt, depth, n) ==
    {<<p, w, PtrOf(pt[p] + w)>> : p \in 0..(depth - 1), w \in 0..(n - 1)}

(* The words read up to and with the last clock of the line.               *)
WordsRead ==
    IF granted' = BITPLANE
    THEN fetch_bitplane(bpl, sched.depth, word_of(sched.index[hpos])).words
    ELSE bpl.words

LineRead(n) ==
    /\ WordsRead = LineWords(bpl.pt, sched.depth, n)
    /\ \A p \in Plane :
          bpl'.pt[p] = IF p < sched.depth THEN PtrOf(bpl.pt[p] + n + bpl.mod[1 + (p % 2)])
                       ELSE bpl.pt[p]

(* On a line that nothing disturbs, every plane is read from its pointer   *)
(* on, word by word and completely, and its pointer ends up past the line  *)
(* by the modulo of its parity; the planes beyond the depth stay.          *)
LineFetched == [][LineEnding => LineRead(words_per_plane(SchedInputs))]_busVars

(* The bitplanes leave sprite 0 both its slots: a fetch that begins        *)
(* between them takes the B slot alone, one that begins before may end at  *)
(* the A slot.                                                             *)
BothSlots(r, v) == \A h \in SpritePos[0] : table_owner(r, v, h) = SPRITE(0)

Showing ==
    /\ granted' = SPRITE(0) /\ is_b /\ sprite'.ptr # sprite.ptr
    /\ ~sprite.fetch_ctrl /\ band # <<>> /\ beamAt' # beamAt
    /\ BothSlots(LiveRegs, vpos)

PairOfLine ==
    /\ vpos \in sprite.vstart..(sprite.vstop - 1)
    /\ sprite.ptr = (band[1] + 2 * (vpos - sprite.vstart) + 1) % SpriteSpace

(* A sprite's band, once its control pair was fetched ahead of the first   *)
(* line, shows on each line the data pair of that line, from the first     *)
(* line to the one before the last, while nothing disturbs the channel and *)
(* the bitplanes leave it both its slots.                                  *)
SpriteShowsItsLine == [][Showing => PairOfLine]_busVars

-----------------------------------------------------------------------------
(* rigel_cpu_would_stall, agnus_slot_scheduler_cpu_stall.                  *)
current_owner == dynamic_owner(sched.table[hpos], sched.blitter, sched.nasty, sched.copper)

cpu_would_stall ==
    \/ wants.blit > 0 /\ "BLTPRI" \in dmacon
    \/ current_owner \notin {CPU, FREE}

(* A processor that is told to wait is let through in the end, unless the  *)
(* copper keeps asking, or a blit with BLTPRI was started or left without  *)
(* BLTEN: then rigel_cpu_would_stall stays true for good.                  *)
StallEnds ==
    cpu_would_stall ~> \/ ~cpu_would_stall
                       \/ "COPEN" \in dmacon
                       \/ wants.blit > 0 /\ ~On(dmacon, "BLTEN")

(* The scheduler's copies are well formed and current, an undisturbed line *)
(* fetches each word of each plane once, and a sprite shows the pair of    *)
(* each of its lines.                                                      *)
FetchesExact == []BusTypeOK /\ LineFetched /\ SpriteShowsItsLine
=============================================================================

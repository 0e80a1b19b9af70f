------------------------------ MODULE SlotMap -------------------------------
(***************************************************************************)
(* Who owns which colour clock of a line, as a function of the registers   *)
(* and the line: agnus_slot_scheduler_rebuild and the overrides applied at *)
(* every clock.                                                            *)
(* src/src/chipset/agnus/timing/slot_scheduler.c, dma/dmacon.h,            *)
(* dma/refresh_dma.c                                                       *)
(*                                                                         *)
(* A lores fetch unit of eight clocks and its plane order are parameters,  *)
(* and every mask of the code that depends on them is derived from Unit.   *)
(***************************************************************************)
EXTENDS Integers, FiniteSets

CONSTANTS
    Slots,        \* slots of a line (227)
    LastVbl,      \* last line of the vertical blank zone (25)
    RefreshPos,   \* clocks of the refresh slots
    DiskPos,      \* clocks of the disk slots
    AudioPos,     \* clock of each audio channel's slot
    SpritePos,    \* clocks of each sprite's two slots
    Unit,         \* clocks of a lores fetch unit (8)
    PlaneOrder,   \* offset of each plane in the unit
    MaxDepth,     \* planes the display has (6)
    DefaultWords, \* words of a line whose stop is not after its start (20)
    MaxWords      \* words of a line Denise keeps

Plane == 0..(MaxDepth - 1)
Slot == 0..(Slots - 1)

ASSUME SlotMapAssumption ==
    /\ Slots \in Nat \ {0, 1} /\ LastVbl \in Nat
    /\ RefreshPos \cup DiskPos \subseteq Slot
    /\ \A ch \in DOMAIN AudioPos : AudioPos[ch] \in Slot
    /\ \A s \in DOMAIN SpritePos : SpritePos[s] \subseteq Slot
    /\ Unit \in Nat /\ Unit % 4 = 0 /\ Unit # 0
    /\ PlaneOrder \in [Plane -> 0..(Unit - 1)]
    /\ \A p, q \in Plane : PlaneOrder[p] = PlaneOrder[q] => p = q
    /\ MaxDepth \in Nat \ {0} /\ DefaultWords \in Nat /\ MaxWords \in Nat \ {0}

(* Owners: a kind and the number of the channel.                           *)
FREE == <<"FREE", 0>>
CPU == <<"CPU", 0>>
REFRESH == <<"REFRESH", 0>>
DISK == <<"DISK", 0>>
BITPLANE == <<"BITPLANE", 0>>
COPPER == <<"COPPER", 0>>
BLITTER == <<"BLITTER", 0>>
AUDIO(ch) == <<"AUDIO", ch>>
SPRITE(s) == <<"SPRITE", s>>

Owners == {FREE, CPU, REFRESH, DISK, BITPLANE, COPPER, BLITTER}
          \cup {AUDIO(ch) : ch \in DOMAIN AudioPos}
          \cup {SPRITE(s) : s \in DOMAIN SpritePos}

(* DMACON is the set of its bits; a channel's bit counts only with DMAEN.  *)
DmaBits == {"DMAEN", "BLTPRI", "BPLEN", "COPEN", "BLTEN", "SPREN", "DSKEN", "AUDEN"}

On(dmacon, bit) == {"DMAEN", bit} \subseteq dmacon

(* The registers the map depends on.                                       *)
SchedRegs == [dmacon: SUBSET DmaBits, ddfstrt: Nat, ddfstop: Nat,
              depth: 0..7, hires: BOOLEAN, vstrt: Nat]

Masked(v, m) == v - (v % m)

(* bitplane_words_per_plane *)
words_per_plane(r) ==
    LET start == Masked(r.ddfstrt, IF r.hires THEN Unit \div 4 ELSE Unit \div 2)
        stop  == Masked(r.ddfstop, Unit \div 4)
        half  == Unit \div 2
        span  == stop - start
        n == IF stop <= start THEN (IF r.hires THEN 2 * DefaultWords ELSE DefaultWords)
             ELSE IF r.hires THEN span \div half + (IF (span \div half) % 2 = 1 THEN 3 ELSE 2)
             ELSE span \div Unit + 1
    IN IF r.depth = 0 \/ r.depth > MaxDepth THEN 0
       ELSE IF stop > start /\ n > MaxWords THEN MaxWords ELSE n

fetching(r, v) == v > LastVbl /\ v >= r.vstrt /\ On(r.dmacon, "BPLEN")

(* The words fetched at clock h, numbered word by word; the table keeps    *)
(* the last that was put there.                                            *)
logical_at(r, h) ==
    IF r.hires
    THEN {i \in {h - r.ddfstrt} : i \in 0..(words_per_plane(r) * r.depth - 1)}
    ELSE {x[1] * r.depth + x[2] :
            x \in {y \in (0..(words_per_plane(r) - 1)) \X Plane :
                     /\ y[2] < r.depth
                     /\ h = r.ddfstrt + y[1] * Unit + PlaneOrder[y[2]]}}

(* agnus_slot_scheduler_rebuild: later assignments of a slot win, so       *)
(* bitplanes take sprite, audio, disk and refresh slots.                   *)
table_owner(r, v, h) ==
    LET sprites == {s \in DOMAIN SpritePos : h \in SpritePos[s] /\ On(r.dmacon, "SPREN")}
        audio   == {c \in DOMAIN AudioPos : h = AudioPos[c] /\ On(r.dmacon, "AUDEN")}
    IN IF fetching(r, v) /\ logical_at(r, h) # {} THEN BITPLANE
       ELSE IF sprites # {} THEN SPRITE(CHOOSE s \in sprites : TRUE)
       ELSE IF audio # {} THEN AUDIO(CHOOSE c \in audio : TRUE)
       ELSE IF h \in DiskPos /\ On(r.dmacon, "DSKEN") THEN DISK
       ELSE IF h \in RefreshPos THEN REFRESH
       ELSE IF "DMAEN" \in r.dmacon THEN FREE ELSE CPU

(* The disk takes any slot but a refresh while a read is in progress.      *)
disk_override(dmacon, owner, disk_wants) ==
    owner # REFRESH /\ "DMAEN" \in dmacon /\ disk_wants

(* Mutant: the blitter takes a slot from the processor only.               *)
dynamic_owner_CpuSlots(owner, blitter, nasty, copper) ==
    IF blitter THEN (IF nasty /\ owner = CPU THEN BLITTER ELSE owner)
    ELSE IF copper /\ owner = FREE THEN COPPER
    ELSE owner

(* The blitter takes free slots, the copper those the blitter leaves.      *)
dynamic_owner(owner, blitter, nasty, copper) ==
    IF blitter THEN (IF owner = FREE \/ (nasty /\ owner = CPU) THEN BLITTER ELSE owner)
    ELSE IF copper /\ owner = FREE THEN COPPER
    ELSE owner
=============================================================================

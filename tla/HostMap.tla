------------------------------ MODULE HostMap -------------------------------
(***************************************************************************)
(* The address map of the harness: which device answers an access of the   *)
(* 68000, with the boot overlay, the Zorro II autoconfig window and the    *)
(* two expansion boards, whose place the guest chooses.                    *)
(* src/harness/harness.c, expansions/fastram.c, lide.c, zorro.c            *)
(*                                                                         *)
(* An address is a 64K page, the unit in which boards are placed, and an   *)
(* offset in it.  A device is reached as <<kind, page, offset>>, counted   *)
(* from where the device begins.                                           *)
(***************************************************************************)
EXTENDS Integers, Sequences, FiniteSets

CONSTANTS
    ChipPages, SlowPages,  \* RAM of the machine, in pages
    RomPages,              \* pages of the ROM image, mirrored in its window
    FastPages, LidePages,  \* windows of the two boards
    Places,                \* pages the guest gives to boards
    Offsets,               \* even offsets that are accessed
    MapValues,             \* bytes that are written
    MaxMapOps              \* bound: writes, placements and overlay switches

SlowBase == 192   \* 0xC00000
CustomPage == 223 \* 0xDF0000
AcPage == 232     \* 0xE80000
RomBase == 248    \* 0xF80000
CiaPages == 160..191

ASSUME HostMapAssumption ==
    /\ {ChipPages, SlowPages, RomPages, FastPages, LidePages} \subseteq Nat
    /\ RomPages # 0 /\ \A o \in Offsets : o \in Nat /\ o % 2 = 0
    /\ 0 \notin MapValues

(* Zorro II as the guest's system uses it: boards are placed in a space of *)
(* their own, apart from slow RAM and from the registers; and the RAM of   *)
(* the machine ends before the registers.                                  *)
ASSUME ZorroAssumption ==
    /\ Places \subseteq Nat \ {AcPage}
    /\ \A v \in Places \cup {32} : \A p \in v..(v + FastPages - 1) :
          p \notin SlowBase..(SlowBase + SlowPages - 1)
    /\ \A v \in Places : CustomPage \notin v..(v + LidePages - 1)
    /\ CustomPage \notin 0..(ChipPages - 1) \cup SlowBase..(SlowBase + SlowPages - 1) \cup Places

VARIABLES
    boards,   \* per board: plugged, configured, shutup, base
    ovl,      \* harness_overlay: CIA-A port A bit 0, unless a hunk image runs
    exec_mode,\* a hunk image was loaded
    ram,      \* the RAM devices: cell -> byte
    wrote,    \* history: what the guest wrote where, while the map stayed
    named,    \* history: the boards in the order the guest dealt with them
    mapOps

mapVars == <<boards, ovl, exec_mode, ram, wrote, named, mapOps>>

BASE_HI == 72
SHUTUP == 76

Board == [plugged: BOOLEAN, configured: BOOLEAN, shutup: BOOLEAN, base: Nat]
BoardNames == {"fast", "lide"}

(* Pages where RAM is or may be put; the other pages hold registers or ROM.*)
RamPages == 0..(ChipPages - 1) \cup SlowBase..(SlowBase + SlowPages - 1) \cup Places
Pages == RamPages \cup {CustomPage, AcPage, RomBase, 191}
Bytes == Offsets \cup {o + 1 : o \in Offsets}

(* fastram_owns, lide_owns *)
owns(name, p) ==
    LET b == boards[name]
        size == IF name = "fast" THEN FastPages ELSE LidePages
    IN b.plugged /\ b.configured /\ p \in b.base..(b.base + size - 1)

(* fastram_pending, lide_pending *)
pending(name) ==
    boards[name].plugged /\ ~boards[name].configured /\ ~boards[name].shutup

(* The board that answers the autoconfig window: memory first.             *)
answering ==
    IF pending("fast") THEN {"fast"} ELSE IF pending("lide") THEN {"lide"} ELSE {}

rom(p, o) == <<"rom", p % RomPages, o>>

slow(p) == p \in SlowBase..(SlowBase + SlowPages - 1)

(* harness_rom_read8; nothing drives the bus anywhere else.                *)
rom_or_open(p, o) == IF p >= RomBase THEN rom(p, o) ELSE <<"open", 0, 0>>

(* harness_read8 *)
read8(p, o) ==
    IF p < ChipPages THEN (IF ovl THEN rom(p, o) ELSE <<"chip", p, o>>)
    ELSE IF owns("fast", p) THEN <<"fast", p - boards["fast"].base, o>>
    ELSE IF owns("lide", p) THEN <<"lide", p - boards["lide"].base, o>>
    ELSE IF p = AcPage /\ answering # {} THEN <<"autoconfig", 0, o>>
    ELSE IF p \in CiaPages THEN <<"cia", p, o>>
    ELSE IF slow(p) THEN <<"slow", p - SlowBase, o>>
    ELSE IF p = CustomPage THEN <<"custom", 0, o - (o % 2)>>
    ELSE rom_or_open(p, o)

(* harness_write8: the overlay redirects reads only.                       *)
write8(p, o) == IF p < ChipPages THEN <<"chip", p, o>> ELSE read8(p, o)

(* harness_read16, harness_write16: these go out as one access of a word,  *)
(* all others as two of a byte.                                            *)
one_access(p) ==
    p = CustomPage \/ p < ChipPages \/ owns("fast", p) \/ owns("lide", p)

read16(p, o) == IF p = CustomPage THEN <<"custom", 0, o>> ELSE read8(p, o)

(* harness_write16: where byte i of a word goes; registers come first.     *)
write16(p, o, i) ==
    IF p = CustomPage THEN <<"custom", 0, o>>
    ELSE IF p < ChipPages THEN <<"chip", p, o + i>>
    ELSE IF owns("fast", p) THEN <<"fast", p - boards["fast"].base, o + i>>
    ELSE IF owns("lide", p) THEN <<"lide", p - boards["lide"].base, o + i>>
    ELSE write8(p, o + i)

(* harness_peek16, for the debugger: memory only, and slow RAM before fast.*)
peek(p, o) ==
    IF p < ChipPages THEN (IF ovl THEN rom(p, o) ELSE <<"chip", p, o>>)
    ELSE IF slow(p) THEN <<"slow", p - SlowBase, o>>
    ELSE IF owns("fast", p) THEN <<"fast", p - boards["fast"].base, o>>
    ELSE IF p \in CiaPages \cup {CustomPage} \/ owns("lide", p) THEN <<"zero", 0, 0>>
    ELSE rom_or_open(p, o)

Memory == {"chip", "fast", "slow"}
Cells == ({"chip"} \X (0..(ChipPages - 1)) \X Bytes)
         \cup ({"fast"} \X (0..(FastPages - 1)) \X Bytes)
         \cup ({"slow"} \X (0..(SlowPages - 1)) \X Bytes)

MapTypeOK ==
    /\ boards \in [BoardNames -> Board] /\ ovl \in BOOLEAN /\ exec_mode \in BOOLEAN
    /\ ram \in [Cells -> MapValues \cup {0}]
    /\ DOMAIN wrote \subseteq Pages \X Bytes
    /\ \A i, j \in DOMAIN named : i # j => named[i] # named[j]
    /\ \A i \in DOMAIN named : ~pending(named[i])

(* harness_create_ex, harness_attach_fastram, harness_attach_lide.         *)
MapInit ==
    /\ boards \in [BoardNames -> [plugged: BOOLEAN, configured: {FALSE},
                                  shutup: {FALSE}, base: {0}]]
    /\ ovl = TRUE /\ exec_mode = FALSE /\ ram = [c \in Cells |-> 0] /\ wrote = <<>> /\ named = <<>>
    /\ mapOps = 0

MapOp == mapOps < MaxMapOps /\ mapOps' = mapOps + 1

-----------------------------------------------------------------------------
(* A write outside the autoconfig window: the bytes in the order they go   *)
(* out.  Registers are other modules' business.                            *)
Store(mem, cell, v) == IF cell[1] \in Memory THEN [mem EXCEPT ![cell] = v] ELSE mem

Note(p, o, hi, lo) ==
    [x \in DOMAIN wrote \cup {<<p, o>>, <<p, o + 1>>} |->
        IF x = <<p, o>> THEN hi ELSE IF x = <<p, o + 1>> THEN lo ELSE wrote[x]]

WriteByte(p, o, v) ==
    /\ MapOp
    /\ ram' = Store(ram, write8(p, o), v)
    /\ wrote' = [x \in DOMAIN wrote \cup {<<p, o>>} |-> IF x = <<p, o>> THEN v ELSE wrote[x]]
    /\ UNCHANGED <<boards, ovl, exec_mode, named>>

WriteWord(p, o, hi, lo) ==
    /\ MapOp
    /\ ram' = Store(Store(ram, write16(p, o, 0), hi), write16(p, o, 1), lo)
    /\ wrote' = Note(p, o, hi, lo)
    /\ UNCHANGED <<boards, ovl, exec_mode, named>>

(* fastram_ac_write, lide_ac_write *)
ac_write(b, o, v) ==
    IF o = BASE_HI THEN [b EXCEPT !.base = v, !.configured = TRUE]
    ELSE IF o = SHUTUP THEN [b EXCEPT !.shutup = TRUE]
    ELSE b

(* Mutant: the write goes to every board that is pending.                  *)
autoconfig_write_All(bs, o, v) ==
    [n \in BoardNames |-> IF pending(n) THEN ac_write(bs[n], o, v) ELSE bs[n]]

(* harness_autoconfig_write *)
autoconfig_write(bs, o, v) ==
    [n \in BoardNames |-> IF n \in answering THEN ac_write(bs[n], o, v) ELSE bs[n]]

(* A write of the guest into the autoconfig window.  A word goes out as    *)
(* two bytes; the second, at an odd offset, means nothing to the board     *)
(* that is then answering.                                                 *)
Autoconfig(o, v) ==
    /\ MapOp /\ answering # {} /\ boards' = autoconfig_write(boards, o, v)
    /\ boards' # boards
    /\ wrote' = <<>>
    /\ named' = named \o [i \in 1..Cardinality(answering) |-> CHOOSE n \in answering : TRUE]
    /\ UNCHANGED <<ovl, exec_mode, ram>>

(* harness_load_hunk: a memory board without a place is put at 0x200000    *)
(* (fastram_force_configure), and once the image is loaded the overlay is  *)
(* off for good.  The image goes out through harness_write8, byte by byte  *)
(* as in WriteByte; what it leaves in RAM is not followed further.         *)
ForceConfigure ==
    /\ MapOp /\ boards["fast"].plugged /\ ~boards["fast"].configured
    /\ boards' = [boards EXCEPT !["fast"].base = 32, !["fast"].configured = TRUE]
    /\ named' = IF pending("fast") THEN Append(named, "fast") ELSE named
    /\ \E loaded \in BOOLEAN : exec_mode' = (exec_mode \/ loaded) /\ ovl' = (ovl /\ ~loaded)
    /\ wrote' = <<>> /\ UNCHANGED ram

LoadHunk ==
    /\ MapOp /\ ~exec_mode /\ (boards["fast"].plugged => boards["fast"].configured)
    /\ exec_mode' = TRUE /\ ovl' = FALSE
    /\ wrote' = <<>> /\ UNCHANGED <<boards, ram, named>>

(* The guest drives OVL through CIA-A.                                     *)
SwitchOverlay ==
    /\ MapOp /\ ~exec_mode /\ ovl' = ~ovl
    /\ UNCHANGED <<boards, exec_mode, ram, wrote, named>>

MapNext ==
    \/ \E p \in RamPages, o \in Offsets, v \in MapValues :
          \/ WriteByte(p, o, v) \/ WriteByte(p, o + 1, v)
          \/ \E lo \in MapValues : WriteWord(p, o, v, lo)
    \/ \E v \in Places : Autoconfig(BASE_HI, v)
    \/ Autoconfig(SHUTUP, 0) \/ ForceConfigure \/ LoadHunk \/ SwitchOverlay

MapSpec == MapInit /\ [][MapNext]_mapVars

-----------------------------------------------------------------------------
(* RAM gives back what was last written there, byte or word, through       *)
(* either path, with writes under the overlay showing once it is gone;     *)
(* and the debugger sees the bytes the processor sees.                     *)
WrittenIsRead ==
    \A x \in DOMAIN wrote :
        LET cell == read8(x[1], x[2])
        IN cell[1] \in Memory => ram[cell] = wrote[x] /\ peek(x[1], x[2]) = cell

(* A word access to a device with side effects is one access of the device *)
(* that its byte addresses belong to, at the even offset: the decoder of   *)
(* words, with its own order, agrees with that of bytes.                   *)
WordIsOneAccess ==
    \A p \in Pages, o \in Offsets :
        read8(p, o)[1] \in {"lide", "custom"} =>
            one_access(p) /\ read16(p, o) = read8(p, o) /\ write16(p, o, 0) = read8(p, o)

(* One board at a time answers the window, the memory board first, and     *)
(* each takes one base or is silenced once.                                *)
BoardsInTurn ==
    [][boards' # boards =>
         /\ Cardinality({n \in BoardNames : boards'[n] # boards[n]}) = 1
         /\ boards'["lide"] # boards["lide"] => ~pending("fast")
         /\ \A n \in BoardNames : boards[n].configured => boards'[n] = boards[n]]_mapVars

(* One device answers an address: RAM returns what was written, a word     *)
(* reaches one device once, and boards take their places in turn.          *)
MapHonest ==
    /\ []MapTypeOK
    /\ []WrittenIsRead
    /\ []WordIsOneAccess
    /\ BoardsInTurn
=============================================================================

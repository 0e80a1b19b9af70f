----------------------------- MODULE BlitterOps -----------------------------
(***************************************************************************)
(* What a blit computes: the minterm logic, the barrel shifters, the fill  *)
(* and the line stepper, as operators on a frozen command and chip RAM.    *)
(* src/src/chipset/agnus/blitter/ (blitter_ref.c, blitter_line.c,          *)
(* blitter_command.c).                                                     *)
(*                                                                         *)
(* A word is the set of its 1 bits, bit 0 the lowest.  Addresses are byte  *)
(* addresses; chip RAM is a function on the even ones.                     *)
(***************************************************************************)
EXTENDS Integers

CONSTANTS
    W,          \* bits of a word (16)
    ChipBytes,  \* bytes of chip RAM the address mask leaves (2 MB)
    PtrSpace,   \* values of a pointer register (2^32)
    ErrSpace,   \* values of the line error term (2^16)
    DotSpace    \* values of one_dot_count (2^8)

ASSUME BlitterOpsAssumption ==
    /\ W \in Nat \ {0, 1}
    /\ ChipBytes \in Nat \ {0} /\ ChipBytes % 2 = 0
    /\ PtrSpace \in Nat /\ PtrSpace % ChipBytes = 0 /\ PtrSpace # 0
    /\ ErrSpace \in Nat \ {0} /\ ErrSpace % 2 = 0
    /\ DotSpace \in Nat \ {0}

Bits == 0..(W - 1)
Word == SUBSET Bits
AllOnes == Bits

ChipAddr == {a \in 0..(ChipBytes - 1) : a % 2 = 0}

(* BLITTER_CHIP_ADDR_MASK *)
Chip(p) == LET m == p % ChipBytes IN m - (m % 2)

Ptr(p) == p % PtrSpace

-----------------------------------------------------------------------------
(* The frozen command, BlitCommand.                                        *)
Channel4 == {"A", "B", "C", "D"}

BlitCommand ==
    [pt: [Channel4 -> 0..(PtrSpace - 1)], mod: [Channel4 -> Int],
     dat: [{"A", "B", "C"} -> Word], bhold: Word, afwm: Word, alwm: Word,
     width: Nat, height: Nat, minterm: SUBSET (0..7), ash: Bits, bsh: Bits,
     use: SUBSET Channel4, con1: SUBSET (0..7)]

(* BLTCON1 bits mean different things in the two modes.                    *)
line_mode(cmd)     == 0 \in cmd.con1
descending(cmd)    == 1 \in cmd.con1
single_dot(cmd)    == 1 \in cmd.con1
fill_carry_in(cmd) == 2 \in cmd.con1
initial_sign(cmd)  == 6 \in cmd.con1
(* line_octant bits 0, 1 and 2 *)
aul(cmd) == 2 \in cmd.con1
sul(cmd) == 3 \in cmd.con1
sud(cmd) == 4 \in cmd.con1

(* decode_fill_mode *)
fill_mode(cmd) ==
    IF 3 \in cmd.con1 /\ 4 \notin cmd.con1 THEN "inclusive"
    ELSE IF 4 \in cmd.con1 /\ 3 \notin cmd.con1 THEN "exclusive"
    ELSE "none"

-----------------------------------------------------------------------------
(* Words.                                                                  *)

(* blitter_logic: the union of the products the minterm selects.           *)
blitter_logic(minterm, A, B, C) ==
    UNION {(IF m >= 4 THEN A ELSE Bits \ A) \cap
           (IF (m \div 2) % 2 = 1 THEN B ELSE Bits \ B) \cap
           (IF m % 2 = 1 THEN C ELSE Bits \ C) : m \in minterm}

shift_ascending(previous, current, s) ==
    {b + W - s : b \in {x \in previous : x < s}} \cup
    {b - s : b \in {x \in current : x >= s}}

shift_descending(previous, current, s) ==
    {b - (W - s) : b \in {x \in previous : x >= W - s}} \cup
    {b + s : b \in {x \in current : x < W - s}}

apply_shift(cmd, previous, current, s) ==
    IF descending(cmd) THEN shift_descending(previous, current, s)
    ELSE shift_ascending(previous, current, s)

(* blitter_apply_a_masks *)
apply_a_masks(cmd, v, x) ==
    v \cap (IF x = 0 THEN cmd.afwm ELSE AllOnes)
      \cap (IF x + 1 = cmd.width THEN cmd.alwm ELSE AllOnes)

(* The i-th bit (from 0) in the direction of the blit.                     *)
BitAt(cmd, i) == IF descending(cmd) THEN i ELSE W - 1 - i

(* blitter_fill_word: the carry after the first i bits.  Inclusive fill    *)
(* writes the carry after a bit was taken in, exclusive fill the carry     *)
(* before it xor the bit, which is the same value.                         *)
fill_carry(cmd, d, c) ==
    LET carry[i \in 0..W] ==
          IF i = 0 THEN c
          ELSE carry[i - 1] # (BitAt(cmd, i - 1) \in d)
    IN carry

blitter_fill_word(cmd, d, c) ==
    {BitAt(cmd, i) : i \in {x \in Bits :
        IF fill_mode(cmd) = "inclusive" THEN fill_carry(cmd, d, c)[x + 1]
        ELSE fill_carry(cmd, d, c)[x] # (BitAt(cmd, x) \in d)}}

(* blitter_apply_fill *)
apply_fill(cmd, d, c) ==
    IF fill_mode(cmd) = "none" THEN d ELSE blitter_fill_word(cmd, d, c)

carry_out(cmd, d, c) ==
    IF fill_mode(cmd) = "none" THEN c ELSE fill_carry(cmd, d, c)[W]

-----------------------------------------------------------------------------
(* execute_copy_mode.  D of a word is written after the fetches of the     *)
(* next word (pending_d).                                                  *)

step2(cmd) == IF descending(cmd) THEN -2 ELSE 2

copy_state_init(cmd, mem) ==
    [pt |-> cmd.pt, prevA |-> {}, prevB |-> {}, bhold |-> cmd.bhold,
     dat |-> cmd.dat, ddat |-> {}, carry |-> fill_carry_in(cmd),
     zero |-> TRUE, pending |-> {}, mem |-> mem]

(* The write of the word before, if there is one.                          *)
write_pending(st) ==
    [st EXCEPT !.mem = [a \in ChipAddr |->
                            IF \E p \in st.pending : p[1] = a
                            THEN (CHOOSE p \in st.pending : p[1] = a)[2]
                            ELSE @[a]],
               !.pending = {}]

(* blitter_fetch_word for the three sources.                               *)
fetch_words(cmd, st) ==
    LET used == cmd.use \cap {"A", "B", "C"}
    IN [st EXCEPT
          !.dat = [ch \in {"A", "B", "C"} |->
                      IF ch \in used THEN st.mem[Chip(st.pt[ch])] ELSE cmd.dat[ch]],
          !.pt  = [ch \in Channel4 |->
                      IF ch \in used THEN Ptr(@[ch] + step2(cmd)) ELSE @[ch]]]

(* Mutant: D is written before the next word's fetches.                    *)
fetch_then_write_Eager(cmd, st) == fetch_words(cmd, write_pending(st))

fetch_then_write(cmd, st) == write_pending(fetch_words(cmd, st))

copy_word(cmd, st0, x) ==
    LET st == fetch_then_write(cmd, st0)
        adat == apply_a_masks(cmd, st.dat["A"], x)
        A == apply_shift(cmd, st.prevA, adat, cmd.ash)
        B == IF "B" \in cmd.use
             THEN apply_shift(cmd, st.prevB, st.dat["B"], cmd.bsh) ELSE st.bhold
        c == IF x = 0 THEN fill_carry_in(cmd) ELSE st.carry
        raw == blitter_logic(cmd.minterm, A, B, st.dat["C"])
        D == apply_fill(cmd, raw, c)
    IN [st EXCEPT
          !.prevA = adat, !.bhold = B, !.carry = carry_out(cmd, raw, c),
          !.prevB = IF "B" \in cmd.use THEN st.dat["B"] ELSE @,
          !.zero = @ /\ D = {}, !.ddat = D,
          !.pending = IF "D" \in cmd.use THEN {<<Chip(st.pt["D"]), D>>} ELSE {},
          !.pt["D"] = IF "D" \in cmd.use THEN Ptr(@ + step2(cmd)) ELSE @]

(* blitter_copy_advance_line *)
advance_line(cmd, st) ==
    [st EXCEPT !.pt = [ch \in Channel4 |->
        Ptr(IF descending(cmd) THEN @[ch] - cmd.mod[ch] ELSE @[ch] + cmd.mod[ch])]]

(* blitter_copy_publish_result: what is left in the registers.             *)
execute_copy_mode(cmd, mem) ==
    LET w == cmd.width
        at[i \in 0..(w * cmd.height)] ==
            IF i = 0 THEN copy_state_init(cmd, mem)
            ELSE LET st == copy_word(cmd, at[i - 1], (i - 1) % w)
                 IN IF i % w = 0 THEN advance_line(cmd, st) ELSE st
        end == write_pending(at[w * cmd.height])
    IN [mem |-> end.mem,
        result |-> [pt |-> end.pt, dat |-> end.dat, ddat |-> end.ddat,
                    bhold |-> end.bhold, zero |-> end.zero]]

-----------------------------------------------------------------------------
(* Line mode: blitter_line.c.                                              *)

Signed(e) == LET m == e % ErrSpace IN IF m < ErrSpace \div 2 THEN m ELSE m - ErrSpace

rotate_right(p, s) == {(b - s) % W : b \in p}
rotate_left(p) == {(b + 1) % W : b \in p}

(* line_state_init *)
line_state_init(cmd) ==
    [error |-> Signed(cmd.pt["A"]), pattern |-> rotate_right(cmd.dat["B"], cmd.bsh),
     cpt |-> Chip(cmd.pt["C"]), step_index |-> 0, x_shift |-> cmd.ash,
     dots |-> 0, cdat |-> cmd.dat["C"], ddat |-> {}, zero |-> TRUE,
     sign |-> initial_sign(cmd)]

line_incx(s) ==
    IF s.x_shift = W - 1 THEN [s EXCEPT !.x_shift = 0, !.cpt = Chip(@ + 2)]
    ELSE [s EXCEPT !.x_shift = @ + 1]

line_decx(s) ==
    IF s.x_shift = 0 THEN [s EXCEPT !.x_shift = W - 1, !.cpt = Chip(@ - 2)]
    ELSE [s EXCEPT !.x_shift = @ - 1]

line_incy(s, mod) == [s EXCEPT !.cpt = Chip(@ + mod), !.dots = 0]
line_decy(s, mod) == [s EXCEPT !.cpt = Chip(@ - mod), !.dots = 0]

move_x(s, back) == IF back THEN line_decx(s) ELSE line_incx(s)
move_y(s, back, mod) == IF back THEN line_decy(s, mod) ELSE line_incy(s, mod)

(* line_advance: the minor axis moves when the sign was clear, the major   *)
(* axis always; SUD makes x the major axis.                                *)
line_advance(cmd, s) ==
    LET e == IF "A" \notin cmd.use THEN s.error
             ELSE Signed(s.error + (IF s.sign THEN cmd.mod["B"] ELSE cmd.mod["A"]))
        s1 == [s EXCEPT !.error = e]
        s2 == IF s.sign THEN s1
              ELSE IF sud(cmd) THEN move_y(s1, sul(cmd), cmd.mod["C"])
              ELSE move_x(s1, sul(cmd))
        s3 == IF sud(cmd) THEN move_x(s2, aul(cmd))
              ELSE move_y(s2, aul(cmd), cmd.mod["C"])
    IN [s3 EXCEPT !.sign = e < 0]

line_value(cmd, s, c) ==
    blitter_logic(cmd.minterm,
                  {b - s.x_shift : b \in {x \in cmd.dat["A"] \cap cmd.afwm : x >= s.x_shift}},
                  IF 0 \in s.pattern THEN AllOnes ELSE {}, c)

(* The word a pixel is read from and, when it is drawn, written to.        *)
line_cval(cmd, s, mem) == IF "C" \in cmd.use THEN mem[s.cpt] ELSE cmd.dat["C"]

line_draws(cmd, s) == "C" \in cmd.use /\ (~single_dot(cmd) \/ s.dots = 0)

line_mem(cmd, s, mem) ==
    IF line_draws(cmd, s)
    THEN [mem EXCEPT ![s.cpt] = line_value(cmd, s, line_cval(cmd, s, mem))] ELSE mem

(* blitter_line_step, after line_state_init.                               *)
line_pixel(cmd, s, mem) ==
    LET c == line_cval(cmd, s, mem)
        d == line_value(cmd, s, c)
        t == line_advance(cmd, [s EXCEPT !.cdat = c, !.ddat = d,
                                         !.zero = @ /\ d = {},
                                         !.step_index = @ + 1,
                                         !.dots = (@ + 1) % DotSpace])
    IN [t EXCEPT !.pattern = rotate_left(@)]

(* line_publish_partial_result *)
line_result(cmd, s) ==
    [pt |-> [cmd.pt EXCEPT
                !["A"] = (cmd.pt["A"] \div ErrSpace) * ErrSpace + (s.error % ErrSpace),
                !["C"] = s.cpt, !["D"] = s.cpt],
     dat |-> [cmd.dat EXCEPT !["C"] = s.cdat], ddat |-> s.ddat,
     bhold |-> cmd.bhold, zero |-> s.zero]

(* execute_line_mode: the whole line at once, as blitter_ref.c defines it. *)
execute_line_mode(cmd, mem) ==
    LET at[i \in 0..cmd.height] ==
          IF i = 0 THEN [s |-> line_state_init(cmd), mem |-> mem]
          ELSE [s |-> line_pixel(cmd, at[i - 1].s, at[i - 1].mem),
                mem |-> line_mem(cmd, at[i - 1].s, at[i - 1].mem)]
        end == at[cmd.height]
    IN [mem |-> end.mem,
        result |-> IF cmd.height > 0 THEN line_result(cmd, end.s)
                   ELSE [pt |-> cmd.pt, dat |-> cmd.dat, ddat |-> {},
                         bhold |-> cmd.bhold, zero |-> TRUE]]
=============================================================================

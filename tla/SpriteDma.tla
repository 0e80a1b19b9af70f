----------------------------- MODULE SpriteDma ------------------------------
(***************************************************************************)
(* One sprite DMA channel: a list of bands in chip RAM, each a control     *)
(* pair (first and last line) followed by one data pair per line, read in  *)
(* an A and a B slot of the line.                                          *)
(* src/src/chipset/agnus/dma/sprite_dma.c                                  *)
(*                                                                         *)
(* A word is a number; as a control word it is the line it encodes (the    *)
(* code spreads bit 8 of both lines over the second word).                 *)
(***************************************************************************)
EXTENDS Integers

CONSTANTS
    SpriteWords,  \* chip RAM as the sprite reads it: word addresses -> Nat
    SpriteSpace   \* word addresses the pointer can have

SpriteChannel == [base: Nat, ptr: Nat, armed: BOOLEAN, terminated: BOOLEAN,
                  fetch_ctrl: BOOLEAN, vstart: Nat, vstop: Nat, w0: Nat]

SpriteRead(p) == IF p \in DOMAIN SpriteWords THEN SpriteWords[p] ELSE 0

(* sprite_dma_reset *)
sprite_reset == [base |-> 0, ptr |-> 0, armed |-> FALSE, terminated |-> FALSE,
                 fetch_ctrl |-> TRUE, vstart |-> 0, vstop |-> 0, w0 |-> 0]

(* sprite_dma_set_ptr_hi, sprite_dma_set_ptr_lo: either half restarts the  *)
(* channel.                                                                *)
sprite_set_ptr(ch, p) ==
    [ch EXCEPT !.base = p, !.ptr = p, !.armed = FALSE, !.terminated = FALSE,
               !.fetch_ctrl = TRUE]

sprite_frame_start(ch) == [sprite_reset EXCEPT !.base = ch.base, !.ptr = ch.base]

sprite_next(p) == (p + 1) % SpriteSpace

(* Between the control pair and the first line nothing is fetched.         *)
sprite_idle(ch, vpos) == ch.armed /\ vpos < ch.vstart

(* sprite_dma_slot in the A slot: control or data, and the first word.     *)
sprite_slot_a(ch, vpos) ==
    IF ch.terminated \/ sprite_idle(ch, vpos) THEN ch
    ELSE [ch EXCEPT !.fetch_ctrl = ~ch.armed \/ vpos >= ch.vstop,
                    !.w0 = SpriteRead(ch.ptr), !.ptr = sprite_next(@)]

(* sprite_dma_slot in the B slot: the second word; a control pair of       *)
(* zeroes ends the list, any other arms the channel.                       *)
sprite_fetches_b(ch, vpos) == ~ch.terminated /\ ~sprite_idle(ch, vpos)

sprite_ends(ch) == ch.fetch_ctrl /\ ch.w0 = 0 /\ SpriteRead(ch.ptr) = 0

sprite_slot_b(ch, vpos) ==
    LET next == [ch EXCEPT !.ptr = sprite_next(@)]
    IN IF ~sprite_fetches_b(ch, vpos) THEN ch
       ELSE IF sprite_ends(ch) THEN [next EXCEPT !.armed = FALSE, !.terminated = TRUE]
       ELSE IF ch.fetch_ctrl
       THEN [next EXCEPT !.vstart = ch.w0, !.vstop = SpriteRead(ch.ptr), !.armed = TRUE]
       ELSE next

(* The pair handed to Denise, as the address of its first word.            *)
sprite_delivers(ch, vpos) == sprite_fetches_b(ch, vpos) /\ ~sprite_ends(ch)
=============================================================================

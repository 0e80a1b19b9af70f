------------------------------ MODULE MCRaster ------------------------------
(***************************************************************************)
(* The chipset step and Denise's frames, in one instance.  They share no   *)
(* state here, so a behaviour in which both move projects to one of each   *)
(* alone, and a behaviour here moves one.                                  *)
(***************************************************************************)
EXTENDS ChipsetStep, Denise, TLC

Con(depth, hires, ham, dual) ==
    [NoCon EXCEPT !.depth = depth, !.hires = hires, !.ham = ham, !.dual = dual, !.color = TRUE]

(* Colours that differ in every channel, and the same with another border. *)
Colours == [i \in 0..31 |-> <<i + 1, 40 + i, 99 - i>>]
OtherPalette == {[Colours EXCEPT ![0] = <<7, 7, 7>>]}

Diw(hs, vs, he, ve) == [hs |-> hs, vs |-> vs, he |-> he, ve |-> ve]
Spr(h, attach, px) ==
    [armed |-> TRUE, attach |-> attach, h |-> h, vs |-> 1, ve |-> 3, px |-> px]

(* Two planes, dual playfields and interlace, blanked with bits left set.  *)
RasterBplcons ==
    {[Con(2, FALSE, FALSE, FALSE) EXCEPT !.scroll2 = 1],
     [Con(4, FALSE, FALSE, TRUE) EXCEPT !.lace = TRUE, !.bit6 = TRUE],
     Con(0, TRUE, FALSE, FALSE)}

RasterDiws == {Diw(4, 1, 6, 3), Diw(7, 7, 7, 7)}
RasterDiwHighs == {Diw(1, 0, 1, 0)}
RasterSprites == {[n |-> 0, regs |-> Spr(4, FALSE, <<1, 3>>)]}
RasterWords == {<<3, 1>>}

-----------------------------------------------------------------------------
(* Single lines: every mode with its delays, priorities and sprites.       *)
Priorities(con) ==
    {[con EXCEPT !.scroll1 = s1, !.scroll2 = s2, !.pf1p = p1, !.pf2p = p2, !.bit6 = b] :
        s1 \in {0, 1}, s2 \in IF con.ham THEN {0} ELSE {0, 2}, p1 \in {0, 3},
        p2 \in IF con.dual THEN {0, 3} ELSE {0}, b \in BOOLEAN}

LineCons == UNION {Priorities(con) : con \in
    {Con(4, FALSE, FALSE, FALSE), Con(4, TRUE, FALSE, TRUE), Con(6, FALSE, FALSE, FALSE),
     Con(6, FALSE, TRUE, FALSE), Con(6, FALSE, FALSE, TRUE)}}

LinePixels == {<<0, 1, 2, 3>>, <<33, 21, 41, 50, 2>>}

(* No sprite; three that overlap; an attached pair, not quite aligned.     *)
LineSprites ==
    {sprites_reset,
     [sprites_reset EXCEPT ![1] = Spr(5, FALSE, <<1, 2>>), ![2] = Spr(4, FALSE, <<3, 1>>),
                           ![7] = Spr(4, FALSE, <<0, 2>>)],
     [sprites_reset EXCEPT ![4] = Spr(4, FALSE, <<1, 2>>), ![5] = Spr(5, TRUE, <<3, 2>>)]}

Display(con, spr) ==
    [con |-> con, diw |-> Diw(4, 1, 6, 3), high |-> Zeros, ddf |-> IF con.hires THEN 3 ELSE 1,
     pal |-> Colours, sprites |-> spr, clx |-> [on |-> TRUE, pairs |-> 0..3, pf |-> TRUE]]

RasterCases ==
    {[px |-> px] @@ Display(con, spr) :
        con \in LineCons, spr \in LineSprites, px \in LinePixels}

RasterDisplays == {Display(con, sprites_reset) : con \in {c \in RasterBplcons : c.depth > 0}}

-----------------------------------------------------------------------------
VARIABLE mover  \* the part that moves, once one has

rasterVars == <<vars, denVars, mover>>

Moves(part) == mover \in {"any", part} /\ mover' = part

RasterInit == Init /\ DenInit /\ mover = "any"

RasterNext ==
    \/ Moves("chipset") /\ Next /\ UNCHANGED denVars
    \/ Moves("denise") /\ DenNext /\ UNCHANGED vars

RasterSpec == RasterInit /\ [][RasterNext]_rasterVars
=============================================================================

----------------------------- MODULE MCBlitter ------------------------------
(***************************************************************************)
(* An instance of the blitter with words of three bits and eight words of  *)
(* chip RAM, programmed for copies (shifts, masks, fills, both directions, *)
(* overlapping source and destination) and for lines in several octants.   *)
(***************************************************************************)
EXTENDS Blitter

Image(use, con1, minterm, ash, bsh, pts, mods) ==
    [pt |-> [A |-> pts[1], B |-> pts[2], C |-> pts[3], D |-> pts[4]],
     mod |-> [A |-> mods[1], B |-> mods[2], C |-> mods[3], D |-> mods[4]],
     dat |-> [A |-> {0, W - 1}, B |-> {0}, C |-> {1}], ddat |-> {}, bhold |-> {0},
     afwm |-> {0, W - 1}, alwm |-> {0, 1}, minterm |-> minterm, ash |-> ash,
     bsh |-> bsh, use |-> use, con1 |-> con1, sizh |-> 0, sizv |-> 0]

(* Copies: D over A by one word, cookie cut, no D; without fill, inclusive *)
(* fill in both directions, exclusive fill.                                *)
Copies ==
    {Image(u, c, m, a, 2, p, <<0, 2, -2, 0>>) :
        u \in {{"A", "D"}, {"A", "B", "C", "D"}, {"A", "B"}}, c \in {{}, {1}, {1, 3}, {2, 3}, {4}},
        m \in {{4, 5, 6, 7}, {1, 2, 6, 7}}, a \in {0, 1}, p \in {<<8, 0, 4, 10>>}}

(* Lines: the error term is in BLTAPT, its increments in the modulos of B  *)
(* and A, the row length in that of C.                                     *)
Lines ==
    {Image({"A", "C", "D"}, {0} \cup c, {2, 5, 6, 7}, 1, 0, <<13, 0, p, 4>>, <<-3, 2, 4, 0>>) :
        c \in {{}, {4}, {2, 3, 4}, {1, 3, 4, 6}}, p \in {4, 14}}

MCImages == Copies \cup Lines
MCSizes  == {<<1, 2>>, <<2, 2>>, <<0, 0>>}
MCPokes  == {<<8, {}>>}
MCMemory0 == [a \in ChipAddr |-> {b \in Bits : ((a \div 2) * 5 + b * 3) % 4 < 2}]
=============================================================================

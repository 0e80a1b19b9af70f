------------------------------ MODULE MCCopper ------------------------------
(* Lists for the Copper: eight instructions each, address 0 unused.        *)
EXTENDS Copper, Sequences

List(s) == [a \in Addresses |-> IF a = 0 THEN EndOfList ELSE s[a]]

Blue  == Move("COLOR", 0)
NoBfd == VFull \ {VBits - 1}

(* A raster list: a full-mask WAIT, a SKIP over a jump, a WAIT on every    *)
(* line (vertical mask empty but for the blitter bit).                     *)
Raster == List(<<Wait(1, 2, VFull, HFull), Blue, Skip(2, 2, VFull, HFull),
                 Move("COPJMP2", 0), Wait(0, 2, {VBits - 1}, HFull), Blue, EndOfList>>)

(* Blits from the list, and a WAIT for the blitter.                        *)
Blits == List(<<Move("BLTSIZE", 0), Wait(0, 2, NoBfd, HFull), Blue,
                Wait(3, 0, VFull, HFull), Move("COPCON", TRUE), Blue, Blue>>)

(* A list that moves itself, jumps to itself and switches Copper DMA off.  *)
Moves == List(<<Move("COP1LCL", 3), Move("COPJMP1", 0), Move("COPJMP1", 0),
                Wait(1, 0, VFull, {}),
                Move("DMACON", [set |-> FALSE, bits |-> {"COPEN"}]), Blue, EndOfList>>)

MCPrograms == {Raster, Blits, Moves}
=============================================================================

------------------------------ MODULE MCIrqHost ------------------------------
(* Interrupt delivery with one chip source per level of interest, both     *)
(* CIAs, and the INTENA masks that exercise the master enable and the      *)
(* enabling of a request that is already pending.                          *)
EXTENDS IrqHost

MCEnables == {{"INTEN"}, {"VERTB", "PORTS", "EXTER"}, {"EXTER"}}
=============================================================================

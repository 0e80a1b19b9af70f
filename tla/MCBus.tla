------------------------------- MODULE MCBus --------------------------------
(***************************************************************************)
(* The slot scheduler on a line of 16 clocks and a frame of 4 lines: one   *)
(* refresh, one disk, one audio and two sprite slots, then room for two    *)
(* units of two bitplanes.                                                 *)
(***************************************************************************)
EXTENDS SlotScheduler

MCAudioPos   == [c \in {0} |-> 3]
MCSpritePos  == [s \in {0} |-> {4, 6}]
MCPlaneOrder == [p \in Plane |-> IF p = 0 THEN 3 ELSE 1]

(* A band on lines 1 and 2, then the end of the list.                      *)
MCSpriteWords == [a \in 0..7 |-> CASE a = 0 -> 1 [] a = 1 -> 3 [] a \in 2..5 -> 5
                                   [] OTHER -> 0]

Display(on, strt, stop, depth, hires, vstrt) ==
    [dmacon |-> on \cup {"DMAEN"}, ddfstrt |-> strt, ddfstop |-> stop, depth |-> depth,
     hires |-> hires, vstrt |-> vstrt, pt |-> [p \in Plane |-> 3 * p + 1],
     mod |-> <<1, -2>>, spr |-> 0]

MCPrograms == {Display({"BPLEN", "SPREN", "DSKEN"}, 8, 12, 2, FALSE, 1),
               Display({"BPLEN", "SPREN"}, 4, 4, 1, TRUE, 2),
               Display({"BPLEN", "AUDEN", "BLTEN", "SPREN", "BLTPRI"}, 5, 6, 2, TRUE, 2),
               Display({"COPEN", "BLTEN", "DSKEN", "BPLEN"}, 10, 0, 3, FALSE, 0)}

MCDmaWrites == {{"DMAEN"}, {"BPLEN", "SPREN"}, {"DSKEN", "BLTEN"}}
=============================================================================

------------------------------ MODULE Arbiter -------------------------------
(***************************************************************************)
(* What the slot scheduler promises: at every colour clock the bus goes to *)
(* one owner, and that owner follows from the registers as they are now,   *)
(* the beam and the requests of that clock.  There is no table here that   *)
(* could be out of date.                                                   *)
(***************************************************************************)
EXTENDS SlotMap

CONSTANTS LineLength, FrameLength  \* clocks of a line, lines of a frame

VARIABLES
    now,       \* SchedRegs: the registers
    at,        \* <<hpos, vpos>>
    disk,      \* words the disk transfer still wants
    blit,      \* slots the blitter still wants
    grant      \* owner of the last clock

arbiterVars == <<now, at, disk, blit, grant>>

ArbiterInit ==
    /\ now \in SchedRegs /\ now.dmacon = {}
    /\ at = <<0, 0>> /\ disk = 0 /\ blit = 0 /\ grant = CPU

Following(p) ==
    IF p[1] + 1 < LineLength THEN <<p[1] + 1, p[2]>>
    ELSE <<0, (p[2] + 1) % FrameLength>>

(* One clock: refresh, then a disk read, then the channels with a slot of  *)
(* their own, then blitter, copper and processor.  A disk read whose DSKEN *)
(* was taken away gets it back.                                            *)
Clock(copper) ==
    LET own == table_owner(now, at[2], at[1])
        byDisk == disk_override(now.dmacon, own, disk > 0)
    IN /\ grant' = IF byDisk THEN DISK
                   ELSE dynamic_owner(own, blit > 0 /\ On(now.dmacon, "BLTEN"),
                                      "BLTPRI" \in now.dmacon,
                                      copper /\ On(now.dmacon, "COPEN"))
       /\ now' = [now EXCEPT !.dmacon = IF byDisk THEN @ \cup {"DSKEN"} ELSE @]
       /\ at' = Following(at)
       /\ disk' = IF grant' = DISK /\ disk > 0 THEN disk - 1 ELSE disk
       /\ blit' = IF grant' = BLITTER THEN blit - 1 ELSE blit

(* Registers and requests change between two clocks.                       *)
Change == UNCHANGED <<at, grant>>

Reset == at' = <<0, 0>> /\ grant' = CPU /\ now'.dmacon = {} /\ disk' = 0 /\ blit' = 0

ArbiterNext == (\E c \in BOOLEAN : Clock(c)) \/ Change \/ Reset

ArbiterSpec == ArbiterInit /\ [][ArbiterNext]_arbiterVars
=============================================================================

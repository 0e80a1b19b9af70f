------------------------------ MODULE MCBoard -------------------------------
(***************************************************************************)
(* The devices around the chipset in one instance: the floppy drives, the  *)
(* real-time clock, the IDE channel and the address map of the harness.    *)
(* They share no state, so a behaviour in which several move projects to   *)
(* one of each alone, and a behaviour here moves one of them.              *)
(***************************************************************************)
EXTENDS FloppyDrives, Rtc, Ide, HostMap, TLC

Word(sel, mtr, out, step) ==
    [sel |-> sel, mtr |-> mtr, side |-> 0, out |-> out, step |-> step]

(* Two drives: the guest selects either, both or none, with the motor on   *)
(* or off and the head stepped in or out; the direction is looked at only  *)
(* when the head is stepped.                                               *)
MCControls ==
    {Word(sel, mtr, TRUE, step) :
        sel \in {{}, {0}, {1}}, mtr \in BOOLEAN, step \in BOOLEAN}
    \cup {Word({i}, mtr, FALSE, TRUE) : i \in {0, 1}, mtr \in BOOLEAN}
    \cup {Word({0, 1}, TRUE, TRUE, FALSE)}

(* Disks are told apart and nothing else; no property here is one of       *)
(* liveness.                                                               *)
DiskSymmetry == Permutations(Disks)

VARIABLE mover  \* the device that moves, once one has

boardVars == <<vars, rtcVars, ideVars, mapVars, mover>>

BoardInit == Init /\ RtcInit /\ IdeInit /\ MapInit /\ mover = "any"

Moves(device) == mover \in {"any", device} /\ mover' = device

(* One of the initial states of the devices that do not move.              *)
MapAtRest == \A n \in BoardNames : boards[n].plugged
RtcAtRest == hostCal

BoardNext ==
    \/ Moves("floppy") /\ RtcAtRest /\ MapAtRest /\ Next /\ UNCHANGED <<rtcVars, ideVars, mapVars>>
    \/ Moves("rtc") /\ MapAtRest /\ RtcNext /\ UNCHANGED <<vars, ideVars, mapVars>>
    \/ Moves("ide") /\ RtcAtRest /\ MapAtRest /\ IdeNext /\ UNCHANGED <<vars, rtcVars, mapVars>>
    \/ Moves("map") /\ RtcAtRest /\ MapNext /\ UNCHANGED <<vars, rtcVars, ideVars>>

BoardSpec == BoardInit /\ [][BoardNext]_boardVars
=============================================================================

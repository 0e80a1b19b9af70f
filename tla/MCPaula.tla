------------------------------ MODULE MCPaula -------------------------------
(***************************************************************************)
(* Paula's audio channels, serial port and disk controller, and the        *)
(* encoder of tracks, in one instance.  They share no state here, so a     *)
(* behaviour in which several move projects to one of each alone, and a    *)
(* behaviour here moves one.                                               *)
(***************************************************************************)
EXTENDS Audio, Serial, DiskDma, Mfm

(* A line of three slots for the disk.                                     *)
Line == <<"refresh", "disk", "other">>

(* Data that is all clocks, all ones, alternating, single bits at the ends *)
(* of a longword, and a sync mark in either half.                          *)
DataLongwords ==
    {{}, LongBits, CLOCKS, MFM_MASK, {0}, {31}, SYNCS, {b + 1 : b \in SYNCS}}

VARIABLE mover  \* the part that moves, once one has

paulaVars == <<audioVars, serialVars, vars, mfmVars, mover>>

Moves(part) == mover \in {"any", part} /\ mover' = part

(* One of the initial states of the parts that do not move.                *)
SerialAtRest == ~ser.tx_instant
DiskAtRest == under = NoTrack
MfmAtRest == adf = BlankAdf

AtRest(part) ==
    CASE part = "serial" -> SerialAtRest
      [] part = "disk" -> DiskAtRest
      [] part = "mfm" -> MfmAtRest

PaulaInit ==
    /\ AudioInit /\ SerialInit /\ Init /\ mover = "any"
    /\ MfmInit
    /\ Cardinality({p \in {"serial", "disk", "mfm"} : ~AtRest(p)}) <= 1

AudioMoves(A) ==
    Moves("audio") /\ SerialAtRest /\ DiskAtRest /\ MfmAtRest /\ A
    /\ UNCHANGED <<serialVars, vars, mfmVars>>
SerialMoves(A) ==
    Moves("serial") /\ DiskAtRest /\ MfmAtRest /\ A /\ UNCHANGED <<audioVars, vars, mfmVars>>
DiskMoves(A) ==
    Moves("disk") /\ SerialAtRest /\ MfmAtRest /\ A /\ UNCHANGED <<audioVars, serialVars, mfmVars>>
MfmMoves(A) ==
    Moves("mfm") /\ SerialAtRest /\ DiskAtRest /\ A /\ UNCHANGED <<audioVars, serialVars, vars>>

PaulaNext ==
    \/ AudioMoves(AudioNext)
    \/ SerialMoves(SerialNext)
    \/ DiskMoves(Next)
    \/ MfmMoves(MfmNext)

(* The host keeps stepping the chipset.                                    *)
DiskClocked == mover = "disk" /\ slot' \in DOMAIN SlotOwners /\ slot' # slot
SerialClocked == mover = "serial" /\ \E n \in 1..MaxSerStep : SerStep(n)

PaulaSpec ==
    /\ PaulaInit /\ [][PaulaNext]_paulaVars
    /\ WF_slot(DiskClocked) /\ WF_serialVars(SerialClocked)
=============================================================================

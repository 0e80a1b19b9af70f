---------------------------- MODULE FloppyDrives ----------------------------
(***************************************************************************)
(* The floppy drives and the lines between them and the CIAs: the guest    *)
(* writes control words to port B of CIA-B, the host inserts and ejects    *)
(* disks, and the status of the selected drive appears on port A of CIA-A. *)
(* Both routes recompute the status lines, each with code of its own.      *)
(*                                                                         *)
(* src/src/floppy/floppy_drive.c, src/src/core/rigel_cia_api.c (control),  *)
(* src/src/core/rigel.c (insert, eject), src/src/chipset/chipset.c (reset) *)
(*                                                                         *)
(* Lines are active low in the code; here a set holds the asserted ones.   *)
(* adf, adf_size and disk_inserted change together: media stands for them. *)
(* A disk is write protected whenever it is present, so /WPROT follows     *)
(* media.  The ID shift register is all zeros in every drive.              *)
(***************************************************************************)
EXTENDS Integers, FiniteSets

CONSTANTS
    DriveCount,  \* drives (4 in the code)
    Cylinders,   \* cylinders (80 in the code)
    IdBits,      \* length of the identification sequence (32 in the code)
    Disks,       \* the disk images the host inserts
    NoDisk,      \* no image
    Controls,    \* the control words the guest writes
    MaxHost      \* bound: inserts, ejects and resets per behaviour

Drives == 0..(DriveCount - 1)

ControlWord == [sel: SUBSET Drives, mtr: BOOLEAN, side: {0, 1}, out: BOOLEAN,
                step: BOOLEAN]

ASSUME ConstantsAssumption ==
    /\ DriveCount \in Nat \ {0}
    /\ Cylinders \in Nat \ {0}
    /\ IdBits \in Nat
    /\ NoDisk \notin Disks
    /\ Controls \subseteq ControlWord
    /\ MaxHost \in Nat

VARIABLES
    drives,   \* chipset.floppy
    control,  \* CIA-B port B, as the drives see it
    lines,    \* CIA-A port A bits 2-5: the asserted status lines
    current,  \* paula.disk.drive
    acked,    \* the disk each drive held when its change latch was cleared
    hosts     \* host operations so far

vars == <<drives, control, lines, current, acked, hosts>>

FloppyDrive ==
    [connected: BOOLEAN, selected: BOOLEAN, motor: BOOLEAN,
     cylinder: 0..(Cylinders - 1), side: {0, 1}, ready: BOOLEAN,
     track0: BOOLEAN, media: Disks \cup {NoDisk}, disk_changed: BOOLEAN,
     step_latch: BOOLEAN, id_count: (-1)..IdBits]

-----------------------------------------------------------------------------
(* floppy_*                                                                *)

floppy_init ==
    [connected |-> FALSE, selected |-> FALSE, motor |-> FALSE, cylinder |-> 0,
     side |-> 0, ready |-> FALSE, track0 |-> TRUE, media |-> NoDisk,
     disk_changed |-> TRUE, step_latch |-> TRUE, id_count |-> 0]

floppy_has_media(d) == d.connected /\ d.media # NoDisk

(* Mutant: replacing a disk does not set the change latch.                 *)
floppy_insert_Silent(d, disk) == [d EXCEPT !.connected = TRUE, !.media = disk]

floppy_insert(d, disk) ==
    [d EXCEPT !.connected = TRUE, !.media = disk, !.disk_changed = TRUE]

floppy_eject(d) ==
    [d EXCEPT !.media = NoDisk, !.disk_changed = TRUE, !.ready = FALSE,
              !.motor = FALSE]

floppy_set_connected(d, connected) ==
    IF connected THEN [d EXCEPT !.connected = TRUE]
    ELSE [d EXCEPT !.connected = FALSE, !.motor = FALSE, !.ready = FALSE]

(* A reset keeps the disk, and inserts it again.                           *)
floppy_reset(d) ==
    LET fresh == [floppy_init EXCEPT !.connected = d.connected]
    IN  IF d.media = NoDisk THEN fresh ELSE floppy_insert(fresh, d.media)

(* The parts of floppy_step for a drive that is connected and selected.    *)
(* The ready flag is decided when the motor starts.                        *)
Motor(d, on) ==
    IF on = d.motor THEN d
    ELSE IF on THEN [d EXCEPT !.motor = TRUE, !.ready = floppy_has_media(d),
                              !.id_count = -1]
    ELSE [d EXCEPT !.motor = FALSE, !.ready = FALSE]

Seek(cylinder, out) ==
    IF out THEN (IF cylinder > 0 THEN cylinder - 1 ELSE 0)
    ELSE (IF cylinder < Cylinders - 1 THEN cylinder + 1 ELSE cylinder)

(* A step pulse moves the head once, and acknowledges a change of disk     *)
(* only if there is a disk.                                                *)
StepPulse(d, sig) ==
    IF ~ sig.step THEN [d EXCEPT !.step_latch = TRUE]
    ELSE IF ~ d.step_latch THEN d
    ELSE [d EXCEPT !.step_latch = FALSE,
                   !.cylinder = Seek(d.cylinder, sig.out),
                   !.disk_changed = ~ floppy_has_media(d)]

(* id_count is a C int that only matters below IdBits: it saturates here.  *)
floppy_step(d, sig) ==
    IF ~ d.connected
    THEN [d EXCEPT !.selected = FALSE, !.motor = FALSE, !.ready = FALSE]
    ELSE IF ~ sig.selected
    THEN [d EXCEPT !.selected = FALSE,
                   !.id_count = IF d.selected /\ ~ d.motor /\ @ < IdBits
                                THEN @ + 1 ELSE @]
    ELSE LET moved == StepPulse([Motor(d, sig.motor) EXCEPT !.selected = TRUE,
                                                            !.side = sig.side],
                                sig)
         IN  [moved EXCEPT !.track0 = (moved.cylinder = 0)]

-----------------------------------------------------------------------------
(* The status lines of one drive.                                          *)
DriveLines(d, mtr) ==
    LET idmode == ~ mtr /\ d.id_count >= 0 /\ d.id_count < IdBits
    IN  (IF d.connected /\ d.disk_changed THEN {"CHNG"} ELSE {})
        \cup (IF floppy_has_media(d) THEN {"WPROT"} ELSE {})
        \cup (IF d.connected /\ d.track0 THEN {"TRK0"} ELSE {})
        \cup (IF idmode \/ (d.connected /\ d.ready) THEN {"DSKRDY"} ELSE {})

First(S) == IF S = {} THEN 0 ELSE CHOOSE i \in S : \A j \in S : i <= j

(* Both routes: DMA reads go to the first of the drives taken as selected, *)
(* and its lines are shown if it is the only one.                          *)
Route(ds, taken, mtr) ==
    /\ current' = First(taken)
    /\ lines' = IF Cardinality(taken) = 1 THEN DriveLines(ds[First(taken)], mtr)
                                          ELSE {}

(* cia_b_prb_update_floppy, after a write to PRB or DDRB of CIA-B.         *)
WriteControl(w) ==
    LET connected == {i \in Drives : drives[i].connected}
        Signals(i) == [selected |-> i \in w.sel \cap connected,
                       motor |-> i \in w.sel \cap connected /\ w.mtr,
                       step |-> w.step, out |-> w.out, side |-> w.side]
    IN  /\ control' = w
        /\ drives' = [i \in Drives |-> floppy_step(drives[i], Signals(i))]
        /\ Route(drives', w.sel \cap connected, w.mtr)
        /\ acked' = [i \in Drives |->
                        IF drives[i].disk_changed /\ ~ drives'[i].disk_changed
                        THEN drives[i].media ELSE acked[i]]
        /\ UNCHANGED hosts

(* rigel_sync_floppy_cia_lines, after an insert or an eject: every select  *)
(* line counts, whether or not a drive is connected to it.                 *)
HostOperation(i, d) ==
    /\ hosts < MaxHost
    /\ hosts' = hosts + 1
    /\ drives' = [drives EXCEPT ![i] = d]
    /\ Route(drives', control.sel, control.mtr)
    /\ UNCHANGED <<control, acked>>

Insert(i, disk) == HostOperation(i, floppy_insert(drives[i], disk))

Eject(i) == HostOperation(i, floppy_eject(drives[i]))

NoControl == [sel |-> {}, mtr |-> FALSE, side |-> 0, out |-> TRUE, step |-> FALSE]

(* rigel_chipset_reset: port B floats high, DF0 is always connected and    *)
(* another drive only if it holds a disk.                                  *)
ResetDrive(i) ==
    LET d == drives[i]
        keep == d.connected /\ d.media # NoDisk
    IN  floppy_set_connected(floppy_reset(d), keep \/ i = 0)

Reset ==
    /\ hosts < MaxHost
    /\ hosts' = hosts + 1
    /\ drives' = [i \in Drives |-> ResetDrive(i)]
    /\ control' = NoControl
    /\ lines' = {}
    /\ current' = 0
    /\ UNCHANGED acked

Init ==
    /\ drives = [i \in Drives |-> floppy_set_connected(floppy_init, i = 0)]
    /\ control = NoControl
    /\ lines = {}
    /\ current = 0
    /\ acked = [i \in Drives |-> NoDisk]
    /\ hosts = 0

Next ==
    \/ \E w \in Controls : WriteControl(w)
    \/ \E i \in Drives, disk \in Disks : Insert(i, disk)
    \/ \E i \in Drives : Eject(i)
    \/ Reset

Spec == Init /\ [][Next]_vars

-----------------------------------------------------------------------------
TypeOK ==
    /\ drives \in [Drives -> FloppyDrive]
    /\ control \in ControlWord
    /\ lines \subseteq {"CHNG", "WPROT", "TRK0", "DSKRDY"}
    /\ current \in Drives
    /\ acked \in [Drives -> Disks \cup {NoDisk}]
    /\ hosts \in 0..MaxHost

(* "The shared status bus reflects the selected drive": as long as the     *)
(* guest selects connected drives only, the lines it reads are those of    *)
(* the drive as it is now, whichever of the two routes computed them last, *)
(* and disk DMA reads that drive.                                          *)
StatusIsCurrent ==
    (\A i \in control.sel : drives[i].connected)
        => /\ current = First(control.sel)
           /\ Cardinality(control.sel) = 1
                => lines = DriveLines(drives[current], control.mtr)

(* A disk is never exchanged behind the guest's back: a drive whose change *)
(* latch is clear holds the disk that was there when a step pulse cleared  *)
(* it, through any inserts, ejects and resets in between.                  *)
SwapNoticed ==
    \A i \in Drives :
        ~ drives[i].disk_changed
            => drives[i].media = acked[i] /\ acked[i] # NoDisk

(* "/RDY should only assert once the drive is spinning a present disk."    *)
ReadyMeansSpinning ==
    \A i \in Drives : drives[i].ready => drives[i].motor /\ floppy_has_media(drives[i])

(* What the guest can learn of a drive is true of it, whichever of guest,  *)
(* host and reset acted last: its status lines, its change latch and its   *)
(* ready flag.                                                             *)
DrivesHonest == TypeOK /\ StatusIsCurrent /\ SwapNoticed /\ ReadyMeansSpinning
=============================================================================

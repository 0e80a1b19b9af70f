---------------------------- MODULE BoardProofs -----------------------------
(***************************************************************************)
(* Proofs about the devices around the chipset.  The floppy drives: what   *)
(* the guest can learn of a drive is true of it, whichever of guest, host  *)
(* and reset acted last.  The IDE channel: what the guest reads and writes *)
(* are the sectors it asked for, whatever else it does to the channel.     *)
(* The clock: its digits are the time the host's clock and its last        *)
(* setting make.  The address map: one device answers each address.        *)
(***************************************************************************)
EXTENDS FloppyDrives, Ide, Rtc, HostMap, FiniteSetTheorems, SequenceTheorems, Induction

(* The drives that are taken as selected, and the first of them.           *)
LEMMA FirstIsDrive ==
    ASSUME NEW S \in SUBSET Drives
    PROVE  First(S) \in Drives
<1> USE ConstantsAssumption
<1>1. CASE S = {}
  BY <1>1 DEF First, Drives
<1>2. CASE S # {}
  <2>1. S \in SUBSET Nat
    BY DEF Drives
  <2>2. \E x \in S : \A y \in S : ~(y < x)
    BY <1>2, <2>1, LeastNat
  <2>3. \E x \in S : \A y \in S : x <= y
    BY <2>1, <2>2
  <2>4. (CHOOSE i \in S : \A j \in S : i <= j) \in S
    BY <2>3, Zenon
  <2> QED
    BY <1>2, <2>4, Zenon DEF First
<1> QED
  BY <1>1, <1>2

-----------------------------------------------------------------------------
(* What the operations on a drive leave true of it.                        *)

(* The ready flag is up only while the motor turns a disk.                 *)
Spinning(d) == d.ready => d.motor /\ floppy_has_media(d)

(* A step of a drive keeps its disk and its connection; it clears the      *)
(* change latch only with a disk in the drive.                             *)
Steps(d, e) ==
    /\ e \in FloppyDrive
    /\ e.connected = d.connected /\ e.media = d.media
    /\ Spinning(d) => Spinning(e)
    /\ ~e.disk_changed => ~d.disk_changed \/ d.media # NoDisk

LEMMA FloppyFields ==
    ASSUME NEW d \in FloppyDrive
    PROVE  /\ d.connected \in BOOLEAN /\ d.selected \in BOOLEAN /\ d.motor \in BOOLEAN
           /\ d.cylinder \in 0..(Cylinders - 1) /\ d.side \in {0, 1}
           /\ d.ready \in BOOLEAN /\ d.track0 \in BOOLEAN /\ d.media \in Disks \cup {NoDisk}
           /\ d.disk_changed \in BOOLEAN /\ d.step_latch \in BOOLEAN
           /\ d.id_count \in (-1)..IdBits
BY Zenon DEF FloppyDrive

LEMMA MotorSteps ==
    ASSUME NEW d \in FloppyDrive, NEW on \in BOOLEAN
    PROVE  Steps(d, Motor(d, on))
<1> DEFINE e == Motor(d, on)
<1>1. CASE on = d.motor
  BY <1>1, Zenon DEF Motor, Steps
<1>2. CASE on # d.motor /\ on
  <2>1. floppy_has_media(d) \in BOOLEAN /\ -1 \in (-1)..IdBits
    BY ConstantsAssumption DEF floppy_has_media
  <2>2. e = [d EXCEPT !.motor = TRUE, !.ready = floppy_has_media(d), !.id_count = -1]
    BY <1>2, Zenon DEF Motor
  <2>3. e \in FloppyDrive
    BY <2>1, <2>2, Zenon DEF FloppyDrive
  <2>4. /\ e.connected = d.connected /\ e.media = d.media /\ e.disk_changed = d.disk_changed
        /\ e.motor = TRUE /\ e.ready = floppy_has_media(d)
    BY <2>2, Zenon DEF FloppyDrive
  <2> QED
    BY <2>3, <2>4, Zenon DEF Steps, Spinning, floppy_has_media
<1>3. CASE on # d.motor /\ ~on
  <2>2. e = [d EXCEPT !.motor = FALSE, !.ready = FALSE]
    BY <1>3, Zenon DEF Motor
  <2>3. e \in FloppyDrive
    BY <2>2, Zenon DEF FloppyDrive
  <2>4. /\ e.connected = d.connected /\ e.media = d.media /\ e.disk_changed = d.disk_changed
        /\ ~e.ready
    BY <2>2, Zenon DEF FloppyDrive
  <2> QED
    BY <2>3, <2>4, Zenon DEF Steps, Spinning
<1> QED
  BY <1>1, <1>2, <1>3

LEMMA SeekType ==
    ASSUME NEW c \in 0..(Cylinders - 1), NEW out
    PROVE  Seek(c, out) \in 0..(Cylinders - 1)
BY ConstantsAssumption DEF Seek

LEMMA PulseSteps ==
    ASSUME NEW d \in FloppyDrive, NEW sig
    PROVE  Steps(d, StepPulse(d, sig))
<1> DEFINE e == StepPulse(d, sig)
<1>1. CASE ~sig.step
  <2>1. e = [d EXCEPT !.step_latch = TRUE]
    BY <1>1, Zenon DEF StepPulse
  <2>2. e \in FloppyDrive
    BY <2>1, Zenon DEF FloppyDrive
  <2>3. /\ e.connected = d.connected /\ e.media = d.media /\ e.disk_changed = d.disk_changed
        /\ e.ready = d.ready /\ e.motor = d.motor
    BY <2>1, Zenon DEF FloppyDrive
  <2> QED
    BY <2>2, <2>3, Zenon DEF Steps, Spinning, floppy_has_media
<1>2. CASE sig.step /\ ~d.step_latch
  <2>1. e = d
    BY <1>2, Zenon DEF StepPulse
  <2> QED
    BY <2>1, Zenon DEF Steps
<1>3. CASE sig.step /\ d.step_latch
  <2>1. Seek(d.cylinder, sig.out) \in 0..(Cylinders - 1) /\ (~floppy_has_media(d)) \in BOOLEAN
    BY FloppyFields, SeekType
  <2>2. e = [d EXCEPT !.step_latch = FALSE, !.cylinder = Seek(d.cylinder, sig.out),
                      !.disk_changed = ~floppy_has_media(d)]
    BY <1>3, Zenon DEF StepPulse
  <2>3. e \in FloppyDrive
    BY <2>1, <2>2, Zenon DEF FloppyDrive
  <2>4. /\ e.connected = d.connected /\ e.media = d.media
        /\ e.disk_changed = ~floppy_has_media(d)
        /\ e.ready = d.ready /\ e.motor = d.motor
    BY <2>2, Zenon DEF FloppyDrive
  <2> QED
    BY <2>3, <2>4, Zenon DEF Steps, Spinning, floppy_has_media
<1> QED
  BY <1>1, <1>2, <1>3

LEMMA StepsTrans ==
    ASSUME NEW d, NEW e, NEW f, Steps(d, e), Steps(e, f)
    PROVE  Steps(d, f)
BY Zenon DEF Steps

LEMMA FloppyStep ==
    ASSUME NEW d \in FloppyDrive, NEW sig,
           sig.selected \in BOOLEAN, sig.motor \in BOOLEAN, sig.side \in {0, 1}
    PROVE  Steps(d, floppy_step(d, sig))
<1> DEFINE e == floppy_step(d, sig)
<1>1. CASE ~d.connected
  <2>1. e = [d EXCEPT !.selected = FALSE, !.motor = FALSE, !.ready = FALSE]
    BY <1>1, Zenon DEF floppy_step
  <2>2. e \in FloppyDrive
    BY <2>1, Zenon DEF FloppyDrive
  <2>3. /\ e.connected = d.connected /\ e.media = d.media /\ e.disk_changed = d.disk_changed
        /\ ~e.ready
    BY <2>1, Zenon DEF FloppyDrive
  <2> QED
    BY <2>2, <2>3, Zenon DEF Steps, Spinning
<1>2. CASE d.connected /\ ~sig.selected
  <2> DEFINE n == IF d.selected /\ ~ d.motor /\ d.id_count < IdBits
                  THEN d.id_count + 1 ELSE d.id_count
  <2>1. n \in (-1)..IdBits
    BY FloppyFields, ConstantsAssumption
  <2>2. e = [d EXCEPT !.selected = FALSE, !.id_count = n]
    BY <1>2, Zenon DEF floppy_step
  <2> HIDE DEF n
  <2>3. e \in FloppyDrive
    BY <2>1, <2>2, Zenon DEF FloppyDrive
  <2>4. /\ e.connected = d.connected /\ e.media = d.media /\ e.disk_changed = d.disk_changed
        /\ e.ready = d.ready /\ e.motor = d.motor
    BY <2>2, Zenon DEF FloppyDrive
  <2> QED
    BY <2>3, <2>4, Zenon DEF Steps, Spinning, floppy_has_media
<1>3. CASE d.connected /\ sig.selected
  <2> DEFINE m == Motor(d, sig.motor)
             f == [m EXCEPT !.selected = TRUE, !.side = sig.side]
             g == StepPulse(f, sig)
  <2>1. Steps(d, m) /\ m \in FloppyDrive
    BY MotorSteps, Zenon DEF Steps
  <2> HIDE DEF m
  <2>2. f \in FloppyDrive
    BY <2>1, Zenon DEF FloppyDrive
  <2>3. /\ f.connected = m.connected /\ f.media = m.media /\ f.disk_changed = m.disk_changed
        /\ f.ready = m.ready /\ f.motor = m.motor
    BY <2>1, Zenon DEF FloppyDrive
  <2>4. Steps(m, f)
    BY <2>2, <2>3, Zenon DEF Steps, Spinning, floppy_has_media
  <2> HIDE DEF f
  <2>5. Steps(f, g) /\ g \in FloppyDrive
    BY <2>2, PulseSteps, Zenon DEF Steps
  <2>6. e = [g EXCEPT !.track0 = (g.cylinder = 0)]
    BY <1>3, Zenon DEF floppy_step, f, m
  <2> HIDE DEF g, e
  <2>7. (g.cylinder = 0) \in BOOLEAN
    OBVIOUS
  <2>8. e \in FloppyDrive
    BY <2>5, <2>6, <2>7, Zenon DEF FloppyDrive
  <2>9. /\ e.connected = g.connected /\ e.media = g.media /\ e.disk_changed = g.disk_changed
        /\ e.ready = g.ready /\ e.motor = g.motor
    BY <2>5, <2>6, Zenon DEF FloppyDrive
  <2>10. Steps(g, e)
    BY <2>8, <2>9, Zenon DEF Steps, Spinning, floppy_has_media
  <2> QED
    BY <2>1, <2>4, <2>5, <2>10, StepsTrans, Zenon DEF e
<1> QED
  BY <1>1, <1>2, <1>3

(* Operations of the host: they keep the ready flag honest, and raise the  *)
(* change latch.                                                           *)
Changes(d, e) ==
    e \in FloppyDrive /\ e.disk_changed /\ (Spinning(d) => Spinning(e))

LEMMA InsertChanges ==
    ASSUME NEW d \in FloppyDrive, NEW disk \in Disks
    PROVE  Changes(d, floppy_insert(d, disk))
<1> DEFINE e == floppy_insert(d, disk)
<1>1. e = [d EXCEPT !.connected = TRUE, !.media = disk, !.disk_changed = TRUE]
  BY Zenon DEF floppy_insert
<1>2. e \in FloppyDrive
  BY <1>1, Zenon DEF FloppyDrive
<1>3. /\ e.connected = TRUE /\ e.media = disk /\ e.disk_changed = TRUE
      /\ e.ready = d.ready /\ e.motor = d.motor
  BY <1>1, Zenon DEF FloppyDrive
<1>4. disk # NoDisk
  BY ConstantsAssumption
<1> QED
  BY <1>2, <1>3, <1>4, Zenon DEF Changes, Spinning, floppy_has_media

LEMMA EjectChanges ==
    ASSUME NEW d \in FloppyDrive
    PROVE  Changes(d, floppy_eject(d))
<1> DEFINE e == floppy_eject(d)
<1>1. e = [d EXCEPT !.media = NoDisk, !.disk_changed = TRUE, !.ready = FALSE,
                    !.motor = FALSE]
  BY Zenon DEF floppy_eject
<1>2. e \in FloppyDrive
  BY <1>1, Zenon DEF FloppyDrive
<1>3. e.disk_changed = TRUE /\ ~e.ready
  BY <1>1, Zenon DEF FloppyDrive
<1> QED
  BY <1>2, <1>3, Zenon DEF Changes, Spinning

LEMMA FreshDrive == floppy_init \in FloppyDrive
<1>1. 0 \in 0..(Cylinders - 1) /\ 0 \in (-1)..IdBits
  BY ConstantsAssumption
<1> QED
  BY <1>1, Zenon DEF floppy_init, FloppyDrive

LEMMA Connected ==
    ASSUME NEW d \in FloppyDrive, ~d.ready, NEW b \in BOOLEAN
    PROVE  LET e == floppy_set_connected(d, b)
           IN  e \in FloppyDrive /\ e.disk_changed = d.disk_changed /\ ~e.ready
<1> DEFINE e == floppy_set_connected(d, b)
<1>1. CASE b
  <2>1. e = [d EXCEPT !.connected = TRUE]
    BY <1>1, Zenon DEF floppy_set_connected
  <2> QED
    BY <2>1, Zenon DEF FloppyDrive
<1>2. CASE ~b
  <2>1. e = [d EXCEPT !.connected = FALSE, !.motor = FALSE, !.ready = FALSE]
    BY <1>2, Zenon DEF floppy_set_connected
  <2> QED
    BY <2>1, Zenon DEF FloppyDrive
<1> QED
  BY <1>1, <1>2

LEMMA ResetChanges ==
    ASSUME NEW i \in Drives, drives[i] \in FloppyDrive
    PROVE  Changes(drives[i], ResetDrive(i))
<1> DEFINE d == drives[i]
           empty == [floppy_init EXCEPT !.connected = d.connected]
           r == floppy_reset(d)
           b == (d.connected /\ d.media # NoDisk) \/ i = 0
<1>1. d.connected \in BOOLEAN /\ d.media \in Disks \cup {NoDisk}
  BY FloppyFields
<1>2. empty \in FloppyDrive
  BY <1>1, FreshDrive, Zenon DEF FloppyDrive
<1>3. ~empty.ready /\ empty.disk_changed
  BY Zenon DEF floppy_init
<1>4. r = IF d.media = NoDisk THEN empty ELSE floppy_insert(empty, d.media)
  BY Zenon DEF floppy_reset
<1> HIDE DEF empty
<1>5. r \in FloppyDrive /\ r.disk_changed /\ ~r.ready
  <2>1. CASE d.media = NoDisk
    BY <1>2, <1>3, <1>4, <2>1, Zenon
  <2>2. CASE d.media # NoDisk
    <3>1. r = [empty EXCEPT !.connected = TRUE, !.media = d.media, !.disk_changed = TRUE]
      BY <1>4, <2>2, Zenon DEF floppy_insert
    <3>2. r.ready = empty.ready /\ r.disk_changed = TRUE
      BY <1>2, <3>1, Zenon DEF FloppyDrive
    <3>3. r \in FloppyDrive
      BY <1>1, <1>2, <3>1, Zenon DEF FloppyDrive
    <3> QED
      BY <1>3, <3>2, <3>3, Zenon
  <2> QED
    BY <2>1, <2>2
<1>6. b \in BOOLEAN
  OBVIOUS
<1>7. ResetDrive(i) = floppy_set_connected(r, b)
  BY Zenon DEF ResetDrive
<1> HIDE DEF r, b
<1> DEFINE e == floppy_set_connected(r, b)
<1>8. e \in FloppyDrive /\ e.disk_changed = r.disk_changed /\ ~e.ready
  BY <1>5, <1>6, Connected
<1> HIDE DEF e
<1> QED
  BY <1>5, <1>7, <1>8, Zenon DEF Changes, Spinning, e

-----------------------------------------------------------------------------
(* DrivesHonest is inductive.                                              *)

LEMMA LinesType ==
    ASSUME NEW d, NEW mtr
    PROVE  DriveLines(d, mtr) \subseteq {"CHNG", "WPROT", "TRK0", "DSKRDY"}
BY DEF DriveLines

LEMMA Routed ==
    ASSUME NEW ds, NEW taken \in SUBSET Drives, NEW mtr, Route(ds, taken, mtr)
    PROVE  /\ current' = First(taken) /\ current' \in Drives
           /\ lines' \subseteq {"CHNG", "WPROT", "TRK0", "DSKRDY"}
           /\ Cardinality(taken) = 1 => lines' = DriveLines(ds[First(taken)], mtr)
<1>1. /\ current' = First(taken)
      /\ lines' = IF Cardinality(taken) = 1 THEN DriveLines(ds[First(taken)], mtr) ELSE {}
  BY DEF Route
<1> QED
  BY <1>1, FirstIsDrive, LinesType

LEMMA ControlKeeps ==
    ASSUME DrivesHonest, NEW w \in Controls, WriteControl(w)
    PROVE  DrivesHonest'
<1> DEFINE connected == {i \in Drives : drives[i].connected}
           sig(i) == [selected |-> i \in w.sel \cap connected,
                      motor |-> i \in w.sel \cap connected /\ w.mtr,
                      step |-> w.step, out |-> w.out, side |-> w.side]
<1>0. /\ drives \in [Drives -> FloppyDrive] /\ acked \in [Drives -> Disks \cup {NoDisk}]
      /\ hosts \in 0..MaxHost
  BY DEF DrivesHonest, TypeOK
<1>1. w \in ControlWord /\ w.side \in {0, 1} /\ w.mtr \in BOOLEAN /\ w.sel \in SUBSET Drives
  BY ConstantsAssumption, Zenon DEF ControlWord
<1>2. /\ control' = w /\ hosts' = hosts
      /\ drives' = [i \in Drives |-> floppy_step(drives[i], sig(i))]
      /\ Route(drives', w.sel \cap connected, w.mtr)
      /\ acked' = [i \in Drives |->
                      IF drives[i].disk_changed /\ ~ drives'[i].disk_changed
                      THEN drives[i].media ELSE acked[i]]
  BY DEF WriteControl
<1>3. ASSUME NEW i \in Drives
      PROVE  drives'[i] = floppy_step(drives[i], sig(i)) /\ Steps(drives[i], drives'[i])
  <2>1. sig(i).selected \in BOOLEAN /\ sig(i).motor \in BOOLEAN /\ sig(i).side \in {0, 1}
    BY <1>1
  <2>2. drives'[i] = floppy_step(drives[i], sig(i))
    BY <1>2, Zenon
  <2> HIDE DEF sig
  <2>3. drives[i] \in FloppyDrive
    BY <1>0, Zenon
  <2>4. Steps(drives[i], floppy_step(drives[i], sig(i)))
    BY <2>1, <2>3, FloppyStep
  <2> QED
    BY <2>2, <2>4, Zenon
<1> HIDE DEF sig
<1>4. drives' \in [Drives -> FloppyDrive]
  BY <1>2, <1>3, Zenon DEF Steps
<1>5. acked' \in [Drives -> Disks \cup {NoDisk}]
  <2>1. \A i \in Drives : drives[i].media \in Disks \cup {NoDisk}
    BY <1>0, FloppyFields, Zenon
  <2> QED
    BY <1>0, <1>2, <2>1
<1>6. w.sel \cap connected \in SUBSET Drives
  BY <1>1
<1>7. TypeOK'
  BY <1>0, <1>1, <1>2, <1>4, <1>5, <1>6, Routed, Zenon DEF TypeOK
<1>8. StatusIsCurrent'
  <2> SUFFICES ASSUME \A i \in w.sel : drives'[i].connected
               PROVE  /\ current' = First(w.sel)
                      /\ Cardinality(w.sel) = 1 => lines' = DriveLines(drives'[current'], w.mtr)
    BY <1>2, Zenon DEF StatusIsCurrent
  <2>1. w.sel \cap connected = w.sel
    <3>1. \A i \in w.sel : drives[i].connected
      BY <1>1, <1>3, Zenon DEF Steps
    <3> QED
      BY <1>1, <3>1, Zenon
  <2> HIDE DEF connected
  <2> QED
    BY <1>2, <1>6, <2>1, Routed, Zenon
<1>9. SwapNoticed'
  <2> SUFFICES ASSUME NEW i \in Drives, ~drives'[i].disk_changed
               PROVE  drives'[i].media = acked'[i] /\ acked'[i] # NoDisk
    BY Zenon DEF SwapNoticed
  <2>1. /\ drives'[i].media = drives[i].media
        /\ ~drives[i].disk_changed \/ drives[i].media # NoDisk
    BY <1>3, Zenon DEF Steps
  <2>2. acked'[i] = IF drives[i].disk_changed /\ ~ drives'[i].disk_changed
                    THEN drives[i].media ELSE acked[i]
    BY <1>2, Zenon
  <2>3. ~drives[i].disk_changed => drives[i].media = acked[i] /\ acked[i] # NoDisk
    BY Zenon DEF DrivesHonest, SwapNoticed
  <2> QED
    BY <2>1, <2>2, <2>3, Zenon
<1>10. ReadyMeansSpinning'
  <2>1. ASSUME NEW i \in Drives PROVE Spinning(drives'[i])
    BY <1>3, Zenon DEF DrivesHonest, ReadyMeansSpinning, Spinning, Steps
  <2> QED
    BY <2>1, Zenon DEF ReadyMeansSpinning, Spinning
<1> QED
  BY <1>7, <1>8, <1>9, <1>10 DEF DrivesHonest

LEMMA HostKeeps ==
    ASSUME DrivesHonest, NEW i \in Drives, NEW d, Changes(drives[i], d), HostOperation(i, d)
    PROVE  DrivesHonest'
<1>0. /\ drives \in [Drives -> FloppyDrive] /\ acked \in [Drives -> Disks \cup {NoDisk}]
      /\ control \in ControlWord /\ hosts \in 0..MaxHost
  BY DEF DrivesHonest, TypeOK
<1>1. /\ hosts < MaxHost /\ hosts' = hosts + 1
      /\ drives' = [drives EXCEPT ![i] = d] /\ control' = control /\ acked' = acked
      /\ Route(drives', control.sel, control.mtr)
  BY DEF HostOperation
<1>2. control.sel \in SUBSET Drives
  BY <1>0, Zenon DEF ControlWord
<1>3. hosts' \in 0..MaxHost
  BY <1>0, <1>1, ConstantsAssumption
<1>4. drives' \in [Drives -> FloppyDrive]
  BY <1>0, <1>1, Zenon DEF Changes
<1>5. TypeOK'
  BY <1>0, <1>1, <1>2, <1>3, <1>4, Routed, Zenon DEF TypeOK
<1>6. StatusIsCurrent'
  BY <1>1, <1>2, Routed, Zenon DEF StatusIsCurrent
<1>7. \A j \in Drives : drives'[j] = IF j = i THEN d ELSE drives[j]
  BY <1>0, <1>1, Zenon
<1>8. SwapNoticed'
  BY <1>1, <1>7, ZenonT(60) DEF DrivesHonest, SwapNoticed, Changes
<1>9. ReadyMeansSpinning'
  BY <1>7, Zenon DEF DrivesHonest, ReadyMeansSpinning, Spinning, Changes
<1> QED
  BY <1>5, <1>6, <1>8, <1>9 DEF DrivesHonest

LEMMA NothingSelected ==
    /\ NoControl \in ControlWord /\ NoControl.sel = {}
    /\ First({}) = 0 /\ 0 \in Drives /\ Cardinality({}) # 1
<1>1. NoControl \in ControlWord /\ NoControl.sel = {}
  BY DEF NoControl, ControlWord
<1>2. First({}) = 0
  BY Zenon DEF First
<1>3. 0 \in Drives
  BY ConstantsAssumption DEF Drives
<1>4. Cardinality({}) # 1
  BY FS_EmptySet
<1> QED
  BY <1>1, <1>2, <1>3, <1>4

LEMMA ResetKeeps ==
    ASSUME DrivesHonest, Reset
    PROVE  DrivesHonest'
<1>0. /\ drives \in [Drives -> FloppyDrive] /\ acked \in [Drives -> Disks \cup {NoDisk}]
      /\ hosts \in 0..MaxHost
  BY DEF DrivesHonest, TypeOK
<1>1. /\ hosts < MaxHost /\ hosts' = hosts + 1
      /\ drives' = [i \in Drives |-> ResetDrive(i)] /\ control' = NoControl
      /\ lines' = {} /\ current' = 0 /\ acked' = acked
  BY DEF Reset
<1>2. ASSUME NEW i \in Drives PROVE Changes(drives[i], drives'[i])
  BY <1>0, <1>1, ResetChanges, Zenon
<1>3. hosts' \in 0..MaxHost
  BY <1>0, <1>1, ConstantsAssumption
<1>4. TypeOK'
  <2>1. drives' \in [Drives -> FloppyDrive]
    BY <1>1, <1>2, Zenon DEF Changes
  <2> QED
    BY <1>0, <1>1, <1>3, <2>1, NothingSelected, Zenon DEF TypeOK
<1>5. StatusIsCurrent'
  BY <1>1, NothingSelected, Zenon DEF StatusIsCurrent
<1>6. SwapNoticed'
  BY <1>2, Zenon DEF SwapNoticed, Changes
<1>7. ReadyMeansSpinning'
  BY <1>2, Zenon DEF DrivesHonest, ReadyMeansSpinning, Spinning, Changes
<1> QED
  BY <1>4, <1>5, <1>6, <1>7 DEF DrivesHonest

LEMMA DrivesStart == Init => DrivesHonest
<1> SUFFICES ASSUME Init PROVE DrivesHonest
  OBVIOUS
<1>1. /\ drives = [i \in Drives |-> floppy_set_connected(floppy_init, i = 0)]
      /\ control = NoControl /\ lines = {} /\ current = 0
      /\ acked = [i \in Drives |-> NoDisk] /\ hosts = 0
  BY DEF Init
<1>2. ~floppy_init.ready /\ floppy_init.disk_changed
  BY Zenon DEF floppy_init
<1>3. ASSUME NEW i \in Drives
      PROVE  drives[i] \in FloppyDrive /\ drives[i].disk_changed /\ ~drives[i].ready
  <2>1. (i = 0) \in BOOLEAN
    OBVIOUS
  <2> QED
    BY <1>1, <1>2, <2>1, FreshDrive, Connected, Zenon
<1>4. hosts \in 0..MaxHost
  BY <1>1, ConstantsAssumption
<1>5. TypeOK
  <2>1. drives \in [Drives -> FloppyDrive] /\ acked \in [Drives -> Disks \cup {NoDisk}]
    BY <1>1, <1>3, Zenon
  <2> QED
    BY <1>1, <1>4, <2>1, NothingSelected, Zenon DEF TypeOK
<1>6. StatusIsCurrent
  BY <1>1, NothingSelected, Zenon DEF StatusIsCurrent
<1>7. SwapNoticed /\ ReadyMeansSpinning
  BY <1>3, Zenon DEF SwapNoticed, ReadyMeansSpinning
<1> QED
  BY <1>5, <1>6, <1>7 DEF DrivesHonest

(* Status lines, change latches and ready flags tell the truth about every *)
(* drive (floppy_step, cia_b_prb_update_floppy, rigel_sync_floppy_cia_     *)
(* lines): for any number of drives and any control words, inserts, ejects *)
(* and resets.                                                             *)
THEOREM DrivesAreHonest == Spec => []DrivesHonest
<1>1. DrivesHonest /\ [Next]_vars => DrivesHonest'
  <2> SUFFICES ASSUME DrivesHonest, [Next]_vars PROVE DrivesHonest'
    OBVIOUS
  <2>0. \A i \in Drives : drives[i] \in FloppyDrive
    BY Zenon DEF DrivesHonest, TypeOK
  <2>1. ASSUME NEW i \in Drives, NEW disk \in Disks, Insert(i, disk) PROVE DrivesHonest'
    BY <2>0, <2>1, InsertChanges, HostKeeps, Zenon DEF Insert
  <2>2. ASSUME NEW i \in Drives, Eject(i) PROVE DrivesHonest'
    BY <2>0, <2>2, EjectChanges, HostKeeps, Zenon DEF Eject
  <2>3. CASE UNCHANGED vars
    BY <2>3, Zenon DEF vars, DrivesHonest, TypeOK, StatusIsCurrent, SwapNoticed, ReadyMeansSpinning
  <2> QED
    BY <2>1, <2>2, <2>3, ControlKeeps, ResetKeeps, Zenon DEF Next
<1> QED
  BY <1>1, DrivesStart, PTL DEF Spec

-----------------------------------------------------------------------------
(* The IDE channel.                                                        *)
(*                                                                         *)
(* A word is a number, a word of the guest, or a tag of a fixed reply.     *)
IdeWord == Nat \cup IdeWords \cup {"IDENTITY", "REQUEST_SENSE"} \cup Senses \cup PlainPackets

AtaIdeChannel ==
    [error: {"OK", "DIAG", "ABRT"}, status: SUBSET {"RDY", "DRQ", "ERR"},
     lba_low: 0..DiskSectors, lba_high: {0, SIGNATURE, BYTES}, sector_count: Nat,
     dev: {0, 1}, state: Transfers \cup {"IDLE", "ATAPI_CMD", "DATA_OUT"},
     buf: Seq(IdeWord), len: Nat, pos: Nat, pkt_pos: 0..PktWords, wr_lba: Nat, wr_count: Nat]

Asked == [dir: {"none", "in", "out"}, lba: Nat, words: Nat, moved: Seq(IdeWord),
          spoilt: BOOLEAN]

Image == [attached: BOOLEAN, words: [1..DiskWords -> IdeWord]]

(* A channel that has what its status promises.                            *)
DataStates == Transfers \cup {"DATA_OUT"}
Moving(c) == c.state \in DataStates

Holds(c) ==
    /\ c \in AtaIdeChannel /\ "RDY" \in c.status
    /\ c.pos <= c.len /\ c.len <= Len(c.buf)
    /\ c.wr_lba + c.wr_count <= DiskSectors
    /\ Moving(c) => c.pos < c.len
    /\ c.state = "ATAPI_CMD" => c.pkt_pos < PktWords
    /\ c.state = "IDLE" => "DRQ" \notin c.status

(* The words from lba on, n of them, lie on the disk.                      *)
OnDisk(lba, n) == lba * SectorWords + n <= DiskWords

(* A read the guest asked for: what is in the buffer is the sectors, what  *)
(* was moved is the part of it before the pointer.                         *)
ReadUnderWay(c, h, a) ==
    a.dir = "in" =>
        /\ c.state \in {"DATA_IN", "IDLE"}
        /\ OnDisk(a.lba, a.words) /\ Len(a.moved) <= a.words
        /\ ~a.spoilt => \A i \in 1..Len(a.moved) : a.moved[i] = h.words[a.lba * SectorWords + i]
        /\ c.state = "DATA_IN" =>
             /\ c.len = a.words /\ c.pos = Len(a.moved)
             /\ ~a.spoilt => \A i \in 1..c.len : c.buf[i] = h.words[a.lba * SectorWords + i]

(* A write: the buffer begins with what was moved, and is for the sectors  *)
(* asked for.                                                              *)
WriteUnderWay(c, a) ==
    /\ a.dir = "out" => c.state \in {"DATA_OUT", "IDLE"}
    /\ c.state = "DATA_OUT" =>
         /\ a.dir = "out" /\ OnDisk(a.lba, a.words)
         /\ c.len = a.words /\ c.pos = Len(a.moved)
         /\ c.wr_lba = a.lba /\ a.words = c.wr_count * SectorWords
         /\ ~a.spoilt => \A i \in 1..c.pos : c.buf[i] = a.moved[i]

IdeInv ==
    /\ Holds(ch) /\ cd \in AtapiCdromState /\ hdf \in Image /\ asked \in Asked
    /\ ReadUnderWay(ch, hdf, asked) /\ WriteUnderWay(ch, asked)
    /\ pktFailed => cd.sense # "NO_SENSE"

-----------------------------------------------------------------------------
LEMMA SectorsFit ==
    ASSUME NEW a \in Nat, NEW n \in Nat, a + n <= DiskSectors
    PROVE  /\ a * SectorWords \in Nat /\ n * SectorWords \in Nat
           /\ OnDisk(a, n * SectorWords)
           /\ n > 0 => n * SectorWords > 0
           /\ (a + n) * SectorWords = a * SectorWords + n * SectorWords
<1> USE IdeAssumption
<1>1. a * SectorWords \in Nat /\ n * SectorWords \in Nat
  OBVIOUS
<1>2. (a + n) * SectorWords = a * SectorWords + n * SectorWords
  OBVIOUS
<1>3. PICK d \in Nat : DiskSectors = (a + n) + d
  <2>1. DiskSectors - (a + n) \in Nat /\ DiskSectors = (a + n) + (DiskSectors - (a + n))
    OBVIOUS
  <2> QED
    BY <2>1
<1>4. DiskWords = (a + n) * SectorWords + d * SectorWords /\ d * SectorWords \in Nat
  BY <1>3 DEF DiskWords
<1>5. OnDisk(a, n * SectorWords)
  BY <1>1, <1>2, <1>4 DEF OnDisk
<1>6. n > 0 => n * SectorWords > 0
  OBVIOUS
<1> QED
  BY <1>1, <1>2, <1>5, <1>6, Zenon

(* A function on 1..n is a sequence of length n.                           *)
LEMMA FcnIsSeq ==
    ASSUME NEW W, NEW n \in Nat, NEW f \in [1..n -> W]
    PROVE  f \in Seq(W) /\ Len(f) = n
<1>1. f \in Seq(W)
  BY SeqDef, Zenon
<1>2. DOMAIN f = 1..Len(f) /\ Len(f) \in Nat /\ DOMAIN f = 1..n
  BY <1>1, LenProperties
<1>3. 1..Len(f) = 1..n
  BY <1>2, Zenon
<1>4. Len(f) = n
  <2>1. ASSUME n < Len(f) PROVE FALSE
    <3>1. Len(f) \in 1..Len(f) /\ Len(f) \notin 1..n
      BY <1>2, <2>1
    <3> QED
      BY <1>3, <3>1, Zenon
  <2>2. ASSUME Len(f) < n PROVE FALSE
    <3>1. n \in 1..n /\ n \notin 1..Len(f)
      BY <1>2, <2>2
    <3> QED
      BY <1>3, <3>1, Zenon
  <2> QED
    BY <1>2, <2>1, <2>2
<1> QED
  BY <1>1, <1>4

(* The fields of a channel.                                                *)
LEMMA ChannelFields ==
    ASSUME NEW c \in AtaIdeChannel
    PROVE  /\ c.error \in {"OK", "DIAG", "ABRT"} /\ c.status \in SUBSET {"RDY", "DRQ", "ERR"}
           /\ c.lba_low \in 0..DiskSectors /\ c.lba_low \in Nat
           /\ c.lba_high \in {0, SIGNATURE, BYTES} /\ c.sector_count \in Nat /\ c.dev \in {0, 1}
           /\ c.state \in Transfers \cup {"IDLE", "ATAPI_CMD", "DATA_OUT"}
           /\ c.buf \in Seq(IdeWord) /\ c.len \in Nat /\ c.pos \in Nat
           /\ c.pkt_pos \in 0..PktWords /\ c.wr_lba \in Nat /\ c.wr_count \in Nat
<1>1. 0..DiskSectors \subseteq Nat
  BY IdeAssumption
<1> QED
  BY <1>1, Zenon DEF AtaIdeChannel

LEMMA WordsAre == Nat \subseteq IdeWord /\ IdeWords \subseteq IdeWord /\ "IDENTITY" \in IdeWord
BY Zenon DEF IdeWord

(* What a transfer of some words starts with.                              *)
LEMMA StartHolds ==
    ASSUME NEW c, Holds(c), NEW st \in DataStates,
           NEW words \in Seq(IdeWord), Len(words) > 0, NEW t, t = start(c, st, words)
    PROVE  /\ Holds(t) /\ t.state = st /\ t.buf = words /\ t.len = Len(words) /\ t.pos = 0
           /\ "DRQ" \in t.status /\ t.lba_low = c.lba_low /\ t.wr_lba = c.wr_lba
           /\ t.wr_count = c.wr_count
<1> DEFINE n == Len(words)
<1>1. n \in Nat /\ n > 0
  OBVIOUS
<1>2. c \in AtaIdeChannel /\ c.wr_lba + c.wr_count <= DiskSectors
  BY DEF Holds
<1>3. t = [c EXCEPT !.state = st, !.buf = words, !.len = n, !.pos = 0,
                    !.status = {"RDY", "DRQ"}, !.error = "OK"]
  BY Zenon DEF start
<1> HIDE DEF n
<1>4. /\ 0 \in Nat /\ st \in Transfers \cup {"IDLE", "ATAPI_CMD", "DATA_OUT"}
      /\ {"RDY", "DRQ"} \in SUBSET {"RDY", "DRQ", "ERR"} /\ "OK" \in {"OK", "DIAG", "ABRT"}
  BY DEF DataStates
<1>5. t \in AtaIdeChannel
  BY <1>1, <1>2, <1>3, <1>4, ZenonT(60) DEF AtaIdeChannel
<1>6. /\ t.state = st /\ t.buf = words /\ t.len = n /\ t.pos = 0 /\ t.status = {"RDY", "DRQ"}
      /\ t.wr_lba = c.wr_lba /\ t.wr_count = c.wr_count /\ t.lba_low = c.lba_low
  BY <1>2, <1>3, Zenon DEF AtaIdeChannel
<1>7. 0 <= n /\ 0 < n /\ n <= n
  BY <1>1
<1>8. t.pos <= t.len /\ t.len <= Len(t.buf) /\ t.pos < t.len
  BY <1>6, <1>7 DEF n
<1>9. t.wr_lba + t.wr_count <= DiskSectors
  BY <1>2, <1>6, Zenon
<1>10. st # "IDLE" /\ st # "ATAPI_CMD"
  BY DEF Transfers, DataStates
<1>11. Holds(t)
  BY <1>5, <1>6, <1>8, <1>9, <1>10, Zenon DEF Holds
<1> QED
  BY <1>6, <1>11, Zenon DEF n

(* A step that leaves the transfer where it is.                            *)
Still(c, t) ==
    /\ t.state = c.state /\ t.len = c.len /\ t.pos = c.pos /\ t.pkt_pos = c.pkt_pos
    /\ t.wr_lba = c.wr_lba /\ t.wr_count = c.wr_count /\ Len(t.buf) = Len(c.buf)

LEMMA StillHolds ==
    ASSUME NEW c, Holds(c), NEW t \in AtaIdeChannel, Still(c, t),
           "RDY" \in t.status, "DRQ" \in t.status => "DRQ" \in c.status
    PROVE  Holds(t)
BY Zenon DEF Holds, Still, Moving

LEMMA AbortHolds ==
    ASSUME NEW c, Holds(c), NEW t, t = abort(c)
    PROVE  Holds(t) /\ Still(c, t) /\ t.buf = c.buf /\ "DRQ" \notin t.status
<1>1. c \in AtaIdeChannel
  BY DEF Holds
<1>2. {"RDY", "ERR"} \in SUBSET {"RDY", "DRQ", "ERR"} /\ "ABRT" \in {"OK", "DIAG", "ABRT"}
  OBVIOUS
<1>3. t = [c EXCEPT !.error = "ABRT", !.status = {"RDY", "ERR"}]
  BY Zenon DEF abort
<1>4. t \in AtaIdeChannel
  BY <1>1, <1>2, <1>3, Zenon DEF AtaIdeChannel
<1>5. Still(c, t) /\ t.buf = c.buf /\ t.status = {"RDY", "ERR"}
  BY <1>1, <1>3, Zenon DEF AtaIdeChannel, Still
<1> QED
  BY <1>4, <1>5, StillHolds

(* The upper address registers and the sector count are not looked at.     *)
LEMMA HighHolds ==
    ASSUME NEW c, Holds(c), NEW h \in {0, SIGNATURE, BYTES}, NEW t, t = [c EXCEPT !.lba_high = h]
    PROVE  Holds(t) /\ Still(c, t) /\ t.buf = c.buf /\ t.status = c.status
<1>1. c \in AtaIdeChannel /\ "RDY" \in c.status
  BY DEF Holds
<1>2. t \in AtaIdeChannel
  BY <1>1, Zenon DEF AtaIdeChannel
<1>3. Still(c, t) /\ t.buf = c.buf /\ t.status = c.status
  BY <1>1, Zenon DEF AtaIdeChannel, Still
<1> QED
  BY <1>1, <1>2, <1>3, StillHolds

LEMMA ResetHolds ==
    ASSUME NEW c \in AtaIdeChannel, c.wr_lba + c.wr_count <= DiskSectors,
           NEW t, t = channel_reset(c)
    PROVE  Holds(t) /\ t.state = "IDLE" /\ t.pos = 0 /\ t.len = 0
<1>1. /\ {"RDY"} \in SUBSET {"RDY", "DRQ", "ERR"} /\ "DIAG" \in {"OK", "DIAG", "ABRT"}
      /\ 0 \in Nat /\ 0 \in 0..DiskSectors /\ SIGNATURE \in {0, SIGNATURE, BYTES}
      /\ 0 \in 0..PktWords /\ 0 \in {0, 1}
      /\ "IDLE" \in Transfers \cup {"IDLE", "ATAPI_CMD", "DATA_OUT"}
  BY IdeAssumption
<1>2. t \in AtaIdeChannel
  BY <1>1, Zenon DEF AtaIdeChannel, channel_reset
<1>3. /\ t.state = "IDLE" /\ t.pos = 0 /\ t.len = 0 /\ t.status = {"RDY"} /\ t.buf = c.buf
      /\ t.wr_lba = c.wr_lba /\ t.wr_count = c.wr_count
  BY Zenon DEF AtaIdeChannel, channel_reset
<1>4. Len(t.buf) \in Nat
  BY <1>2, ChannelFields
<1>5. t.pos <= t.len /\ t.len <= Len(t.buf)
  BY <1>3, <1>4
<1>6. t.wr_lba + t.wr_count <= DiskSectors
  BY <1>3, Zenon
<1>7. "RDY" \in t.status /\ "DRQ" \notin t.status /\ ~Moving(t) /\ t.state # "ATAPI_CMD"
  BY <1>3 DEF Moving, DataStates, Transfers
<1> QED
  BY <1>2, <1>3, <1>5, <1>6, <1>7, Zenon DEF Holds

LEMMA DeviceResetHolds ==
    ASSUME NEW c, Holds(c), NEW h \in {0, SIGNATURE, BYTES}, NEW t, t = device_reset(c, h)
    PROVE  Holds(t) /\ t.state = "IDLE"
<1> DEFINE r == channel_reset(c)
           u == [r EXCEPT !.dev = c.dev]
<1>1. c \in AtaIdeChannel /\ c.wr_lba + c.wr_count <= DiskSectors
  BY DEF Holds
<1>2. Holds(r) /\ r.state = "IDLE"
  BY <1>1, ResetHolds
<1>3. r \in AtaIdeChannel /\ "RDY" \in r.status
  BY <1>2 DEF Holds
<1>4. t = [u EXCEPT !.lba_high = h]
  BY <1>3, Zenon DEF device_reset
<1> HIDE DEF r
<1>5. u \in AtaIdeChannel /\ Still(r, u) /\ u.status = r.status
  BY <1>1, <1>3, Zenon DEF AtaIdeChannel, Still
<1>6. Holds(u) /\ u.state = "IDLE"
  BY <1>2, <1>3, <1>5, StillHolds, Zenon DEF Still
<1> HIDE DEF u
<1> QED
  BY <1>4, <1>6, HighHolds DEF Still

LEMMA DoneHolds ==
    ASSUME NEW c \in AtaIdeChannel, c.wr_lba + c.wr_count <= DiskSectors,
           NEW t, t = transfer_done(c)
    PROVE  Holds(t) /\ t.state = "IDLE"
<1>1. /\ {"RDY"} \in SUBSET {"RDY", "DRQ", "ERR"} /\ 0 \in Nat
      /\ "IDLE" \in Transfers \cup {"IDLE", "ATAPI_CMD", "DATA_OUT"}
  OBVIOUS
<1>2. t \in AtaIdeChannel
  BY <1>1, Zenon DEF AtaIdeChannel, transfer_done
<1>3. /\ t.state = "IDLE" /\ t.pos = 0 /\ t.len = 0 /\ t.status = {"RDY"} /\ t.buf = c.buf
      /\ t.wr_lba = c.wr_lba /\ t.wr_count = c.wr_count
  BY Zenon DEF AtaIdeChannel, transfer_done
<1>4. Len(t.buf) \in Nat
  BY <1>2, ChannelFields
<1>5. t.pos <= t.len /\ t.len <= Len(t.buf)
  BY <1>3, <1>4
<1>6. t.wr_lba + t.wr_count <= DiskSectors
  BY <1>3, Zenon
<1>7. "RDY" \in t.status /\ "DRQ" \notin t.status /\ ~Moving(t) /\ t.state # "ATAPI_CMD"
  BY <1>3 DEF Moving, DataStates, Transfers
<1> QED
  BY <1>2, <1>3, <1>5, <1>6, <1>7, Zenon DEF Holds

-----------------------------------------------------------------------------
(* Commands.                                                               *)

LEMMA RangeFits ==
    ASSUME Holds(ch), ~out_of_range(ch)
    PROVE  LET n == sectors_asked(ch)
           IN  /\ n \in Nat /\ n > 0 /\ ch.lba_low \in Nat /\ ch.lba_low + n <= DiskSectors
               /\ n * SectorWords \in Nat /\ n * SectorWords > 0
               /\ ch.lba_low * SectorWords \in Nat
               /\ OnDisk(ch.lba_low, n * SectorWords)
<1> DEFINE n == sectors_asked(ch)
           a == ch.lba_low
<1>1. ch.sector_count \in Nat /\ a \in Nat
  BY ChannelFields DEF Holds
<1>2. n \in Nat /\ n > 0
  BY <1>1, IdeAssumption DEF sectors_asked
<1>3. a + n <= DiskSectors
  BY <1>1, <1>2, IdeAssumption DEF out_of_range
<1> HIDE DEF n, a
<1>4. /\ a * SectorWords \in Nat /\ n * SectorWords \in Nat /\ OnDisk(a, n * SectorWords)
      /\ n * SectorWords > 0
  BY <1>1, <1>2, <1>3, SectorsFit
<1> QED
  BY <1>1, <1>2, <1>3, <1>4, Zenon DEF n, a

(* Words of the disk, by their place.                                      *)
LEMMA DiskWord ==
    ASSUME NEW h \in Image, NEW lba \in Nat, NEW n \in Nat, OnDisk(lba, n), NEW i \in 1..n
    PROVE  h.words[lba * SectorWords + i] \in IdeWord
<1>1. lba * SectorWords \in Nat /\ DiskWords \in Nat
  BY IdeAssumption DEF DiskWords
<1>2. lba * SectorWords + i \in 1..DiskWords
  BY <1>1 DEF OnDisk
<1>3. h.words \in [1..DiskWords -> IdeWord]
  BY Zenon DEF Image
<1> HIDE DEF IdeWord
<1> QED
  BY <1>2, <1>3, Zenon

LEMMA ReadIsWords ==
    ASSUME hdf \in Image, NEW lba \in Nat, NEW count \in Nat,
           OnDisk(lba, count * SectorWords), count * SectorWords \in Nat,
           NEW b, b = DiskRead(lba, count)
    PROVE  /\ b \in Seq(IdeWord) /\ Len(b) = count * SectorWords
           /\ \A i \in 1..Len(b) : b[i] = hdf.words[lba * SectorWords + i]
<1> DEFINE n == count * SectorWords
           f == [i \in 1..n |-> hdf.words[lba * SectorWords + i]]
           W == IdeWord
<1>1. b = f /\ n \in Nat
  BY DEF DiskRead
<1>2. \A i \in 1..n : hdf.words[lba * SectorWords + i] \in W
  BY DiskWord
<1> HIDE DEF n, W
<1>3. f \in [1..n -> W]
  BY <1>2, Zenon
<1>4. \A i \in 1..n : f[i] = hdf.words[lba * SectorWords + i]
  OBVIOUS
<1> HIDE DEF f
<1>5. f \in Seq(W) /\ Len(f) = n
  BY <1>1, <1>3, FcnIsSeq
<1> QED
  BY <1>1, <1>4, <1>5, Zenon DEF n, W

LEMMA BlankIsWords ==
    ASSUME NEW n \in Nat, NEW b, b = [i \in 1..n |-> 0]
    PROVE  b \in Seq(IdeWord) /\ Len(b) = n
<1> DEFINE W == IdeWord
<1>1. 0 \in W
  BY WordsAre
<1> HIDE DEF W
<1>2. b \in [1..n -> W]
  BY <1>1
<1>3. b \in Seq(W) /\ Len(b) = n
  BY <1>2, FcnIsSeq
<1> QED
  BY <1>3 DEF W

Spoils(cmd) == cmd = "READ_SECTORS" /\ ch.dev = 0 /\ ~out_of_range(ch)

(* A short read puts words of the disk into the buffer and nothing else.   *)
LEMMA ShortHolds ==
    ASSUME Holds(ch), hdf \in Image, ~out_of_range(ch), NEW got \in Nat,
           got < sectors_asked(ch) * SectorWords, NEW t, t = short_read(ch, got)
    PROVE  Holds(t) /\ Still(ch, t) /\ "DRQ" \notin t.status
<1> DEFINE u == abort(ch)
           b == [i \in DOMAIN u.buf |->
                   IF i <= got THEN hdf.words[ch.lba_low * SectorWords + i] ELSE u.buf[i]]
           n == sectors_asked(ch) * SectorWords
           W == IdeWord
<1>1. Holds(u) /\ Still(ch, u) /\ "DRQ" \notin u.status
  BY AbortHolds, Zenon
<1>2. u \in AtaIdeChannel /\ "RDY" \in u.status
  BY <1>1 DEF Holds
<1>3. u.buf \in Seq(W)
  BY <1>2, ChannelFields
<1>4. n \in Nat /\ ch.lba_low \in Nat /\ OnDisk(ch.lba_low, n)
  BY RangeFits
<1>5. t = [u EXCEPT !.buf = b]
  BY Zenon DEF short_read
<1> HIDE DEF u
<1>6. \A i \in 1..n : hdf.words[ch.lba_low * SectorWords + i] \in W
  BY <1>4, DiskWord
<1> HIDE DEF n, W
<1>7. DOMAIN u.buf = 1..Len(u.buf) /\ Len(u.buf) \in Nat
  BY <1>3
<1>8. \A i \in 1..Len(u.buf) : b[i] \in W
  <2> SUFFICES ASSUME NEW i \in 1..Len(u.buf) PROVE b[i] \in W
    OBVIOUS
  <2>1. u.buf[i] \in W
    BY <1>3
  <2>2. ASSUME i <= got PROVE i \in 1..n
    BY <1>4, <1>7, <2>2 DEF n
  <2>3. b[i] = IF i <= got THEN hdf.words[ch.lba_low * SectorWords + i] ELSE u.buf[i]
    BY <1>7, Zenon
  <2> QED
    BY <1>6, <2>1, <2>2, <2>3, Zenon
<1>9. DOMAIN b = 1..Len(u.buf)
  BY <1>7, Zenon
<1>10. b = [i \in DOMAIN b |-> b[i]]
  BY Zenon
<1> HIDE DEF b
<1>11. b \in [1..Len(u.buf) -> W]
  BY <1>8, <1>9, <1>10, Zenon
<1>12. b \in Seq(W) /\ Len(b) = Len(u.buf)
  BY <1>7, <1>11, FcnIsSeq
<1>13. t \in AtaIdeChannel
  BY <1>2, <1>5, <1>12, Zenon DEF AtaIdeChannel, W
<1>14. Still(u, t) /\ t.status = u.status
  BY <1>2, <1>5, <1>12, Zenon DEF AtaIdeChannel, Still
<1>15. Holds(t)
  BY <1>1, <1>2, <1>13, <1>14, StillHolds
<1> QED
  BY <1>1, <1>14, <1>15, Zenon DEF Still

(* What a command does to the channel: it leaves the transfer alone, ends  *)
(* it, offers an identity, or starts the disk transfer it asks for.        *)
Kept(cmd, t) ==
    Still(ch, t) /\ "DRQ" \notin t.status /\ (t.buf = ch.buf \/ Spoils(cmd))

DiskCmds == {"READ_SECTORS", "WRITE_SECTORS"}

Left(cmd, t) == t.state \notin {"DATA_IN", "DATA_OUT"} /\ cmd \notin DiskCmds

Told(cmd, t) == t.state = "DATA_IN" /\ "DRQ" \in t.status /\ cmd \notin DiskCmds

Begun(cmd, t) ==
    /\ "DRQ" \in t.status /\ ~out_of_range(ch)
    /\ t.pos = 0 /\ t.len = sectors_asked(ch) * SectorWords
    /\ \/ /\ cmd = "READ_SECTORS" /\ t.state = "DATA_IN"
          /\ \A i \in 1..t.len : t.buf[i] = hdf.words[ch.lba_low * SectorWords + i]
       \/ /\ cmd = "WRITE_SECTORS" /\ t.state = "DATA_OUT"
          /\ t.wr_lba = ch.lba_low /\ t.wr_count = sectors_asked(ch)

Outcome(cmd, t) ==
    Holds(t) /\ (Kept(cmd, t) \/ Left(cmd, t) \/ Told(cmd, t) \/ Begun(cmd, t))

LEMMA ReadOutcome ==
    ASSUME Holds(ch), hdf \in Image, ch.dev = 0, NEW got \in Nat, NEW t, t = read_sectors(ch, got)
    PROVE  Outcome("READ_SECTORS", t)
<1>1. CASE out_of_range(ch)
  <2>1. t = abort(ch)
    BY <1>1, Zenon DEF read_sectors
  <2> QED
    BY <2>1, AbortHolds, Zenon DEF Outcome, Kept
<1>2. CASE ~out_of_range(ch) /\ got < sectors_asked(ch) * SectorWords
  <2>1. t = short_read(ch, got)
    BY <1>2, Zenon DEF read_sectors
  <2>2. Holds(t) /\ Still(ch, t) /\ "DRQ" \notin t.status
    BY <1>2, <2>1, ShortHolds
  <2> QED
    BY <1>2, <2>2, Zenon DEF Outcome, Kept, Spoils
<1>3. CASE ~out_of_range(ch) /\ ~(got < sectors_asked(ch) * SectorWords)
  <2> DEFINE n == sectors_asked(ch)
             a == ch.lba_low
             b == DiskRead(a, n)
  <2>1. /\ n \in Nat /\ a \in Nat /\ n * SectorWords \in Nat /\ n * SectorWords > 0
        /\ OnDisk(a, n * SectorWords)
    BY <1>3, RangeFits
  <2>2. t = start(ch, "DATA_IN", b)
    BY <1>3, Zenon DEF read_sectors
  <2> HIDE DEF n, a
  <2>3. /\ b \in Seq(IdeWord) /\ Len(b) = n * SectorWords
        /\ \A i \in 1..Len(b) : b[i] = hdf.words[a * SectorWords + i]
    BY <2>1, ReadIsWords
  <2>4. "DATA_IN" \in DataStates /\ Len(b) > 0
    BY <2>1, <2>3 DEF Transfers, DataStates
  <2> HIDE DEF b
  <2>5. /\ Holds(t) /\ t.state = "DATA_IN" /\ t.buf = b /\ t.len = Len(b) /\ t.pos = 0
        /\ "DRQ" \in t.status
    BY <2>2, <2>3, <2>4, StartHolds
  <2> QED
    BY <1>3, <2>3, <2>5, Zenon DEF Outcome, Begun, n, a
<1> QED
  BY <1>1, <1>2, <1>3, Zenon

LEMMA WriteOutcome ==
    ASSUME Holds(ch), NEW t, t = write_sectors(ch)
    PROVE  Outcome("WRITE_SECTORS", t)
<1>1. CASE out_of_range(ch)
  <2>1. t = abort(ch)
    BY <1>1, Zenon DEF write_sectors
  <2> QED
    BY <2>1, AbortHolds, Zenon DEF Outcome, Kept
<1>2. CASE ~out_of_range(ch)
  <2> DEFINE n == sectors_asked(ch)
             a == ch.lba_low
             m == n * SectorWords
             b == [i \in 1..m |-> 0]
  <2>1. n \in Nat /\ a \in Nat /\ m \in Nat /\ m > 0 /\ a + n <= DiskSectors
    BY <1>2, RangeFits
  <2>0. PICK u : u = start(ch, "DATA_OUT", b)
    OBVIOUS
  <2>2. t = [u EXCEPT !.wr_lba = a, !.wr_count = n]
    BY <1>2, <2>0, Zenon DEF write_sectors
  <2> HIDE DEF m
  <2>3. b \in Seq(IdeWord) /\ Len(b) = m
    BY <2>1, BlankIsWords
  <2>4. "DATA_OUT" \in DataStates /\ Len(b) > 0
    BY <2>1, <2>3 DEF DataStates
  <2> HIDE DEF b
  <2>5. /\ Holds(u) /\ u.state = "DATA_OUT" /\ u.buf = b /\ u.len = Len(b) /\ u.pos = 0
        /\ "DRQ" \in u.status
    BY <2>0, <2>3, <2>4, StartHolds
  <2> HIDE DEF n, a
  <2>6. u \in AtaIdeChannel
    BY <2>5 DEF Holds
  <2>7. t \in AtaIdeChannel
    BY <2>1, <2>2, <2>6, Zenon DEF AtaIdeChannel
  <2>8. /\ t.state = u.state /\ t.len = u.len /\ t.pos = u.pos /\ t.pkt_pos = u.pkt_pos
        /\ t.buf = u.buf /\ t.status = u.status /\ t.wr_lba = a /\ t.wr_count = n
    BY <2>2, <2>6, Zenon DEF AtaIdeChannel
  <2>9. t.wr_lba + t.wr_count <= DiskSectors
    BY <2>1, <2>8, Zenon
  <2>10. Holds(t)
    BY <2>5, <2>7, <2>8, <2>9, Zenon DEF Holds, Moving
  <2> QED
    BY <1>2, <2>3, <2>5, <2>8, <2>10, Zenon DEF Outcome, Begun, n, a, m
<1> QED
  BY <1>1, <1>2

LEMMA IdentityIsWords ==
    ASSUME NEW dev \in {0, 1}
    PROVE  Identity(dev) \in Seq(IdeWord) /\ Len(Identity(dev)) > 0
<1> DEFINE W == IdeWord
<1>1. "IDENTITY" \in W /\ dev \in W
  BY WordsAre
<1> HIDE DEF W
<1>2. <<"IDENTITY", dev>> \in Seq(W) /\ Len(<<"IDENTITY", dev>>) = 2
  BY <1>1
<1> QED
  BY <1>2 DEF Identity, W

LEMMA DiskOutcome ==
    ASSUME Holds(ch), hdf \in Image, ch.dev = 0, NEW cmd \in IdeCommands, NEW got \in Nat,
           NEW t, t = execute_disk_command(ch, cmd, got)
    PROVE  Outcome(cmd, t)
<1>1. CASE cmd = "DEVICE_RESET"
  <2>1. t = device_reset(ch, 0)
    BY <1>1 DEF execute_disk_command
  <2>2. Holds(t) /\ t.state = "IDLE"
    BY <2>1, DeviceResetHolds
  <2> QED
    BY <1>1, <2>2 DEF Outcome, Left, DiskCmds
<1>2. CASE cmd = "IDENTIFY_DEVICE"
  <2>1. t = start(ch, "DATA_IN", Identity(0))
    BY <1>2 DEF execute_disk_command
  <2>2. "DATA_IN" \in DataStates
    BY DEF Transfers, DataStates
  <2>3. Holds(t) /\ t.state = "DATA_IN" /\ "DRQ" \in t.status
    BY <2>1, <2>2, IdentityIsWords, StartHolds
  <2> QED
    BY <1>2, <2>3 DEF Outcome, Told, DiskCmds
<1>3. CASE cmd = "SET_FEATURES"
  <2>0. ch \in AtaIdeChannel
    BY DEF Holds
  <2>1. t = [ch EXCEPT !.status = {"RDY"}, !.error = "OK"]
    BY <1>3 DEF execute_disk_command
  <2>2. {"RDY"} \in SUBSET {"RDY", "DRQ", "ERR"} /\ "OK" \in {"OK", "DIAG", "ABRT"}
    OBVIOUS
  <2>3. t \in AtaIdeChannel
    BY <2>0, <2>1, <2>2, Zenon DEF AtaIdeChannel
  <2>4. Still(ch, t) /\ t.status = {"RDY"} /\ t.buf = ch.buf
    BY <2>0, <2>1, Zenon DEF AtaIdeChannel, Still
  <2>5. Holds(t) /\ "DRQ" \notin t.status
    BY <2>3, <2>4, StillHolds
  <2> QED
    BY <2>4, <2>5, Zenon DEF Outcome, Kept
<1>4. CASE cmd = "READ_SECTORS"
  <2>1. t = read_sectors(ch, got)
    BY <1>4 DEF execute_disk_command
  <2> QED
    BY <1>4, <2>1, ReadOutcome
<1>5. CASE cmd = "WRITE_SECTORS"
  <2>1. t = write_sectors(ch)
    BY <1>5 DEF execute_disk_command
  <2> QED
    BY <1>5, <2>1, WriteOutcome
<1>6. CASE cmd \in {"IDENTIFY_PACKET", "PACKET", "UNKNOWN"}
  <2>1. t = abort(ch)
    BY <1>6 DEF execute_disk_command
  <2> QED
    BY <2>1, AbortHolds, Zenon DEF Outcome, Kept
<1> QED
  BY <1>1, <1>2, <1>3, <1>4, <1>5, <1>6 DEF IdeCommands

LEMMA CdOutcome ==
    ASSUME Holds(ch), NEW cmd \in IdeCommands, NEW t, t = execute_cd_command(ch, cmd)
    PROVE  Outcome(cmd, t)
<1>0. ch \in AtaIdeChannel /\ "RDY" \in ch.status /\ ch.wr_lba + ch.wr_count <= DiskSectors
  BY DEF Holds
<1>1. CASE cmd = "DEVICE_RESET"
  <2>1. t = device_reset(ch, SIGNATURE)
    BY <1>1 DEF execute_cd_command
  <2>2. Holds(t) /\ t.state = "IDLE"
    BY <2>1, DeviceResetHolds
  <2> QED
    BY <1>1, <2>2 DEF Outcome, Left, DiskCmds
<1>2. CASE cmd = "IDENTIFY_DEVICE"
  <2>1. PICK u : u = abort(ch)
    OBVIOUS
  <2>2. t = [u EXCEPT !.lba_high = SIGNATURE]
    BY <1>2, <2>1 DEF execute_cd_command
  <2>3. Holds(u) /\ Still(ch, u) /\ u.buf = ch.buf /\ "DRQ" \notin u.status
    BY <2>1, AbortHolds, Zenon
  <2>4. Holds(t) /\ Still(u, t) /\ t.buf = u.buf /\ t.status = u.status
    BY <2>2, <2>3, HighHolds
  <2> QED
    BY <2>3, <2>4, Zenon DEF Outcome, Kept, Still
<1>3. CASE cmd = "IDENTIFY_PACKET"
  <2>1. PICK u : u = start(ch, "IDENTIFY", Identity(1))
    OBVIOUS
  <2>2. t = [u EXCEPT !.lba_high = BYTES]
    BY <1>3, <2>1 DEF execute_cd_command
  <2>3. "IDENTIFY" \in DataStates
    BY DEF Transfers, DataStates
  <2>4. Holds(u) /\ u.state = "IDENTIFY"
    BY <2>1, <2>3, IdentityIsWords, StartHolds
  <2>5. Holds(t) /\ Still(u, t)
    BY <2>2, <2>4, HighHolds
  <2> QED
    BY <1>3, <2>4, <2>5 DEF Outcome, Left, DiskCmds, Still
<1>4. CASE cmd = "PACKET"
  <2>1. t = [ch EXCEPT !.state = "ATAPI_CMD", !.pkt_pos = 0, !.status = {"RDY", "DRQ"},
                       !.error = "OK", !.sector_count = IR_COD]
    BY <1>4 DEF execute_cd_command
  <2>2. /\ {"RDY", "DRQ"} \in SUBSET {"RDY", "DRQ", "ERR"} /\ "OK" \in {"OK", "DIAG", "ABRT"}
        /\ IR_COD \in Nat /\ 0 \in 0..PktWords /\ 0 < PktWords
        /\ "ATAPI_CMD" \in Transfers \cup {"IDLE", "ATAPI_CMD", "DATA_OUT"}
    BY IdeAssumption DEF IR_COD
  <2>3. t \in AtaIdeChannel
    BY <1>0, <2>1, <2>2, ZenonT(60) DEF AtaIdeChannel
  <2>4. /\ t.state = "ATAPI_CMD" /\ t.pkt_pos = 0 /\ t.status = {"RDY", "DRQ"}
        /\ t.len = ch.len /\ t.pos = ch.pos /\ t.buf = ch.buf
        /\ t.wr_lba = ch.wr_lba /\ t.wr_count = ch.wr_count
    BY <1>0, <2>1, Zenon DEF AtaIdeChannel
  <2>5. ~Moving(t) /\ t.state # "IDLE" /\ t.state \notin {"DATA_IN", "DATA_OUT"}
    BY <2>4 DEF Moving, DataStates, Transfers
  <2>6. Holds(t)
    BY <2>2, <2>3, <2>4, <2>5, Zenon DEF Holds
  <2>7. cmd \notin DiskCmds
    BY <1>4 DEF DiskCmds
  <2> QED
    BY <2>5, <2>6, <2>7, Zenon DEF Outcome, Left
<1>5. CASE cmd \in {"SET_FEATURES", "READ_SECTORS", "WRITE_SECTORS", "UNKNOWN"}
  <2>1. t = abort(ch)
    BY <1>5 DEF execute_cd_command
  <2> QED
    BY <2>1, AbortHolds, Zenon DEF Outcome, Kept
<1> QED
  BY <1>1, <1>2, <1>3, <1>4, <1>5 DEF IdeCommands

LEMMA CommandOutcome ==
    ASSUME Holds(ch), hdf \in Image, NEW cmd \in IdeCommands, NEW got \in Nat,
           NEW t, t = execute_command(ch, cmd, got)
    PROVE  Outcome(cmd, t)
<1>1. CASE ch.dev = 1
  <2>1. t = execute_cd_command(ch, cmd)
    BY <1>1, Zenon DEF execute_command
  <2> QED
    BY <2>1, CdOutcome
<1>2. CASE ch.dev # 1 /\ hdf.attached
  <2>1. t = execute_disk_command(ch, cmd, got)
    BY <1>2, Zenon DEF execute_command
  <2>2. ch.dev = 0
    BY <1>2, ChannelFields DEF Holds
  <2> QED
    BY <2>1, <2>2, DiskOutcome
<1>3. CASE ch.dev # 1 /\ ~hdf.attached
  <2>1. PICK u : u = abort(ch)
    OBVIOUS
  <2>2. t = [u EXCEPT !.lba_high = 0]
    BY <1>3, <2>1, Zenon DEF execute_command
  <2>3. Holds(u) /\ Still(ch, u) /\ u.buf = ch.buf /\ "DRQ" \notin u.status
    BY <2>1, AbortHolds, Zenon
  <2>4. Holds(t) /\ Still(u, t) /\ t.buf = u.buf /\ t.status = u.status
    BY <2>2, <2>3, HighHolds
  <2> QED
    BY <2>3, <2>4, Zenon DEF Outcome, Kept, Still
<1> QED
  BY <1>1, <1>2, <1>3

(* A transfer that is left alone keeps what is known of it, unless the     *)
(* buffer is spoilt and the history says so.                               *)
LEMMA StillKeeps ==
    ASSUME NEW c, NEW t, Still(c, t), NEW h, NEW a \in Asked, NEW b \in Asked,
           ReadUnderWay(c, h, a), WriteUnderWay(c, a),
           b.dir = a.dir, b.lba = a.lba, b.words = a.words, b.moved = a.moved,
           a.spoilt => b.spoilt, t.buf = c.buf \/ b.spoilt
    PROVE  ReadUnderWay(t, h, b) /\ WriteUnderWay(t, b)
<1>1. ReadUnderWay(t, h, b)
  BY Zenon DEF ReadUnderWay, Still
<1>2. WriteUnderWay(t, b)
  BY Zenon DEF WriteUnderWay, Still
<1> QED
  BY <1>1, <1>2

LEMMA NothingUnderWay ==
    ASSUME NEW c, NEW h, c.state # "DATA_OUT"
    PROVE  NothingAsked \in Asked /\ ReadUnderWay(c, h, NothingAsked) /\ WriteUnderWay(c, NothingAsked)
<1>1. NothingAsked.dir = "none" /\ <<>> \in Seq(IdeWord)
  BY DEF NothingAsked
<1>2. NothingAsked \in Asked
  BY <1>1 DEF NothingAsked, Asked
<1> QED
  BY <1>1, <1>2 DEF ReadUnderWay, WriteUnderWay

LEMMA AskKeeps ==
    ASSUME IdeInv, NEW cmd \in IdeCommands, NEW t, Outcome(cmd, t), NEW a, a = Ask(ch, cmd, t)
    PROVE  /\ a \in Asked /\ ReadUnderWay(t, hdf, a) /\ WriteUnderWay(t, a)
           /\ ~(ch.state = "DATA_OUT" /\ t.state = "IDLE" /\ a.dir = "out")
<1>0. /\ Holds(ch) /\ hdf \in Image /\ asked \in Asked /\ Holds(t)
      /\ ReadUnderWay(ch, hdf, asked) /\ WriteUnderWay(ch, asked)
  BY Zenon DEF IdeInv, Outcome
<1>1. ASSUME t.state # "DATA_OUT", a = NothingAsked
      PROVE  /\ a \in Asked /\ ReadUnderWay(t, hdf, a) /\ WriteUnderWay(t, a)
             /\ a.dir # "out"
  BY <1>1, NothingUnderWay DEF NothingAsked
<1>2. CASE Left(cmd, t)
  <2>1. t.state # "DATA_OUT" /\ a = NothingAsked
    BY <1>2 DEF Left, Ask, DiskCmds
  <2> QED
    BY <1>1, <2>1, Zenon
<1>3. CASE Told(cmd, t)
  <2>1. t.state # "DATA_OUT" /\ a = NothingAsked
    BY <1>3 DEF Told, Ask, DiskCmds
  <2> QED
    BY <1>1, <2>1, Zenon
<1>4. CASE Kept(cmd, t) /\ t.state \notin {"DATA_IN", "DATA_OUT"}
  <2>1. t.state # "DATA_OUT" /\ a = NothingAsked
    BY <1>4 DEF Kept, Ask, DiskCmds
  <2> QED
    BY <1>1, <2>1, Zenon
<1>5. CASE Kept(cmd, t) /\ t.state \in {"DATA_IN", "DATA_OUT"}
  <2>1. a = [asked EXCEPT !.spoilt = @ \/ Spoils(cmd)]
    BY <1>5, Zenon DEF Kept, Ask, Spoils
  <2>2. Spoils(cmd) \in BOOLEAN /\ asked.spoilt \in BOOLEAN
    BY <1>0, Zenon DEF Spoils, Asked
  <2>3. a.spoilt = (asked.spoilt \/ Spoils(cmd)) /\ a.spoilt \in BOOLEAN
    BY <1>0, <2>1, <2>2, Zenon DEF Asked
  <2>4. /\ a \in Asked /\ a.dir = asked.dir /\ a.lba = asked.lba /\ a.words = asked.words
        /\ a.moved = asked.moved
    BY <1>0, <2>1, <2>2, Zenon DEF Asked
  <2>5. Still(ch, t) /\ (t.buf = ch.buf \/ a.spoilt) /\ (asked.spoilt => a.spoilt)
    BY <1>5, <2>2, <2>3, Zenon DEF Kept
  <2>6. ReadUnderWay(t, hdf, a) /\ WriteUnderWay(t, a)
    BY <1>0, <2>4, <2>5, StillKeeps
  <2> QED
    BY <1>5, <2>4, <2>6
<1>6. CASE Begun(cmd, t)
  <2> DEFINE n == sectors_asked(ch) * SectorWords
  <2>1. n \in Nat /\ ch.lba_low \in Nat /\ OnDisk(ch.lba_low, n)
    BY <1>0, <1>6, RangeFits DEF Begun
  <2>2. "DRQ" \in t.status /\ cmd \in DiskCmds /\ t.pos = 0 /\ t.len = n
    BY <1>6 DEF Begun, DiskCmds
  <2> HIDE DEF n
  <2>3. a = [dir |-> IF cmd = "READ_SECTORS" THEN "in" ELSE "out", lba |-> ch.lba_low,
             words |-> n, moved |-> <<>>, spoilt |-> FALSE]
    BY <2>2, Zenon DEF Ask, n, DiskCmds
  <2>4. <<>> \in Seq(IdeWord) /\ Len(<<>>) = 0
    BY EmptySeq
  <2>5. /\ a.dir = (IF cmd = "READ_SECTORS" THEN "in" ELSE "out") /\ a.lba = ch.lba_low
        /\ a.words = n /\ a.moved = <<>> /\ a.spoilt = FALSE
    BY <2>3
  <2>6. a \in Asked
    BY <2>1, <2>3, <2>4 DEF Asked
  <2>7. \A i \in 1..0 : FALSE
    OBVIOUS
  <2>8. CASE cmd = "READ_SECTORS"
    <3>1. /\ t.state = "DATA_IN" /\ a.dir = "in"
          /\ \A i \in 1..t.len : t.buf[i] = hdf.words[ch.lba_low * SectorWords + i]
      BY <1>6, <2>5, <2>8 DEF Begun
    <3>2. 0 <= n
      BY <2>1
    <3>3. ReadUnderWay(t, hdf, a)
      BY <2>1, <2>2, <2>4, <2>5, <2>7, <3>1, <3>2, Zenon DEF ReadUnderWay
    <3>4. WriteUnderWay(t, a)
      BY <3>1 DEF WriteUnderWay
    <3> QED
      BY <2>6, <3>1, <3>3, <3>4
  <2>9. CASE cmd # "READ_SECTORS"
    <3>1. /\ t.state = "DATA_OUT" /\ a.dir = "out"
          /\ t.wr_lba = ch.lba_low /\ t.wr_count = sectors_asked(ch)
      BY <1>6, <2>5, <2>9 DEF Begun
    <3>2. ReadUnderWay(t, hdf, a)
      BY <3>1 DEF ReadUnderWay
    <3>3. a.words = t.wr_count * SectorWords
      BY <2>5, <3>1, Zenon DEF n
    <3>4. WriteUnderWay(t, a)
      BY <2>1, <2>2, <2>4, <2>5, <2>7, <3>1, <3>3, Zenon DEF WriteUnderWay
    <3> QED
      BY <2>6, <3>1, <3>2, <3>4
  <2> QED
    BY <2>8, <2>9
<1> QED
  BY <1>2, <1>3, <1>4, <1>5, <1>6, Zenon DEF Outcome

-----------------------------------------------------------------------------
(* Packets.                                                                *)

LEMMA FailFacts ==
    ASSUME NEW s \in AtapiCdromState, NEW z \in Senses, z # "NO_SENSE", NEW r, r = Fail(s, z)
    PROVE  /\ r.cd \in AtapiCdromState /\ r.failed = TRUE /\ r.data \in Seq(IdeWord)
           /\ r.cd.sense # "NO_SENSE"
<1>0. PICK e : e = [s EXCEPT !.sense = z]
  OBVIOUS
<1>1. r = [cd |-> e, failed |-> TRUE, data |-> <<>>]
  BY <1>0, Zenon DEF Fail
<1>2. r.cd = e /\ r.failed = TRUE /\ r.data = <<>>
  BY <1>1
<1>3. r.cd \in AtapiCdromState /\ r.cd.sense = z
  BY <1>0, <1>2, Zenon DEF AtapiCdromState
<1>4. <<>> \in Seq(IdeWord)
  BY EmptySeq
<1> QED
  BY <1>2, <1>3, <1>4, Zenon

LEMMA PairIsWords ==
    ASSUME NEW x \in IdeWord, NEW y \in IdeWord
    PROVE  <<x, y>> \in Seq(IdeWord)
<1> DEFINE W == IdeWord
<1> HIDE DEF W
<1>1. ASSUME NEW p \in W, NEW q \in W PROVE <<p, q>> \in Seq(W)
  BY <1>1
<1> QED
  BY <1>1 DEF W

LEMMA CdWords ==
    ASSUME NEW lba \in Nat, NEW count \in Nat
    PROVE  CdRead(lba, count) \in Seq(IdeWord)
<1> DEFINE n == count * CdSectorWords
           a == lba * CdSectorWords
           W == IdeWord
<1>1. n \in Nat /\ a \in Nat
  BY AtapiAssumption
<1>2. CdRead(lba, count) = [i \in 1..n |-> a + i]
  BY Zenon DEF CdRead
<1> HIDE DEF n, a
<1>3. \A i \in 1..n : a + i \in Nat
  BY <1>1
<1>4. Nat \subseteq W
  BY WordsAre
<1> HIDE DEF W
<1>5. [i \in 1..n |-> a + i] \in [1..n -> W]
  BY <1>3, <1>4, Zenon
<1>6. [i \in 1..n |-> a + i] \in Seq(W)
  BY <1>1, <1>5, FcnIsSeq
<1> QED
  BY <1>2, <1>6, Zenon DEF W

Answered(r) ==
    /\ r.cd \in AtapiCdromState /\ r.failed \in BOOLEAN /\ r.data \in Seq(IdeWord)
    /\ r.failed => r.cd.sense # "NO_SENSE"

LEMMA ExecAnswers ==
    ASSUME NEW s \in AtapiCdromState, NEW io \in BOOLEAN,
           NEW p \in Packets(0..CdSectors, 0..(BufSectors + 1)),
           NEW r, r = atapi_cdrom_exec(s, p, io)
    PROVE  Answered(r)
<1>0. /\ p.op \in PlainPackets \cup {"READ"}
      /\ p.op = "READ" => p.lba \in Nat /\ p.count \in Nat
  <2>1. 0..CdSectors \subseteq Nat /\ 0..(BufSectors + 1) \subseteq Nat
    BY AtapiAssumption
  <2>2. "READ" \notin PlainPackets
    BY DEF PlainPackets
  <2> QED
    BY <2>1, <2>2, Zenon DEF Packets
<1>1. ASSUME NEW z \in Senses, z # "NO_SENSE", NEW e \in AtapiCdromState, r = Fail(e, z)
      PROVE  Answered(r)
  <2>1. /\ r.cd \in AtapiCdromState /\ r.failed = TRUE /\ r.data \in Seq(IdeWord)
        /\ r.cd.sense # "NO_SENSE"
    BY <1>1, FailFacts
  <2> QED
    BY <2>1, Zenon DEF Answered
<1>2. ASSUME NEW e \in AtapiCdromState, NEW w \in Seq(IdeWord), r = Done(e, w)
      PROVE  Answered(r)
  <2>1. r.cd = e /\ r.failed = FALSE /\ r.data = w
    BY <1>2 DEF Done
  <2> QED
    BY <2>1, Zenon DEF Answered
<1>3. /\ {"MEDIUM_NOT_PRESENT", "MEDIUM_CHANGED", "INVALID_COMMAND", "INVALID_FIELD",
          "OUT_OF_RANGE", "NO_SENSE"} \subseteq Senses
      /\ <<>> \in Seq(IdeWord)
  BY EmptySeq DEF Senses
<1>4. PICK quiet : quiet = [s EXCEPT !.sense = "NO_SENSE"]
  OBVIOUS
<1>5. quiet \in AtapiCdromState /\ s.sense \in Senses /\ s.unit_attention \in BOOLEAN
  BY <1>3, <1>4, Zenon DEF AtapiCdromState
<1>6. CASE p.op = "TEST_UNIT_READY"
  <2>1. r = cmd_test_unit_ready(s)
    BY <1>6 DEF atapi_cdrom_exec
  <2>2. PICK e : e = [s EXCEPT !.unit_attention = FALSE]
    OBVIOUS
  <2>3. e \in AtapiCdromState
    BY <2>2, Zenon DEF AtapiCdromState
  <2>4. \/ r = Fail(s, "MEDIUM_NOT_PRESENT") \/ r = Fail(e, "MEDIUM_CHANGED")
        \/ r = Done(quiet, <<>>)
    BY <1>4, <2>1, <2>2, Zenon DEF cmd_test_unit_ready
  <2>5. ASSUME r = Fail(s, "MEDIUM_NOT_PRESENT") PROVE Answered(r)
    BY <1>1, <1>3, <2>5
  <2>6. ASSUME r = Fail(e, "MEDIUM_CHANGED") PROVE Answered(r)
    BY <1>1, <1>3, <2>3, <2>6
  <2>7. ASSUME r = Done(quiet, <<>>) PROVE Answered(r)
    BY <1>2, <1>3, <1>5, <2>7
  <2> QED
    BY <2>4, <2>5, <2>6, <2>7
<1>7. CASE p.op = "REQUEST_SENSE"
  <2>1. r = cmd_request_sense(s)
    BY <1>7 DEF atapi_cdrom_exec
  <2>2. "REQUEST_SENSE" \in IdeWord /\ s.sense \in IdeWord
    BY <1>5, Zenon DEF IdeWord
  <2>3. <<"REQUEST_SENSE", s.sense>> \in Seq(IdeWord)
    BY <2>2, PairIsWords, Zenon
  <2>4. r = Done(quiet, <<"REQUEST_SENSE", s.sense>>)
    BY <1>4, <2>1, Zenon DEF cmd_request_sense
  <2> QED
    BY <1>2, <1>5, <2>3, <2>4
<1>8. CASE p.op \in {"READ_CAPACITY", "READ_TOC", "INQUIRY", "MODE_SENSE"}
  <2>1. p.op \in PlainPackets
    BY <1>8 DEF PlainPackets
  <2>2. p.op \in IdeWord
    BY <2>1, Zenon DEF IdeWord
  <2>3. <<p.op, p.op>> \in Seq(IdeWord)
    BY <2>2, PairIsWords, Zenon
  <2>4. r = cmd_needs_medium(s, p.op) \/ r = Done(s, <<p.op, p.op>>)
    BY <1>8 DEF atapi_cdrom_exec
  <2>5. r = Fail(s, "MEDIUM_NOT_PRESENT") \/ r = Done(s, <<p.op, p.op>>)
    BY <2>4, Zenon DEF cmd_needs_medium
  <2>6. ASSUME r = Fail(s, "MEDIUM_NOT_PRESENT") PROVE Answered(r)
    BY <1>1, <1>3, <2>6
  <2>7. ASSUME r = Done(s, <<p.op, p.op>>) PROVE Answered(r)
    BY <1>2, <2>3, <2>7
  <2> QED
    BY <2>5, <2>6, <2>7
<1>9. CASE p.op = "READ"
  <2>1. r = cmd_read_10(s, p.lba, p.count, io)
    BY <1>9 DEF atapi_cdrom_exec
  <2>2. PICK w : w = CdRead(p.lba, p.count)
    OBVIOUS
  <2>3. w \in Seq(IdeWord)
    BY <1>0, <1>9, <2>2, CdWords
  <2>4. \/ \E z \in {"MEDIUM_NOT_PRESENT", "INVALID_FIELD", "OUT_OF_RANGE"} : r = Fail(s, z)
        \/ r = Done(s, <<>>) \/ r = Done(quiet, w)
    BY <1>4, <2>1, <2>2, Zenon DEF cmd_read_10
  <2>5. ASSUME NEW z \in {"MEDIUM_NOT_PRESENT", "INVALID_FIELD", "OUT_OF_RANGE"}, r = Fail(s, z)
        PROVE  Answered(r)
    <3>1. z \in Senses /\ z # "NO_SENSE"
      BY DEF Senses
    <3> QED
      BY <1>1, <2>5, <3>1
  <2>6. ASSUME r = Done(s, <<>>) PROVE Answered(r)
    BY <1>2, <1>3, <2>6
  <2>7. ASSUME r = Done(quiet, w) PROVE Answered(r)
    BY <1>2, <1>5, <2>3, <2>7
  <2> QED
    BY <2>4, <2>5, <2>6, <2>7, Zenon
<1>10. CASE p.op = "START_STOP"
  <2>1. r = Done(s, <<>>)
    BY <1>10 DEF atapi_cdrom_exec
  <2> QED
    BY <1>2, <1>3, <2>1
<1>11. CASE p.op = "UNKNOWN"
  <2>1. r = Fail(s, "INVALID_COMMAND")
    BY <1>11 DEF atapi_cdrom_exec
  <2> QED
    BY <1>1, <1>3, <2>1
<1> QED
  BY <1>0, <1>6, <1>7, <1>8, <1>9, <1>10, <1>11 DEF PlainPackets

(* The end of a packet: a reply is offered, or the channel is idle.        *)
LEMMA PacketHolds ==
    ASSUME Holds(ch), NEW r, Answered(r), NEW c, c = [ch EXCEPT !.pkt_pos = PktWords],
           ch.state = "ATAPI_CMD", NEW t, t = packet_result(c, r)
    PROVE  Holds(t) /\ t.state \in {"IDLE", "ATAPI_DATA_IN"}
<1>0. ch \in AtaIdeChannel /\ "RDY" \in ch.status /\ ch.wr_lba + ch.wr_count <= DiskSectors
      /\ ch.pos <= ch.len /\ ch.len <= Len(ch.buf)
  BY DEF Holds
<1>1. PktWords \in 0..PktWords /\ IR_IO + IR_COD \in Nat /\ IR_IO \in Nat
  BY IdeAssumption DEF IR_IO, IR_COD
<1>2. c \in AtaIdeChannel
  BY <1>0, <1>1, Zenon DEF AtaIdeChannel
<1>3. /\ c.wr_lba = ch.wr_lba /\ c.wr_count = ch.wr_count /\ c.pos = ch.pos /\ c.len = ch.len
      /\ c.buf = ch.buf /\ c.status = ch.status /\ c.state = "ATAPI_CMD"
  BY <1>0, Zenon DEF AtaIdeChannel
<1>4. r.failed \in BOOLEAN /\ r.data \in Seq(IdeWord)
  BY Zenon DEF Answered
<1>5. CASE r.failed \/ r.data = <<>>
  <2> DEFINE st == IF r.failed THEN {"RDY", "ERR"} ELSE {"RDY"}
             er == IF r.failed THEN "ABRT" ELSE c.error
  <2>2. t = [c EXCEPT !.state = "IDLE", !.sector_count = IR_IO + IR_COD,
                      !.status = st, !.error = er]
    BY <1>5, Zenon DEF packet_result
  <2>3. c.error \in {"OK", "DIAG", "ABRT"}
    BY <1>2, ChannelFields
  <2>4. /\ st \in SUBSET {"RDY", "DRQ", "ERR"} /\ er \in {"OK", "DIAG", "ABRT"}
        /\ "RDY" \in st /\ "DRQ" \notin st
        /\ "IDLE" \in Transfers \cup {"IDLE", "ATAPI_CMD", "DATA_OUT"}
    BY <1>4, <2>3
  <2> HIDE DEF st, er
  <2>5. t \in AtaIdeChannel
    BY <1>1, <1>2, <2>2, <2>4, ZenonT(60) DEF AtaIdeChannel
  <2>6. /\ t.state = "IDLE" /\ t.status = st /\ t.pos = c.pos /\ t.len = c.len /\ t.buf = c.buf
        /\ t.wr_lba = c.wr_lba /\ t.wr_count = c.wr_count
    BY <1>2, <2>2, Zenon DEF AtaIdeChannel
  <2>7. ~Moving(t) /\ t.state # "ATAPI_CMD"
    BY <2>6 DEF Moving, DataStates, Transfers
  <2>8. Holds(t)
    BY <1>0, <1>3, <2>4, <2>5, <2>6, <2>7, Zenon DEF Holds
  <2> QED
    BY <2>6, <2>8
<1>6. CASE ~(r.failed \/ r.data = <<>>)
  <2>0. Len(r.data) > 0
    BY <1>4, <1>6
  <2>1. PICK u : u = start(ch, "ATAPI_DATA_IN", r.data)
    OBVIOUS
  <2>2. "ATAPI_DATA_IN" \in DataStates
    BY DEF Transfers, DataStates
  <2>3. Holds(u) /\ u.state = "ATAPI_DATA_IN"
    BY <1>4, <2>0, <2>1, <2>2, StartHolds
  <2>4. u \in AtaIdeChannel
    BY <2>3 DEF Holds
  <2>5. t = [u EXCEPT !.pkt_pos = PktWords, !.lba_high = BYTES, !.sector_count = IR_IO]
    BY <1>0, <1>6, <2>1, Zenon DEF packet_result, start, AtaIdeChannel
  <2>6. t \in AtaIdeChannel
    BY <1>1, <2>4, <2>5, Zenon DEF AtaIdeChannel
  <2>7. /\ t.state = u.state /\ t.status = u.status /\ t.pos = u.pos /\ t.len = u.len
        /\ t.buf = u.buf /\ t.wr_lba = u.wr_lba /\ t.wr_count = u.wr_count
    BY <2>4, <2>5, Zenon DEF AtaIdeChannel
  <2>8. "ATAPI_DATA_IN" # "ATAPI_CMD" /\ "ATAPI_DATA_IN" # "IDLE"
    OBVIOUS
  <2>9. Holds(t)
    BY <2>3, <2>6, <2>7, <2>8, Zenon DEF Holds, Moving
  <2> QED
    BY <2>3, <2>7, <2>9
<1> QED
  BY <1>5, <1>6

-----------------------------------------------------------------------------
(* The data port.                                                          *)

(* A word that is read is added to what was moved.                         *)
AddWord(a, w) == [a EXCEPT !.moved = Append(@, w)]

MovedIn(a) ==
    /\ a \in Asked /\ a.dir = "in" /\ a.lba = asked.lba /\ a.words = asked.words
    /\ a.spoilt = asked.spoilt /\ OnDisk(a.lba, a.words)
    /\ ch.state = "DATA_IN" /\ ch.len = a.words
    /\ Len(a.moved) = ch.pos + 1 /\ Len(a.moved) <= a.words
    /\ ~a.spoilt => \A i \in 1..Len(a.moved) : a.moved[i] = hdf.words[a.lba * SectorWords + i]
    /\ ~a.spoilt => \A i \in 1..ch.len : ch.buf[i] = hdf.words[a.lba * SectorWords + i]

LEMMA MoveIn ==
    ASSUME IdeInv, asked.dir = "in", ch.state \in Transfers, NEW w, w = next_word(ch),
           NEW a, a = AddWord(asked, w)
    PROVE  MovedIn(a)
<1> DEFINE m == asked.moved
           W == IdeWord
           m2 == Append(m, w)
<1>1. Holds(ch) /\ asked \in Asked /\ ReadUnderWay(ch, hdf, asked)
  BY Zenon DEF IdeInv
<1>2. ch.state = "DATA_IN"
  BY <1>1 DEF ReadUnderWay, Transfers
<1>3. /\ OnDisk(asked.lba, asked.words) /\ ch.len = asked.words /\ ch.pos = Len(m)
      /\ ~asked.spoilt => \A i \in 1..Len(m) : m[i] = hdf.words[asked.lba * SectorWords + i]
      /\ ~asked.spoilt => \A i \in 1..ch.len : ch.buf[i] = hdf.words[asked.lba * SectorWords + i]
  BY <1>1, <1>2, Zenon DEF ReadUnderWay
<1>4. ch.len <= Len(ch.buf) /\ ch \in AtaIdeChannel /\ ch.pos < ch.len
  BY <1>1, <1>2 DEF Holds, Moving, DataStates, Transfers
<1>5. ch.buf \in Seq(W) /\ ch.len \in Nat /\ ch.pos \in Nat
  BY <1>4, ChannelFields
<1>6. m \in Seq(W) /\ asked.lba \in Nat /\ asked.words \in Nat
  BY <1>1, Zenon DEF Asked
<1> HIDE DEF W
<1>7. ch.pos + 1 \in 1..ch.len /\ ch.pos + 1 \in 1..Len(ch.buf)
  BY <1>4, <1>5
<1>8. w = ch.buf[ch.pos + 1] /\ w \in W
  BY <1>5, <1>7 DEF next_word
<1> HIDE DEF m
<1>9. /\ m2 \in Seq(W) /\ Len(m2) = Len(m) + 1 /\ m2[Len(m) + 1] = w
      /\ \A i \in 1..Len(m) : m2[i] = m[i]
  BY <1>6, <1>8, AppendProperties
<1>10. a = [asked EXCEPT !.moved = m2]
  BY <1>1, Zenon DEF Asked, m, AddWord
<1> HIDE DEF m2
<1>11. /\ a \in Asked /\ a.dir = asked.dir /\ a.lba = asked.lba /\ a.words = asked.words
       /\ a.spoilt = asked.spoilt /\ a.moved = m2
  BY <1>1, <1>9, <1>10, Zenon DEF Asked, W
<1>12. Len(m2) = ch.pos + 1 /\ ch.pos + 1 <= ch.len
  BY <1>3, <1>7, <1>9
<1>13. ASSUME ~asked.spoilt, NEW i \in 1..Len(m2)
       PROVE  m2[i] = hdf.words[asked.lba * SectorWords + i]
  <2>1. CASE i \in 1..Len(m)
    BY <1>3, <1>9, <1>13, <2>1, Zenon
  <2>2. CASE i = Len(m) + 1
    <3>1. i = ch.pos + 1
      BY <1>3, <2>2, Zenon
    <3>2. m2[i] = ch.buf[i]
      BY <1>8, <1>9, <2>2, <3>1, Zenon
    <3>3. i \in 1..ch.len
      BY <1>7, <3>1, Zenon
    <3> QED
      BY <1>3, <1>13, <3>2, <3>3, Zenon
  <2>3. Len(m) \in Nat
    BY <1>6
  <2> QED
    BY <1>9, <2>1, <2>2, <2>3
<1> QED
  BY <1>2, <1>3, <1>11, <1>12, <1>13, Zenon DEF MovedIn

(* One word further, or at the end.                                        *)
LEMMA ForwardHolds ==
    ASSUME Holds(ch), ch.pos + 1 < ch.len, NEW t, t = [ch EXCEPT !.pos = @ + 1]
    PROVE  /\ Holds(t) /\ t.state = ch.state /\ t.pos = ch.pos + 1 /\ t.len = ch.len
           /\ t.buf = ch.buf /\ t.wr_lba = ch.wr_lba /\ t.wr_count = ch.wr_count
<1>1. ch \in AtaIdeChannel
  BY DEF Holds
<1>2. ch.pos \in Nat /\ ch.len \in Nat
  BY <1>1, ChannelFields
<1>3. PICK q : q = ch.pos + 1
  OBVIOUS
<1>4. q \in Nat /\ q <= ch.len /\ q < ch.len
  BY <1>2, <1>3
<1>5. t = [ch EXCEPT !.pos = q]
  BY <1>1, <1>3, Zenon DEF AtaIdeChannel
<1>6. t \in AtaIdeChannel
  BY <1>1, <1>4, <1>5, Zenon DEF AtaIdeChannel
<1>7. /\ t.state = ch.state /\ t.pos = q /\ t.len = ch.len /\ t.buf = ch.buf
      /\ t.status = ch.status /\ t.pkt_pos = ch.pkt_pos
      /\ t.wr_lba = ch.wr_lba /\ t.wr_count = ch.wr_count
  BY <1>1, <1>5, Zenon DEF AtaIdeChannel
<1>8. Holds(t)
  BY <1>4, <1>6, <1>7, Zenon DEF Holds, Moving
<1> QED
  BY <1>3, <1>7, <1>8, Zenon

(* What every step keeps, and what it may do to the image.                 *)
SomeEnd == ch.state = "DATA_OUT" /\ ch'.state = "IDLE" /\ asked'.dir = "out"
Aside == hdf'.words = hdf.words /\ ~SomeEnd

LEMMA ReadStep ==
    ASSUME IdeInv, ReadData
    PROVE  IdeInv' /\ Aside
<1>0. /\ Holds(ch) /\ asked \in Asked /\ ReadUnderWay(ch, hdf, asked) /\ WriteUnderWay(ch, asked)
      /\ cd \in AtapiCdromState /\ hdf \in Image /\ (pktFailed => cd.sense # "NO_SENSE")
  BY Zenon DEF IdeInv
<1>1. ch.state \in Transfers /\ ch.pos < ch.len /\ hdf' = hdf /\ cd' = cd /\ pktFailed' = pktFailed
  BY DEF ReadData
<1>2. ch \in AtaIdeChannel /\ ch.wr_lba + ch.wr_count <= DiskSectors
  BY <1>0 DEF Holds
<1>3. ch.state # "DATA_OUT" /\ ch.state # "IDLE"
  BY <1>1 DEF Transfers
<1>4. asked.dir # "out"
  BY <1>0, <1>3, Zenon DEF WriteUnderWay
<1>5. CASE ch.pos + 1 < ch.len
  <2>1. ch' = [ch EXCEPT !.pos = @ + 1]
    BY <1>5, Zenon DEF ReadData
  <2>2. Holds(ch') /\ ch'.state = ch.state /\ ch'.pos = ch.pos + 1 /\ ch'.len = ch.len
        /\ ch'.buf = ch.buf
    BY <1>0, <1>5, <2>1, ForwardHolds
  <2>3. CASE asked.dir = "in"
    <3>0. PICK w : w = next_word(ch)
      OBVIOUS
    <3>1. asked' = AddWord(asked, w)
      BY <2>3, <3>0, Zenon DEF ReadData, AddWord
    <3>5. MovedIn(asked')
      BY <1>1, <2>3, <3>0, <3>1, MoveIn
    <3>2. /\ asked' \in Asked /\ asked'.dir = "in" /\ OnDisk(asked'.lba, asked'.words)
          /\ ch.state = "DATA_IN" /\ ch.len = asked'.words
          /\ Len(asked'.moved) = ch.pos + 1 /\ Len(asked'.moved) <= asked'.words
          /\ ~asked'.spoilt => \A i \in 1..Len(asked'.moved) :
                             asked'.moved[i] = hdf.words[asked'.lba * SectorWords + i]
          /\ ~asked'.spoilt => \A i \in 1..ch.len :
                             ch.buf[i] = hdf.words[asked'.lba * SectorWords + i]
      BY <3>5, Zenon DEF MovedIn
    <3>3. ReadUnderWay(ch', hdf', asked')
      BY <1>1, <2>2, <3>2, Zenon DEF ReadUnderWay
    <3>4. WriteUnderWay(ch', asked')
      BY <1>3, <2>2, <3>2 DEF WriteUnderWay
    <3> QED
      BY <1>0, <1>1, <1>3, <2>2, <3>2, <3>3, <3>4, Zenon DEF IdeInv, Aside, SomeEnd
  <2>4. CASE asked.dir # "in"
    <3>1. asked' = asked
      BY <2>4, Zenon DEF ReadData
    <3>2. ReadUnderWay(ch', hdf', asked')
      BY <2>4, <3>1, Zenon DEF ReadUnderWay
    <3>3. WriteUnderWay(ch', asked')
      BY <1>3, <1>4, <2>2, <3>1, Zenon DEF WriteUnderWay
    <3> QED
      BY <1>0, <1>1, <1>3, <2>2, <3>1, <3>2, <3>3, Zenon DEF IdeInv, Aside, SomeEnd
  <2> QED
    BY <2>3, <2>4
<1>6. CASE ~(ch.pos + 1 < ch.len)
  <2>1. Holds(ch') /\ ch'.state = "IDLE"
    <3>1. PICK u : u = transfer_done(ch)
      OBVIOUS
    <3>2. Holds(u) /\ u.state = "IDLE"
      BY <1>2, <3>1, DoneHolds
    <3>3. CASE ch.state = "ATAPI_DATA_IN"
      <4>1. PICK k : k = IR_IO + IR_COD
        OBVIOUS
      <4>2. k \in Nat
        BY <4>1 DEF IR_IO, IR_COD
      <4>3. ch' = [u EXCEPT !.sector_count = k]
        BY <1>6, <3>1, <3>3, <4>1, Zenon DEF ReadData
      <4>4. u \in AtaIdeChannel /\ "RDY" \in u.status
        BY <3>2 DEF Holds
      <4>5. ch' \in AtaIdeChannel
        BY <4>2, <4>3, <4>4, Zenon DEF AtaIdeChannel
      <4>6. Still(u, ch') /\ ch'.status = u.status
        BY <4>3, <4>4, Zenon DEF AtaIdeChannel, Still
      <4> QED
        BY <3>2, <4>4, <4>5, <4>6, StillHolds DEF Still
    <3>4. CASE ch.state # "ATAPI_DATA_IN"
      <4>1. ch' = u
        BY <1>6, <3>1, <3>4, Zenon DEF ReadData
      <4> QED
        BY <3>2, <4>1
    <3> QED
      BY <3>3, <3>4
  <2>3. CASE asked.dir = "in"
    <3>0. PICK w : w = next_word(ch)
      OBVIOUS
    <3>1. asked' = AddWord(asked, w)
      BY <2>3, <3>0, Zenon DEF ReadData, AddWord
    <3>5. MovedIn(asked')
      BY <1>1, <2>3, <3>0, <3>1, MoveIn
    <3>2. /\ asked' \in Asked /\ asked'.dir = "in" /\ OnDisk(asked'.lba, asked'.words)
          /\ Len(asked'.moved) <= asked'.words
          /\ ~asked'.spoilt => \A i \in 1..Len(asked'.moved) :
                             asked'.moved[i] = hdf.words[asked'.lba * SectorWords + i]
      BY <3>5, Zenon DEF MovedIn
    <3>3. ReadUnderWay(ch', hdf', asked')
      BY <1>1, <2>1, <3>2 DEF ReadUnderWay
    <3>4. WriteUnderWay(ch', asked')
      BY <2>1, <3>2 DEF WriteUnderWay
    <3> QED
      BY <1>0, <1>1, <1>3, <2>1, <3>2, <3>3, <3>4, Zenon DEF IdeInv, Aside, SomeEnd
  <2>4. CASE asked.dir # "in"
    <3>1. asked' = asked
      BY <2>4, Zenon DEF ReadData
    <3>2. ReadUnderWay(ch', hdf', asked')
      BY <2>4, <3>1, Zenon DEF ReadUnderWay
    <3>3. WriteUnderWay(ch', asked')
      BY <1>4, <2>1, <3>1 DEF WriteUnderWay
    <3> QED
      BY <1>0, <1>1, <1>3, <2>1, <3>1, <3>2, <3>3, Zenon DEF IdeInv, Aside, SomeEnd
  <2> QED
    BY <2>3, <2>4
<1> QED
  BY <1>5, <1>6

(* A word that is written goes into the buffer where the last one ended.   *)
Advanced(c, w) == [c EXCEPT !.buf[c.pos + 1] = w, !.pos = @ + 1]

MovedOut(c, a) ==
    /\ c \in AtaIdeChannel /\ c.state = "DATA_OUT" /\ c.status = ch.status
    /\ c.pos = ch.pos + 1 /\ c.len = ch.len /\ c.pkt_pos = ch.pkt_pos
    /\ c.pos <= c.len /\ c.len <= Len(c.buf)
    /\ c.wr_lba = ch.wr_lba /\ c.wr_count = ch.wr_count
    /\ a \in Asked /\ a.dir = "out" /\ a.lba = asked.lba /\ a.words = asked.words
    /\ a.spoilt = asked.spoilt /\ Len(a.moved) = c.pos
    /\ ~a.spoilt => \A i \in 1..c.pos : c.buf[i] = a.moved[i]

LEMMA MoveOut ==
    ASSUME IdeInv, ch.state = "DATA_OUT", NEW w \in IdeWords,
           NEW c, c = Advanced(ch, w), NEW a, a = AddWord(asked, w)
    PROVE  MovedOut(c, a)
<1> DEFINE m == asked.moved
           W == IdeWord
           m2 == Append(m, w)
           q == ch.pos + 1
           f == ch.buf
           g == [f EXCEPT ![q] = w]
<1>1. Holds(ch) /\ asked \in Asked /\ WriteUnderWay(ch, asked)
  BY Zenon DEF IdeInv
<1>2. /\ asked.dir = "out" /\ ch.pos = Len(m)
      /\ ~asked.spoilt => \A i \in 1..ch.pos : f[i] = m[i]
  BY <1>1, Zenon DEF WriteUnderWay
<1>3. ch \in AtaIdeChannel /\ ch.pos < ch.len /\ ch.len <= Len(f)
  BY <1>1 DEF Holds, Moving, DataStates
<1>4. f \in Seq(W) /\ ch.len \in Nat /\ ch.pos \in Nat
  BY <1>3, ChannelFields
<1>5. m \in Seq(W)
  BY <1>1, Zenon DEF Asked
<1>6. w \in W
  BY WordsAre
<1>7. c = [ch EXCEPT !.buf = g, !.pos = q]
  BY <1>3, Zenon DEF Advanced, AtaIdeChannel
<1>8. a = [asked EXCEPT !.moved = m2]
  BY <1>1, Zenon DEF AddWord, Asked
<1> HIDE DEF W, m, f
<1>9. q \in 1..Len(f) /\ q \in Nat /\ q <= ch.len /\ q = Len(m) + 1
  BY <1>2, <1>3, <1>4
<1> HIDE DEF q
<1>10. /\ g \in Seq(W) /\ Len(g) = Len(f)
       /\ \A i \in 1..Len(f) : g[i] = IF i = q THEN w ELSE f[i]
  BY <1>4, <1>6, <1>9, ExceptSeq
<1>11. /\ m2 \in Seq(W) /\ Len(m2) = Len(m) + 1 /\ m2[Len(m) + 1] = w
       /\ \A i \in 1..Len(m) : m2[i] = m[i]
  BY <1>5, <1>6, AppendProperties
<1> HIDE DEF g, m2
<1>12. c \in AtaIdeChannel
  BY <1>3, <1>7, <1>9, <1>10, Zenon DEF AtaIdeChannel, W
<1>13. /\ c.state = ch.state /\ c.status = ch.status /\ c.pos = q /\ c.len = ch.len
       /\ c.buf = g /\ c.pkt_pos = ch.pkt_pos /\ c.wr_lba = ch.wr_lba /\ c.wr_count = ch.wr_count
  BY <1>3, <1>7, Zenon DEF AtaIdeChannel
<1>14. /\ a \in Asked /\ a.dir = asked.dir /\ a.lba = asked.lba /\ a.words = asked.words
       /\ a.spoilt = asked.spoilt /\ a.moved = m2
  BY <1>1, <1>8, <1>11, Zenon DEF Asked, W
<1>15. ASSUME ~asked.spoilt, NEW i \in 1..q PROVE g[i] = m2[i]
  <2>0. i \in 1..Len(f)
    BY <1>9
  <2>1. CASE i = q
    BY <1>9, <1>10, <1>11, <2>0, <2>1, Zenon
  <2>2. CASE i # q
    <3>1. i \in 1..Len(m) /\ i \in 1..ch.pos
      BY <1>2, <1>4, <1>9, <2>2
    <3>2. f[i] = m[i]
      BY <1>2, <1>15, <3>1, Zenon
    <3>3. g[i] = f[i]
      BY <1>10, <2>0, <2>2, Zenon
    <3> QED
      BY <1>11, <3>1, <3>2, <3>3, Zenon
  <2> QED
    BY <2>1, <2>2
<1>16. c.len <= Len(c.buf) /\ c.pos <= c.len /\ Len(a.moved) = c.pos
  BY <1>3, <1>9, <1>10, <1>11, <1>13, <1>14, Zenon DEF f
<1>17. c.pos = ch.pos + 1
  BY <1>13, Zenon DEF q
<1> QED
  BY <1>2, <1>12, <1>13, <1>14, <1>15, <1>16, <1>17, Zenon DEF MovedOut

(* n sectors of the buffer on the image.                                   *)
LEMMA WrittenImage ==
    ASSUME IdeInv, ch.state = "DATA_OUT", NEW n \in 0..ch.wr_count,
           NEW b \in Seq(IdeWord), ch.len <= Len(b), NEW h, h = Written(n, b)
    PROVE  /\ h \in Image
           /\ \A i \in 1..DiskWords :
                LET k == i - asked.lba * SectorWords
                IN  \/ k \in 1..asked.words /\ h.words[i] = b[k]
                    \/ h.words[i] = hdf.words[i] /\ (n = ch.wr_count => k \notin 1..asked.words)
<1> DEFINE S == SectorWords
           l == ch.wr_lba
           lo == l * S
           hi == (l + n) * S
           len == ch.len
           W == IdeWord
           v == hdf.words
           f == [i \in 1..DiskWords |-> IF i \in (lo + 1)..hi THEN b[i - lo] ELSE v[i]]
<1>1. Holds(ch) /\ hdf \in Image /\ WriteUnderWay(ch, asked)
  BY Zenon DEF IdeInv
<1>2. /\ len = asked.words /\ l = asked.lba /\ asked.words = ch.wr_count * S
  BY <1>1, Zenon DEF WriteUnderWay
<1>3. l \in Nat /\ ch.wr_count \in Nat /\ len \in Nat /\ n \in Nat /\ n <= ch.wr_count
  BY <1>1, ChannelFields DEF Holds
<1>4. lo \in Nat /\ n * S \in Nat /\ hi = lo + n * S /\ S \in Nat \ {0}
  BY <1>3, IdeAssumption
<1>5. n * S <= len
  <2>1. PICK d \in Nat : ch.wr_count = n + d
    <3>1. ch.wr_count - n \in Nat /\ ch.wr_count = n + (ch.wr_count - n)
      BY <1>3
    <3> QED
      BY <3>1
  <2>2. (n + d) * S = n * S + d * S /\ d * S \in Nat
    BY <1>3, <1>4
  <2>3. len = (n + d) * S
    BY <1>2, <2>1, Zenon
  <2> QED
    BY <1>4, <2>2, <2>3
<1>6. n = ch.wr_count => n * S = len
  BY <1>2, Zenon
<1>7. h = [hdf EXCEPT !.words = f]
  BY <1>1, Zenon DEF Written, Image
<1>8. v \in [1..DiskWords -> W]
  BY <1>1, Zenon DEF Image
<1>9. PICK m \in Nat : m = n * S
  BY <1>4
<1>10. lo = asked.lba * S
  BY <1>2, Zenon
<1>11. hi = lo + m /\ m <= len /\ (n = ch.wr_count => m = len)
  BY <1>4, <1>5, <1>6, <1>9, Zenon
<1> HIDE DEF W, v, lo, hi, S, l
<1>12. ASSUME NEW i \in 1..DiskWords PROVE i \in Int
  BY <1>12
<1>13. ASSUME NEW i \in 1..DiskWords
       PROVE  /\ i \in (lo + 1)..hi => i - lo \in 1..len /\ i - lo \in 1..Len(b)
              /\ i \notin (lo + 1)..hi => (n = ch.wr_count => i - lo \notin 1..len)
  <2>1. i \in Int /\ Len(b) \in Nat
    BY <1>12
  <2> HIDE DEF len
  <2> QED
    BY <1>3, <1>4, <1>11, <2>1 DEF len
<1>14. \A i \in 1..DiskWords : f[i] = IF i \in (lo + 1)..hi THEN b[i - lo] ELSE v[i]
  BY Zenon
<1>15. \A k \in 1..Len(b) : b[k] \in W
  BY DEF W
<1>16. \A i \in 1..DiskWords : f[i] \in W
  BY <1>8, <1>13, <1>14, <1>15, Zenon
<1>17. f \in [1..DiskWords -> W]
  BY <1>14, <1>16, Zenon
<1> HIDE DEF f
<1>18. h \in Image /\ h.words = f
  BY <1>1, <1>7, <1>17, Zenon DEF Image, W
<1>19. ASSUME NEW i \in 1..DiskWords
       PROVE  LET k == i - asked.lba * SectorWords
              IN  \/ k \in 1..asked.words /\ h.words[i] = b[k]
                  \/ h.words[i] = hdf.words[i] /\ (n = ch.wr_count => k \notin 1..asked.words)
  <2>1. i - asked.lba * SectorWords = i - lo
    BY <1>10, Zenon DEF S
  <2> QED
    BY <1>2, <1>13, <1>14, <1>18, <2>1, Zenon DEF v
<1> QED
  BY <1>18, <1>19, Zenon

(* The words of the image after a write ends.                              *)
OnImage ==
    LET at(i) == i - asked.lba * SectorWords
    IN  /\ Len(asked'.moved) = asked.words
        /\ \A i \in 1..DiskWords :
             \/ hdf'.words[i] = hdf.words[i]
                /\ ("ERR" \in ch'.status \/ unflushed' \/ at(i) \notin 1..asked.words)
             \/ at(i) \in 1..asked.words /\ hdf'.words[i] = asked'.moved[at(i)]

ImageStep ==
    asked.spoilt \/ ((hdf'.words # hdf.words => SomeEnd) /\ (SomeEnd => OnImage))

LEMMA FlushHolds ==
    ASSUME NEW c \in AtaIdeChannel, c.wr_lba + c.wr_count <= DiskSectors,
           NEW io \in BOOLEAN, NEW t, t = flushed(c, io)
    PROVE  Holds(t) /\ t.state = "IDLE" /\ (io \/ "ERR" \in t.status)
<1> DEFINE st == IF io THEN {"RDY"} ELSE {"RDY", "ERR"}
           er == IF io THEN "OK" ELSE "ABRT"
<1>1. PICK u : u = transfer_done(c)
  OBVIOUS
<1>2. Holds(u) /\ u.state = "IDLE"
  BY <1>1, DoneHolds
<1>3. u \in AtaIdeChannel
  BY <1>2 DEF Holds
<1>4. t = [u EXCEPT !.status = st, !.error = er]
  BY <1>1, Zenon DEF flushed
<1>5. /\ st \in SUBSET {"RDY", "DRQ", "ERR"} /\ er \in {"OK", "DIAG", "ABRT"}
      /\ "RDY" \in st /\ "DRQ" \notin st /\ (io \/ "ERR" \in st)
  OBVIOUS
<1> HIDE DEF st, er
<1>6. t \in AtaIdeChannel
  BY <1>3, <1>4, <1>5, ZenonT(60) DEF AtaIdeChannel
<1>7. Still(u, t) /\ t.status = st
  BY <1>3, <1>4, Zenon DEF AtaIdeChannel, Still
<1>8. Holds(t)
  BY <1>2, <1>5, <1>6, <1>7, StillHolds
<1> QED
  BY <1>2, <1>5, <1>7, <1>8, Zenon DEF Still

LEMMA WriteStep ==
    ASSUME IdeInv, NEW w \in IdeWords, WriteData(w)
    PROVE  IdeInv' /\ ImageStep
<1>0. /\ Holds(ch) /\ asked \in Asked /\ WriteUnderWay(ch, asked)
      /\ cd \in AtapiCdromState /\ hdf \in Image /\ (pktFailed => cd.sense # "NO_SENSE")
  BY Zenon DEF IdeInv
<1>1. ch.state = "DATA_OUT" /\ cd' = cd /\ pktFailed' = pktFailed
  BY DEF WriteData
<1>2. asked' = AddWord(asked, w)
  BY Zenon DEF WriteData, AddWord
<1>3. PICK c : /\ c = Advanced(ch, w)
               /\ \/ c.pos < c.len /\ ch' = c /\ hdf' = hdf
                  \/ c.pos = c.len /\ ch' = flushed(c, TRUE) /\ hdf' = Written(ch.wr_count, c.buf)
                  \/ c.pos = c.len /\ \E n \in 0..ch.wr_count, io \in BOOLEAN :
                       ch' = flushed(c, io) /\ hdf' = Written(n, c.buf) /\ unflushed' = io
  BY Zenon DEF WriteData, hdf_write, Advanced
<1>4. MovedOut(c, asked')
  BY <1>1, <1>2, <1>3, MoveOut
<1>5. /\ c \in AtaIdeChannel /\ c.state = "DATA_OUT" /\ c.status = ch.status
      /\ c.len = ch.len /\ c.pkt_pos = ch.pkt_pos
      /\ c.pos <= c.len /\ c.len <= Len(c.buf)
      /\ c.wr_lba = ch.wr_lba /\ c.wr_count = ch.wr_count
      /\ asked' \in Asked /\ asked'.dir = "out" /\ asked'.lba = asked.lba
      /\ asked'.words = asked.words /\ asked'.spoilt = asked.spoilt /\ Len(asked'.moved) = c.pos
      /\ ~asked'.spoilt => \A i \in 1..c.pos : c.buf[i] = asked'.moved[i]
  BY <1>4, Zenon DEF MovedOut
<1>6. ReadUnderWay(ch', hdf', asked')
  BY <1>5 DEF ReadUnderWay
<1>7. c.wr_lba + c.wr_count <= DiskSectors /\ "RDY" \in ch.status
  BY <1>0, <1>5, Zenon DEF Holds
<1>8. /\ OnDisk(asked.lba, asked.words) /\ ch.len = asked.words
      /\ ch.wr_lba = asked.lba /\ asked.words = ch.wr_count * SectorWords
  BY <1>0, <1>1, Zenon DEF WriteUnderWay
<1>9. CASE c.pos < c.len /\ ch' = c /\ hdf' = hdf
  <2>0. "DATA_OUT" # "IDLE" /\ "DATA_OUT" # "ATAPI_CMD"
    OBVIOUS
  <2>1. Holds(ch')
    BY <1>5, <1>7, <1>9, <2>0, Zenon DEF Holds, Moving
  <2>2. WriteUnderWay(ch', asked')
    BY <1>5, <1>8, <1>9, Zenon DEF WriteUnderWay
  <2>3. ImageStep
    BY <1>5, <1>9, <2>0, Zenon DEF ImageStep, SomeEnd
  <2> QED
    BY <1>0, <1>1, <1>5, <1>6, <1>9, <2>1, <2>2, <2>3, Zenon DEF IdeInv
<1>10. ASSUME c.pos = c.len, NEW io \in BOOLEAN, ch' = flushed(c, io),
              NEW n \in 0..ch.wr_count, hdf' = Written(n, c.buf), io => n = ch.wr_count \/ unflushed'
       PROVE  IdeInv' /\ ImageStep
  <2>1. Holds(ch') /\ ch'.state = "IDLE" /\ (io \/ "ERR" \in ch'.status)
    BY <1>5, <1>7, <1>10, FlushHolds
  <2>2. c.buf \in Seq(IdeWord) /\ ch.len <= Len(c.buf)
    BY <1>5, ChannelFields
  <2>3. /\ hdf' \in Image
        /\ \A i \in 1..DiskWords :
             LET k == i - asked.lba * SectorWords
             IN  \/ k \in 1..asked.words /\ hdf'.words[i] = c.buf[k]
                 \/ hdf'.words[i] = hdf.words[i] /\ (n = ch.wr_count => k \notin 1..asked.words)
    BY <1>1, <1>10, <2>2, WrittenImage
  <2>4. WriteUnderWay(ch', asked')
    BY <2>1 DEF WriteUnderWay
  <2>5. SomeEnd
    BY <1>1, <1>5, <2>1, Zenon DEF SomeEnd
  <2>6. Len(asked'.moved) = asked.words /\ c.pos = asked.words
    BY <1>5, <1>8, <1>10, Zenon
  <2>7. ASSUME ~asked.spoilt PROVE OnImage
    <3>1. \A k \in 1..asked.words : c.buf[k] = asked'.moved[k]
      BY <1>5, <2>6, <2>7, Zenon
    <3> QED
      BY <1>10, <2>1, <2>3, <2>6, <3>1, Zenon DEF OnImage
  <2>8. ImageStep
    BY <2>5, <2>7, Zenon DEF ImageStep
  <2> QED
    BY <1>0, <1>1, <1>5, <1>6, <2>1, <2>3, <2>4, <2>8, Zenon DEF IdeInv
<1>11. ch.wr_count \in 0..ch.wr_count
  BY <1>0, ChannelFields DEF Holds
<1>12. CASE c.pos = c.len /\ ch' = flushed(c, TRUE) /\ hdf' = Written(ch.wr_count, c.buf)
  BY <1>10, <1>11, <1>12, Zenon
<1>13. CASE c.pos = c.len /\ \E n \in 0..ch.wr_count, io \in BOOLEAN :
              ch' = flushed(c, io) /\ hdf' = Written(n, c.buf) /\ unflushed' = io
  <2>1. PICK n \in 0..ch.wr_count, io \in BOOLEAN :
           ch' = flushed(c, io) /\ hdf' = Written(n, c.buf) /\ unflushed' = io
    BY <1>13, Zenon
  <2>2. io => n = ch.wr_count \/ unflushed'
    BY <2>1, Zenon
  <2> QED
    BY <1>10, <1>13, <2>1, <2>2, Zenon
<1> QED
  BY <1>3, <1>9, <1>12, <1>13, Zenon

LEMMA AsideIsImageStep == Aside => ImageStep
BY Zenon DEF Aside, ImageStep

(* Steps that move no word.                                                *)
LEMMA CommandStep ==
    ASSUME IdeInv, NEW cmd \in IdeCommands, WriteCommand(cmd)
    PROVE  IdeInv' /\ Aside
<1>0. /\ Holds(ch) /\ cd \in AtapiCdromState /\ hdf \in Image /\ (pktFailed => cd.sense # "NO_SENSE")
  BY Zenon DEF IdeInv
<1>1. PICK got \in IF cmd = "READ_SECTORS" THEN 0..DiskWords ELSE {DiskWords} :
         ch' = execute_command(ch, cmd, got) /\ asked' = Ask(ch, cmd, ch')
  BY Zenon DEF WriteCommand
<1>2. got \in Nat
  <2>1. DiskWords \in Nat
    BY IdeAssumption DEF DiskWords
  <2> HIDE DEF DiskWords
  <2> QED
    BY <2>1
<1>3. Outcome(cmd, ch')
  BY <1>0, <1>1, <1>2, CommandOutcome
<1>4. /\ asked' \in Asked /\ ReadUnderWay(ch', hdf, asked') /\ WriteUnderWay(ch', asked')
      /\ ~(ch.state = "DATA_OUT" /\ ch'.state = "IDLE" /\ asked'.dir = "out")
  BY <1>1, <1>3, AskKeeps
<1>5. /\ hdf' = hdf /\ cd' = (IF ch.dev = 1 /\ cmd = "DEVICE_RESET" THEN atapi_reset(cd) ELSE cd)
      /\ pktFailed' = (pktFailed /\ ~(ch.dev = 1 /\ cmd = "DEVICE_RESET"))
  BY Zenon DEF WriteCommand
<1>6. atapi_reset(cd) \in AtapiCdromState
  <2>1. "NO_SENSE" \in Senses /\ cd.present \in BOOLEAN
    BY <1>0 DEF Senses, AtapiCdromState
  <2> QED
    BY <1>0, <2>1, Zenon DEF atapi_reset, AtapiCdromState
<1>7. cd' \in AtapiCdromState /\ (pktFailed' => cd'.sense # "NO_SENSE")
  BY <1>0, <1>5, <1>6, Zenon
<1>8. Holds(ch')
  BY <1>3, Zenon DEF Outcome
<1> QED
  BY <1>0, <1>4, <1>5, <1>7, <1>8, Zenon DEF IdeInv, Aside, SomeEnd

(* A step that changes only registers the transfer does not look at.       *)
LEMMA StillStep ==
    ASSUME IdeInv, Holds(ch'), Still(ch, ch'), ch'.buf = ch.buf,
           UNCHANGED <<cd, hdf, asked, pktFailed>>
    PROVE  IdeInv' /\ Aside
<1>0. /\ asked \in Asked /\ ReadUnderWay(ch, hdf, asked) /\ WriteUnderWay(ch, asked)
      /\ cd \in AtapiCdromState /\ hdf \in Image /\ (pktFailed => cd.sense # "NO_SENSE")
  BY Zenon DEF IdeInv
<1>1. cd' = cd /\ hdf' = hdf /\ asked' = asked /\ pktFailed' = pktFailed /\ ch'.state = ch.state
  BY DEF Still
<1>2. ReadUnderWay(ch', hdf, asked) /\ WriteUnderWay(ch', asked)
  BY <1>0, StillKeeps
<1>3. Aside
  BY <1>1 DEF SomeEnd, Aside
<1>4. IdeInv'
  BY <1>0, <1>1, <1>2 DEF IdeInv
<1> QED
  BY <1>3, <1>4

LEMMA TaskFileStep ==
    ASSUME IdeInv, NEW dev \in {0, 1}, NEW lba \in 0..(DiskSectors - 1), NEW count \in IdeCounts,
           WriteTaskFile(dev, lba, count)
    PROVE  IdeInv' /\ Aside
<1>1. Holds(ch) /\ ch \in AtaIdeChannel /\ "RDY" \in ch.status
  BY DEF IdeInv, Holds
<1>2. lba \in 0..DiskSectors /\ 0 \in {0, SIGNATURE, BYTES} /\ count \in Nat
  BY IdeAssumption
<1>3. ch' = [ch EXCEPT !.dev = dev, !.lba_low = lba, !.lba_high = 0, !.sector_count = count]
  BY DEF WriteTaskFile
<1>4. ch' \in AtaIdeChannel
  BY <1>1, <1>2, <1>3, Zenon DEF AtaIdeChannel
<1>5. Still(ch, ch') /\ ch'.buf = ch.buf /\ ch'.status = ch.status
  BY <1>1, <1>3, Zenon DEF AtaIdeChannel, Still
<1>6. Holds(ch')
  BY <1>1, <1>4, <1>5, StillHolds
<1>7. UNCHANGED <<cd, hdf, asked, pktFailed>>
  BY DEF WriteTaskFile
<1> QED
  BY <1>5, <1>6, <1>7, StillStep

LEMMA DeviceStep ==
    ASSUME IdeInv, NEW dev \in {0, 1}, WriteDevice(dev)
    PROVE  IdeInv' /\ Aside
<1>1. Holds(ch) /\ ch \in AtaIdeChannel /\ "RDY" \in ch.status
  BY DEF IdeInv, Holds
<1>2. ch' = [ch EXCEPT !.dev = dev]
  BY DEF WriteDevice
<1>3. ch' \in AtaIdeChannel
  BY <1>1, <1>2, Zenon DEF AtaIdeChannel
<1>4. Still(ch, ch') /\ ch'.buf = ch.buf /\ ch'.status = ch.status
  BY <1>1, <1>2, Zenon DEF AtaIdeChannel, Still
<1>5. Holds(ch')
  BY <1>1, <1>3, <1>4, StillHolds
<1> QED
  BY <1>4, <1>5, StillStep DEF WriteDevice

LEMMA PacketWordStep ==
    ASSUME IdeInv, WritePacketWord
    PROVE  IdeInv' /\ Aside
<1>0. /\ Holds(ch) /\ asked \in Asked /\ ReadUnderWay(ch, hdf, asked) /\ WriteUnderWay(ch, asked)
      /\ cd \in AtapiCdromState /\ hdf \in Image /\ (pktFailed => cd.sense # "NO_SENSE")
  BY Zenon DEF IdeInv
<1>1. ch \in AtaIdeChannel /\ ch.state = "ATAPI_CMD" /\ ch.pkt_pos + 1 < PktWords
  BY <1>0 DEF Holds, WritePacketWord
<1>2. PICK q : q = ch.pkt_pos + 1
  OBVIOUS
<1>3. q \in 0..PktWords /\ q < PktWords
  BY <1>1, <1>2, ChannelFields, IdeAssumption
<1>4. ch' = [ch EXCEPT !.pkt_pos = q]
  BY <1>1, <1>2, Zenon DEF WritePacketWord, AtaIdeChannel
<1>5. ch' \in AtaIdeChannel
  BY <1>1, <1>3, <1>4, Zenon DEF AtaIdeChannel
<1>6. /\ ch'.state = ch.state /\ ch'.len = ch.len /\ ch'.pos = ch.pos /\ ch'.pkt_pos = q
      /\ ch'.wr_lba = ch.wr_lba /\ ch'.wr_count = ch.wr_count /\ ch'.buf = ch.buf
      /\ ch'.status = ch.status
  BY <1>1, <1>4, Zenon DEF AtaIdeChannel
<1>7. Holds(ch')
  BY <1>0, <1>3, <1>5, <1>6, Zenon DEF Holds, Moving
<1>8. cd' = cd /\ hdf' = hdf /\ asked' = asked /\ pktFailed' = pktFailed
  BY DEF WritePacketWord
<1>9. ReadUnderWay(ch', hdf, asked) /\ WriteUnderWay(ch', asked) /\ ~SomeEnd
  BY <1>0, <1>1, <1>6 DEF ReadUnderWay, WriteUnderWay, SomeEnd
<1> QED
  BY <1>0, <1>7, <1>8, <1>9, Zenon DEF IdeInv, Aside

LEMMA LastPacketWordStep ==
    ASSUME IdeInv, NEW p \in Packets(0..CdSectors, 0..(BufSectors + 1)), WriteLastPacketWord(p)
    PROVE  IdeInv' /\ Aside
<1>0. /\ Holds(ch) /\ asked \in Asked /\ ReadUnderWay(ch, hdf, asked) /\ WriteUnderWay(ch, asked)
      /\ cd \in AtapiCdromState /\ hdf \in Image
  BY Zenon DEF IdeInv
<1>1. ch.state = "ATAPI_CMD" /\ hdf' = hdf /\ asked' = asked
  BY DEF WriteLastPacketWord
<1>2. PICK io \in BOOLEAN : \E r \in {atapi_cdrom_exec(cd, p, io)} :
         /\ ch' = packet_result([ch EXCEPT !.pkt_pos = PktWords], r)
         /\ cd' = r.cd /\ pktFailed' = r.failed
  BY Zenon DEF WriteLastPacketWord
<1>11. PICK r :
         /\ r = atapi_cdrom_exec(cd, p, io)
         /\ ch' = packet_result([ch EXCEPT !.pkt_pos = PktWords], r)
         /\ cd' = r.cd /\ pktFailed' = r.failed
  BY <1>2, Zenon
<1>3. Answered(r)
  BY <1>0, <1>11, ExecAnswers
<1>4. PICK c : c = [ch EXCEPT !.pkt_pos = PktWords]
  OBVIOUS
<1>5. ch' = packet_result(c, r)
  BY <1>11, <1>4, Zenon
<1>6. Holds(ch') /\ ch'.state \in {"IDLE", "ATAPI_DATA_IN"}
  BY <1>0, <1>1, <1>3, <1>4, <1>5, PacketHolds, Zenon
<1>7. cd' \in AtapiCdromState /\ (pktFailed' => cd'.sense # "NO_SENSE")
  BY <1>11, <1>3, Zenon DEF Answered
<1>8. asked.dir \notin {"in", "out"}
  BY <1>0, <1>1 DEF ReadUnderWay, WriteUnderWay
<1>9. ReadUnderWay(ch', hdf, asked) /\ WriteUnderWay(ch', asked)
  BY <1>6, <1>8 DEF ReadUnderWay, WriteUnderWay
<1>10. ~SomeEnd
  BY <1>1 DEF SomeEnd
<1> QED
  BY <1>0, <1>1, <1>6, <1>7, <1>9, <1>10, Zenon DEF IdeInv, Aside

LEMMA AttachHdfStep ==
    ASSUME IdeInv, AttachHdf
    PROVE  IdeInv' /\ Aside
<1>0. /\ Holds(ch) /\ cd \in AtapiCdromState /\ hdf \in Image
      /\ (pktFailed => cd.sense # "NO_SENSE")
  BY Zenon DEF IdeInv
<1>1. /\ hdf' = [hdf EXCEPT !.attached = TRUE] /\ ch' = channel_reset(ch)
      /\ asked' = NothingAsked /\ cd' = cd /\ pktFailed' = pktFailed
  BY DEF AttachHdf
<1>2. hdf' \in Image /\ hdf'.words = hdf.words
  BY <1>0, <1>1, Zenon DEF Image
<1>3. Holds(ch') /\ ch'.state = "IDLE"
  BY <1>0, <1>1, ResetHolds DEF Holds
<1>4. asked' \in Asked /\ ReadUnderWay(ch', hdf', asked') /\ WriteUnderWay(ch', asked')
  BY <1>1, <1>3, NothingUnderWay
<1>5. ~SomeEnd
  BY <1>1 DEF SomeEnd, NothingAsked
<1> QED
  BY <1>0, <1>1, <1>2, <1>3, <1>4, <1>5, Zenon DEF IdeInv, Aside

LEMMA AttachIsoStep ==
    ASSUME IdeInv, AttachIso
    PROVE  IdeInv' /\ Aside
<1>0. /\ Holds(ch) /\ cd \in AtapiCdromState /\ hdf \in Image
      /\ (pktFailed => cd.sense # "NO_SENSE")
  BY Zenon DEF IdeInv
<1>1. /\ cd' = atapi_insert(cd) /\ ch' = channel_reset(ch)
      /\ asked' = NothingAsked /\ hdf' = hdf /\ pktFailed' = pktFailed
  BY DEF AttachIso
<1>2. cd' \in AtapiCdromState /\ cd'.sense = cd.sense
  BY <1>0, <1>1, Zenon DEF AtapiCdromState, atapi_insert
<1>3. Holds(ch') /\ ch'.state = "IDLE"
  BY <1>0, <1>1, ResetHolds DEF Holds
<1>4. asked' \in Asked /\ ReadUnderWay(ch', hdf, asked') /\ WriteUnderWay(ch', asked')
  BY <1>1, <1>3, NothingUnderWay
<1>5. ~SomeEnd
  BY <1>1 DEF SomeEnd, NothingAsked
<1> QED
  BY <1>0, <1>1, <1>2, <1>3, <1>4, <1>5, Zenon DEF IdeInv, Aside

-----------------------------------------------------------------------------
LEMMA IdeStart == IdeInit => IdeInv
<1> SUFFICES ASSUME IdeInit PROVE IdeInv
  OBVIOUS
<1>1. PICK c : c = [error |-> "OK", status |-> {}, lba_low |-> 0, lba_high |-> 0,
                    sector_count |-> 0, dev |-> 0, state |-> "IDLE", buf |-> <<>>,
                    len |-> 0, pos |-> 0, pkt_pos |-> 0, wr_lba |-> 0, wr_count |-> 0]
  OBVIOUS
<1>2. /\ {} \in SUBSET {"RDY", "DRQ", "ERR"} /\ "OK" \in {"OK", "DIAG", "ABRT"}
      /\ 0 \in Nat /\ 0 \in 0..DiskSectors /\ 0 \in {0, SIGNATURE, BYTES}
      /\ 0 \in 0..PktWords /\ 0 \in {0, 1} /\ <<>> \in Seq(IdeWord)
      /\ "IDLE" \in Transfers \cup {"IDLE", "ATAPI_CMD", "DATA_OUT"}
  BY IdeAssumption
<1>3. c \in AtaIdeChannel
  BY <1>1, <1>2, Zenon DEF AtaIdeChannel
<1>4. c.wr_lba + c.wr_count <= DiskSectors
  BY <1>1, IdeAssumption
<1>5. ch = channel_reset(c)
  BY <1>1, Zenon DEF IdeInit, channel_init
<1>6. Holds(ch) /\ ch.state = "IDLE"
  BY <1>3, <1>4, <1>5, ResetHolds
<1>7. cd \in AtapiCdromState
  BY DEF IdeInit, atapi_init, AtapiCdromState, Senses
<1>8. hdf \in Image
  <2> DEFINE W == IdeWord
             f == [i \in 1..DiskWords |-> i]
  <2>1. \A i \in 1..DiskWords : i \in Nat
    BY IdeAssumption DEF DiskWords
  <2>2. Nat \subseteq W
    BY WordsAre
  <2> HIDE DEF W
  <2>3. f \in [1..DiskWords -> W]
    BY <2>1, <2>2, Zenon
  <2>4. hdf = [attached |-> FALSE, words |-> f]
    BY DEF IdeInit
  <2> HIDE DEF f
  <2> QED
    BY <2>3, <2>4, Zenon DEF Image, W
<1>9. asked = NothingAsked /\ pktFailed = FALSE
  BY DEF IdeInit
<1>10. asked \in Asked /\ ReadUnderWay(ch, hdf, asked) /\ WriteUnderWay(ch, asked)
  BY <1>6, <1>9, NothingUnderWay
<1> QED
  BY <1>6, <1>7, <1>8, <1>9, <1>10, Zenon DEF IdeInv

LEMMA IdeStays == IdeInv /\ [IdeNext]_ideVars => IdeInv' /\ [ImageStep]_ideVars
<1> SUFFICES ASSUME IdeInv, [IdeNext]_ideVars PROVE IdeInv' /\ [ImageStep]_ideVars
  OBVIOUS
<1>1. ASSUME NEW cmd \in IdeCommands, WriteCommand(cmd) PROVE IdeInv' /\ ImageStep
  BY <1>1, CommandStep, AsideIsImageStep
<1>2. ASSUME NEW lba \in 0..(DiskSectors - 1), NEW count \in IdeCounts,
             WriteTaskFile(0, lba, count)
      PROVE  IdeInv' /\ ImageStep
  BY <1>2, TaskFileStep, AsideIsImageStep
<1>3. ASSUME NEW dev \in {0, 1}, WriteDevice(dev) PROVE IdeInv' /\ ImageStep
  BY <1>3, DeviceStep, AsideIsImageStep
<1>4. ASSUME ReadData PROVE IdeInv' /\ ImageStep
  BY <1>4, ReadStep, AsideIsImageStep
<1>5. ASSUME NEW w \in IdeWords, WriteData(w) PROVE IdeInv' /\ ImageStep
  BY <1>5, WriteStep
<1>6. ASSUME WritePacketWord PROVE IdeInv' /\ ImageStep
  BY <1>6, PacketWordStep, AsideIsImageStep
<1>7. ASSUME NEW p \in Packets(0..CdSectors, 0..(BufSectors + 1)), WriteLastPacketWord(p)
      PROVE  IdeInv' /\ ImageStep
  BY <1>7, LastPacketWordStep, AsideIsImageStep
<1>8. ASSUME AttachHdf PROVE IdeInv' /\ ImageStep
  BY <1>8, AttachHdfStep, AsideIsImageStep
<1>9. ASSUME AttachIso PROVE IdeInv' /\ ImageStep
  BY <1>9, AttachIsoStep, AsideIsImageStep
<1>10. CASE UNCHANGED ideVars
  <2>1. /\ ch' = ch /\ cd' = cd /\ hdf' = hdf /\ asked' = asked /\ pktFailed' = pktFailed
    BY <1>10 DEF ideVars
  <2>2. IdeInv'
    BY <2>1, Zenon DEF IdeInv
  <2> QED
    BY <1>10, <2>2
<1> QED
  BY <1>1, <1>2, <1>3, <1>4, <1>5, <1>6, <1>7, <1>8, <1>9, <1>10, Zenon DEF IdeNext

(* Whatever commands come in whatever state, and whatever fails on the     *)
(* host: the channel asks for no transfer it does not have, the guest gets *)
(* the sectors it asked for, in order and no more, and a packet that       *)
(* failed left a sense (execute_command, ata_ide_read16, ata_ide_write16,  *)
(* execute_atapi_packet).                                                  *)
THEOREM IdeTransfersExactly == IdeSpec => []TransfersExact
<1>1. IdeInv => TransfersExact
  <2> SUFFICES ASSUME IdeInv PROVE TransfersExact
    OBVIOUS
  <2>1. /\ Holds(ch) /\ ReadUnderWay(ch, hdf, asked)
        /\ cd \in AtapiCdromState /\ hdf \in Image /\ (pktFailed => cd.sense # "NO_SENSE")
    BY Zenon DEF IdeInv
  <2>2. ch \in AtaIdeChannel
    BY <2>1 DEF Holds
  <2>3. /\ ch.state \in Transfers \cup {"IDLE", "ATAPI_CMD", "DATA_OUT"}
        /\ ch.status \subseteq {"RDY", "DRQ", "ERR"} /\ ch.error \in {"OK", "DIAG", "ABRT"}
        /\ ch.dev \in {0, 1} /\ ch.lba_low \in 0..DiskSectors
        /\ ch.lba_high \in {0, SIGNATURE, BYTES} /\ ch.sector_count \in Nat
        /\ ch.pkt_pos \in 0..PktWords /\ ch.pos \in Nat /\ ch.len \in Nat
        /\ Len(ch.buf) \in Nat
    BY <2>2, ChannelFields
  <2>4. ch.pos <= ch.len /\ ch.len <= Len(ch.buf)
    BY <2>1 DEF Holds
  <2>5. ch.pos \in 0..Len(ch.buf) /\ ch.len \in 0..Len(ch.buf)
    BY <2>3, <2>4
  <2>6. hdf.attached \in BOOLEAN /\ DOMAIN hdf.words = 1..DiskWords
    BY <2>1, Zenon DEF Image
  <2>7. ch.wr_lba + ch.wr_count <= DiskSectors /\ "RDY" \in ch.status
    BY <2>1 DEF Holds
  <2>8. IdeTypeOK
    BY <2>1, <2>3, <2>5, <2>6, <2>7, Zenon DEF IdeTypeOK
  <2>9. DrqMeansTransfer
    BY <2>1, <2>3, Zenon DEF Holds, Moving, DataStates, DrqMeansTransfer
  <2>10. ReadsTheDisk
    BY <2>1, Zenon DEF ReadUnderWay, ReadsTheDisk
  <2>11. FailureHasSense
    BY <2>1 DEF FailureHasSense
  <2> QED
    BY <2>8, <2>9, <2>10, <2>11, Zenon DEF TransfersExact
<1> QED
  BY <1>1, IdeStart, IdeStays, PTL DEF IdeSpec

(* The image changes only with the last word of a write the guest asked    *)
(* for, in its sectors and to its words, and a write that ends without an  *)
(* error is on it completely unless the host's fflush failed               *)
(* (ata_ide_write16's flush; hdf_write looks at every result but that      *)
(* one), or a read that failed on the host has spoilt the buffer.          *)
THEOREM IdeWritesExactly == IdeSpec => WritesTheDisk
<1> DEFINE Body == asked.spoilt \/
       LET at(i) == i - asked.lba * SectorWords
           ended == ch.state = "DATA_OUT" /\ ch'.state = "IDLE" /\ asked'.dir = "out"
       IN /\ hdf'.words # hdf.words => ended
          /\ ended =>
               /\ Len(asked'.moved) = asked.words
               /\ \A i \in 1..DiskWords :
                    \/ hdf'.words[i] = hdf.words[i]
                       /\ ("ERR" \in ch'.status \/ unflushed' \/ at(i) \notin 1..asked.words)
                    \/ at(i) \in 1..asked.words /\ hdf'.words[i] = asked'.moved[at(i)]
<1>1. ImageStep => Body
  BY Zenon DEF ImageStep, SomeEnd, OnImage
<1> HIDE DEF Body
<1>2. IdeInv /\ [IdeNext]_ideVars => IdeInv' /\ [Body]_ideVars
  BY IdeStays, <1>1
<1>3. IdeSpec => [][Body]_ideVars
  BY <1>2, IdeStart, PTL DEF IdeSpec
<1> QED
  BY <1>3 DEF WritesTheDisk, Body
-----------------------------------------------------------------------------
(* The real-time clock.                                                   *)

(* The fields of the host's calendar are in their ranges.                  *)
LEMMA CalendarFields ==
    ASSUME NEW t \in Int
    PROVE  /\ to_calendar(t).sec \in 0..(SecsPerMin - 1)
           /\ to_calendar(t).min \in 0..(MinsPerHour - 1)
           /\ to_calendar(t).hour \in 0..23
           /\ to_calendar(t).mday \in 1..MonthDays
           /\ to_calendar(t).mon \in 0..11
           /\ to_calendar(t).year \in Int
           /\ wday(t) \in 0..6
<1> DEFINE SM == SecsPerMin * MinsPerHour
           day == SecsPerMin * MinsPerHour * 24
           hours == t \div SM
           days == hours \div 24
           mons == days \div MonthDays
<1>1. /\ SecsPerMin \in Nat \ {0} /\ MinsPerHour \in Nat \ {0} /\ MonthDays \in Nat \ {0}
  BY RtcAssumption
<1>2. SM \in Nat \ {0} /\ day \in Nat \ {0}
  BY <1>1
<1>3. t % SecsPerMin \in 0..(SecsPerMin - 1) /\ t \div SecsPerMin \in Int
  BY <1>1, DivMod
<1>4. (t \div SecsPerMin) % MinsPerHour \in 0..(MinsPerHour - 1)
  BY <1>1, <1>3, DivMod
<1>5. (t \div day) % 7 \in 0..6
  <2>1. t \div day \in Int
    BY <1>2, DivMod
  <2> HIDE DEF day
  <2> QED
    BY <2>1
<1>6. hours \in Int
  BY <1>2, DivMod
<1> HIDE DEF hours
<1>7. hours % 24 \in 0..23 /\ days \in Int
  BY <1>6
<1> HIDE DEF days
<1>8. days % MonthDays \in 0..(MonthDays - 1) /\ mons \in Int
  BY <1>1, <1>7, DivMod
<1> HIDE DEF mons
<1>9. mons % 12 \in 0..11 /\ 70 + (mons \div 12) \in Int
  BY <1>8
<1>10. (days % MonthDays) + 1 \in 1..MonthDays
  BY <1>1, <1>8
<1>11. to_calendar(t) =
         [sec |-> t % SecsPerMin, min |-> (t \div SecsPerMin) % MinsPerHour,
          hour |-> hours % 24, mday |-> (days % MonthDays) + 1, mon |-> mons % 12,
          year |-> 70 + (mons \div 12)]
  BY Zenon DEF to_calendar, hours, days, mons
<1>12. wday(t) \in 0..6
  BY <1>5, Zenon DEF wday
<1>13. /\ to_calendar(t).sec = t % SecsPerMin
       /\ to_calendar(t).min = (t \div SecsPerMin) % MinsPerHour
       /\ to_calendar(t).hour = hours % 24 /\ to_calendar(t).mday = (days % MonthDays) + 1
       /\ to_calendar(t).mon = mons % 12 /\ to_calendar(t).year = 70 + (mons \div 12)
  BY <1>11
<1> QED
  BY <1>3, <1>4, <1>7, <1>9, <1>10, <1>12, <1>13, Zenon

LEMMA Digits ==
    ASSUME NEW v \in 0..159
    PROVE  /\ bcd_lo(v) \in Nibbles /\ bcd_lo(v) \in 0..9 /\ bcd_hi(v) \in Nibbles
           /\ from_bcd(bcd_lo(v), bcd_hi(v)) = v
           /\ v < 40 => bcd_hi(v) \in 0..3
           /\ v < 20 => bcd_hi(v) \in 0..1
BY DEF bcd_lo, bcd_hi, from_bcd, Nibbles

LEMMA HoursShown ==
    ASSUME NEW h \in 0..23, NEW h24 \in BOOLEAN
    PROVE  /\ hour_shown(h, h24) \in 0..23
           /\ ~h24 => hour_shown(h, h24) \in 1..12
           /\ h24 => hour_shown(h, h24) = h
BY DEF hour_shown

(* An hour of the OKI, with its flag, is read back as it was.              *)
LEMMA OkiHour ==
    ASSUME NEW h \in 0..23, NEW h24 \in BOOLEAN, NEW s, s = hour_shown(h, h24),
           NEW x, x = bcd_hi(s) + pm_flag(h, h24, 4)
    PROVE  /\ x \in Nibbles
           /\ hour_read(from_bcd(bcd_lo(s), x % 4), h24, HasBit(x, 4)) = h
<1>1. s \in 0..23 /\ (~h24 => s \in 1..12) /\ (h24 => s = h)
  BY HoursShown
<1>2. bcd_lo(s) \in 0..9 /\ bcd_hi(s) \in 0..3 /\ from_bcd(bcd_lo(s), bcd_hi(s)) = s
  BY <1>1, Digits
<1>3. pm_flag(h, h24, 4) = IF ~h24 /\ h >= 12 THEN 4 ELSE 0
  BY DEF pm_flag
<1>4. x \in Nibbles /\ x % 4 = bcd_hi(s) /\ (HasBit(x, 4) <=> ~h24 /\ h >= 12)
  BY <1>2, <1>3 DEF Nibbles, HasBit
<1>5. hour_read(s, h24, ~h24 /\ h >= 12) = h
  <2>1. CASE h24
    BY <1>1, <2>1 DEF hour_read
  <2>2. CASE ~h24
    <3>1. s = IF h % 12 = 0 THEN 12 ELSE h % 12
      BY <2>2 DEF hour_shown
    <3> QED
      BY <2>2, <3>1 DEF hour_read
  <2> QED
    BY <2>1, <2>2
<1>6. HasBit(x, 4) = (~h24 /\ h >= 12)
  BY <1>4 DEF HasBit
<1> QED
  BY <1>2, <1>4, <1>5, <1>6, Zenon

(* An hour of the Ricoh is, unless its two digits and 24 hours a day leave *)
(* no bit for it.                                                          *)
LEMMA RicohHour ==
    ASSUME NEW h \in 0..23, NEW h24 \in BOOLEAN, NEW s, s = hour_shown(h, h24),
           NEW x, x = bcd_hi(s) + pm_flag(h, h24, 2)
    PROVE  /\ x \in Nibbles
           /\ ~(h24 /\ h >= 20) =>
                hour_read(from_bcd(bcd_lo(s), x % 2), h24, HasBit(x, 2)) = h
<1>1. s \in 0..23 /\ (~h24 => s \in 1..12) /\ (h24 => s = h)
  BY HoursShown
<1>2. bcd_lo(s) \in 0..9 /\ bcd_hi(s) \in 0..3 /\ from_bcd(bcd_lo(s), bcd_hi(s)) = s
  BY <1>1, Digits
<1>3. pm_flag(h, h24, 2) = IF ~h24 /\ h >= 12 THEN 2 ELSE 0
  BY DEF pm_flag
<1>4. x \in Nibbles
  BY <1>2, <1>3 DEF Nibbles
<1>5. ASSUME ~(h24 /\ h >= 20)
      PROVE  hour_read(from_bcd(bcd_lo(s), x % 2), h24, HasBit(x, 2)) = h
  <2>1. bcd_hi(s) \in 0..1
    BY <1>1, <1>5, Digits
  <2>2. x % 2 = bcd_hi(s) /\ (HasBit(x, 2) <=> ~h24 /\ h >= 12)
    BY <2>1, <1>3 DEF HasBit
  <2>3. hour_read(s, h24, ~h24 /\ h >= 12) = h
    <3>1. CASE h24
      BY <1>1, <3>1 DEF hour_read
    <3>2. CASE ~h24
      <4>1. s = IF h % 12 = 0 THEN 12 ELSE h % 12
        BY <3>2 DEF hour_shown
      <4> QED
        BY <3>2, <4>1 DEF hour_read
    <3> QED
      BY <3>1, <3>2
  <2>4. HasBit(x, 2) = (~h24 /\ h >= 12)
    BY <2>2 DEF HasBit
  <2> QED
    BY <1>2, <2>2, <2>3, <2>4, Zenon
<1> QED
  BY <1>4, <1>5

(* The years 1970 to 2069.                                                 *)
LEMMA YearShown ==
    ASSUME NEW y \in Int
    PROVE  /\ y % 100 \in 0..99
           /\ y \in 70..169 => year_read(y % 100) = y
BY DEF year_read

LEMMA ThirteenNibbles ==
    ASSUME NEW W, NEW a1 \in W, NEW a2 \in W, NEW a3 \in W, NEW a4 \in W, NEW a5 \in W,
           NEW a6 \in W, NEW a7 \in W, NEW a8 \in W, NEW a9 \in W, NEW a10 \in W,
           NEW a11 \in W, NEW a12 \in W, NEW a13 \in W
    PROVE  \A n \in 0..12 :
             <<a1, a2, a3, a4, a5, a6, a7, a8, a9, a10, a11, a12, a13>>[n + 1] \in W
OBVIOUS

-----------------------------------------------------------------------------
(* A date the host's calendar can be asked for is the date it gives back.  *)
LEMMA CalendarRoundTrip ==
    ASSUME NEW c, c = [sec |-> c.sec, min |-> c.min, hour |-> c.hour, mday |-> c.mday,
                       mon |-> c.mon, year |-> c.year],
           c.sec \in Nat, c.min \in Nat, c.hour \in Nat, c.mday \in Nat, c.mon \in Int,
           c.year \in Nat, c.year >= 70, InRange(c)
    PROVE  /\ from_calendar(c) \in Nat
           /\ to_calendar(from_calendar(c)) = c
<1> DEFINE S == SecsPerMin
           M == MinsPerHour
           D == MonthDays
           mons == (c.year - 70) * 12 + c.mon
           days == mons * D + c.mday - 1
           hours == days * 24 + c.hour
           mins == hours * M + c.min
           t == mins * S + c.sec
<1>1. S \in Nat \ {0} /\ M \in Nat \ {0} /\ D \in Nat \ {0}
  BY RtcAssumption
<1>2. /\ c.sec \in 0..(S - 1) /\ c.min \in 0..(M - 1) /\ c.hour \in 0..23
      /\ c.mday - 1 \in 0..(D - 1) /\ c.mon \in 0..11
  BY <1>1 DEF InRange
<1>3. mons \in Nat /\ mons \div 12 = c.year - 70 /\ mons % 12 = c.mon
  BY <1>2
<1> HIDE DEF mons, S, M, D
<1>4. days \in Nat /\ days \div D = mons /\ days % D = c.mday - 1
  <2>1. days = D * mons + (c.mday - 1)
    BY <1>1, <1>2, <1>3
  <2>2. mons \in Int
    BY <1>3
  <2>3. (D * mons + (c.mday - 1)) \div D = mons /\ (D * mons + (c.mday - 1)) % D = c.mday - 1
    BY <1>1, <1>2, <2>2, DivUnique
  <2>4. D * mons \in Nat
    BY <1>1, <1>3
  <2>5. D * mons + (c.mday - 1) \in Nat
    BY <1>2, <2>4
  <2> QED
    BY <2>1, <2>3, <2>5, Zenon
<1> HIDE DEF days
<1>5. hours \in Nat /\ hours \div 24 = days /\ hours % 24 = c.hour
  BY <1>2, <1>4
<1> HIDE DEF hours
<1>6. mins \in Nat /\ mins \div M = hours /\ mins % M = c.min
  <2>1. mins = M * hours + c.min
    BY <1>1, <1>2, <1>5
  <2>2. hours \in Int
    BY <1>5
  <2>3. (M * hours + c.min) \div M = hours /\ (M * hours + c.min) % M = c.min
    BY <1>1, <1>2, <2>2, DivUnique
  <2>4. M * hours \in Nat
    BY <1>1, <1>5
  <2>5. M * hours + c.min \in Nat
    BY <2>4
  <2> QED
    BY <2>1, <2>3, <2>5, Zenon
<1>7. t \in Nat /\ t \div S = mins /\ t % S = c.sec
  <2> HIDE DEF mins
  <2>1. t = S * mins + c.sec
    BY <1>1, <1>2, <1>6
  <2>2. mins \in Int
    BY <1>6
  <2>3. (S * mins + c.sec) \div S = mins /\ (S * mins + c.sec) % S = c.sec
    BY <1>1, <1>2, <2>2, DivUnique
  <2>4. S * mins \in Nat
    BY <1>1, <1>6
  <2>5. S * mins + c.sec \in Nat
    BY <2>4
  <2> QED
    BY <2>1, <2>3, <2>5, Zenon
<1>8. t \div (S * M) = hours
  <2> DEFINE K == S * M
             r == c.min * S + c.sec
  <2>1. K \in Nat \ {0}
    BY <1>1
  <2>2. c.min * S <= (M - 1) * S /\ c.min * S \in Nat
    BY <1>1, <1>2
  <2>3. (M - 1) * S = K - S
    BY <1>1
  <2>4. r \in 0..(K - 1)
    BY <1>1, <1>2, <2>1, <2>2, <2>3
  <2>5. t = K * hours + r
    BY <1>1, <1>2, <1>5
  <2>6. hours \in Int
    BY <1>5
  <2> HIDE DEF K, r, t
  <2>7. (K * hours + r) \div K = hours
    BY <2>1, <2>4, <2>6, DivUnique
  <2> QED
    BY <2>5, <2>7, Zenon DEF K
<1>9. from_calendar(c) = t
  BY Zenon DEF from_calendar, t, mins, hours, days, mons, S, M, D
<1> HIDE DEF t, mins
<1>10. to_calendar(t) = [sec |-> t % S, min |-> (t \div S) % M, hour |-> (t \div (S * M)) % 24,
          mday |-> (((t \div (S * M)) \div 24) % D) + 1,
          mon |-> (((t \div (S * M)) \div 24) \div D) % 12,
          year |-> 70 + ((((t \div (S * M)) \div 24) \div D) \div 12)]
  BY Zenon DEF to_calendar, S, M, D
<1>11. to_calendar(t) = [sec |-> c.sec, min |-> c.min, hour |-> c.hour,
          mday |-> (c.mday - 1) + 1, mon |-> c.mon, year |-> 70 + (c.year - 70)]
  BY <1>3, <1>4, <1>5, <1>6, <1>7, <1>8, <1>10, Zenon
<1>12. (c.mday - 1) + 1 = c.mday /\ 70 + (c.year - 70) = c.year
  BY <1>2
<1> QED
  BY <1>7, <1>9, <1>11, <1>12, Zenon


-----------------------------------------------------------------------------
(* The image of a time: nibbles, which are read back as that time.         *)
RtcRegs == [0..3 -> [0..15 -> Nibbles]]

(* The calendar is the sum of its fields.                                  *)
LEMMA CalendarIsFields ==
    ASSUME NEW t, NEW c, c = to_calendar(t)
    PROVE  c = [sec |-> c.sec, min |-> c.min, hour |-> c.hour, mday |-> c.mday,
                mon |-> c.mon, year |-> c.year]
<1>1. \E a1, a2, a3, a4, a5, a6 :
        c = [sec |-> a1, min |-> a2, hour |-> a3, mday |-> a4, mon |-> a5, year |-> a6]
  BY Zenon DEF to_calendar
<1> QED
  BY <1>1

LEMMA OkiImage ==
    ASSUME NEW r \in RtcRegs, NEW t \in Int, NEW d, d = oki_digits(r, t)
    PROVE  /\ \A n \in 0..12 : d[n + 1] \in Nibbles
           /\ \A q : /\ \A n \in 0..12 : q[0][n] = d[n + 1]
                     /\ q[0][15] = r[0][15]
                     /\ to_calendar(t).year \in 70..169
                     => regs_to_calendar("OKI", q) = to_calendar(t)
<1>1. PICK c : c = to_calendar(t)
  OBVIOUS
<1>2. /\ c.sec \in 0..(SecsPerMin - 1) /\ c.min \in 0..(MinsPerHour - 1) /\ c.hour \in 0..23
      /\ c.mday \in 1..MonthDays /\ c.mon \in 0..11 /\ c.year \in Int /\ wday(t) \in 0..6
  BY <1>1, CalendarFields, Zenon
<1>3. /\ c.sec \in 0..159 /\ c.min \in 0..159 /\ c.mday \in 0..159 /\ c.mon + 1 \in 0..159
      /\ wday(t) \in Nibbles
  BY <1>2, RtcAssumption DEF Nibbles
<1>4. PICK h24 \in BOOLEAN : h24 = is_24h("OKI", r)
  BY Zenon DEF is_24h, HasBit
<1>5. PICK s : s = hour_shown(c.hour, h24)
  OBVIOUS
<1>6. PICK x : x = bcd_hi(s) + pm_flag(c.hour, h24, 4)
  OBVIOUS
<1>7. PICK y : y = c.year % 100
  OBVIOUS
<1>8. y \in 0..159 /\ y \in 0..99 /\ (c.year \in 70..169 => year_read(y) = c.year)
  <2>1. y \in 0..99 /\ (c.year \in 70..169 => year_read(y) = c.year)
    BY <1>2, <1>7, YearShown, ZenonT(60)
  <2> QED
    BY <2>1
<1>9. s \in 0..159
  <2>1. s \in 0..23
    BY <1>2, <1>5, HoursShown, Zenon
  <2> QED
    BY <2>1
<1>10. d = <<bcd_lo(c.sec), bcd_hi(c.sec), bcd_lo(c.min), bcd_hi(c.min), bcd_lo(s), x,
             bcd_lo(c.mday), bcd_hi(c.mday), bcd_lo(c.mon + 1), bcd_hi(c.mon + 1),
             bcd_lo(y), bcd_hi(y), wday(t)>>
  BY <1>1, <1>4, <1>5, <1>6, <1>7, Zenon DEF oki_digits
<1>11. \A v \in 0..159 : bcd_lo(v) \in Nibbles /\ bcd_hi(v) \in Nibbles
                         /\ from_bcd(bcd_lo(v), bcd_hi(v)) = v
  BY Digits, Zenon
<1>12. /\ x \in Nibbles
       /\ hour_read(from_bcd(bcd_lo(s), x % 4), h24, HasBit(x, 4)) = c.hour
  BY <1>2, <1>5, <1>6, OkiHour
<1>13. \A n \in 0..12 : d[n + 1] \in Nibbles
  <2>1. /\ bcd_lo(c.sec) \in Nibbles /\ bcd_hi(c.sec) \in Nibbles /\ bcd_lo(c.min) \in Nibbles
        /\ bcd_hi(c.min) \in Nibbles /\ bcd_lo(s) \in Nibbles /\ bcd_lo(c.mday) \in Nibbles
        /\ bcd_hi(c.mday) \in Nibbles /\ bcd_lo(c.mon + 1) \in Nibbles
        /\ bcd_hi(c.mon + 1) \in Nibbles /\ bcd_lo(y) \in Nibbles /\ bcd_hi(y) \in Nibbles
    BY <1>3, <1>8, <1>9, <1>11, Zenon
  <2> QED
    BY <1>3, <1>10, <1>12, <2>1, ThirteenNibbles, Zenon
<1>14. ASSUME NEW q, \A n \in 0..12 : q[0][n] = d[n + 1], q[0][15] = r[0][15],
              c.year \in 70..169
       PROVE  regs_to_calendar("OKI", q) = c
  <2>1. PICK g : g = q[0]
    OBVIOUS
  <2>2. \A n \in 0..12 : g[n] = d[n + 1]
    BY <1>14, <2>1, Zenon
  <2>3. /\ g[0] = d[1] /\ g[1] = d[2] /\ g[2] = d[3] /\ g[3] = d[4] /\ g[4] = d[5]
        /\ g[5] = d[6] /\ g[6] = d[7] /\ g[7] = d[8] /\ g[8] = d[9] /\ g[9] = d[10]
        /\ g[10] = d[11] /\ g[11] = d[12]
    BY <2>2
  <2>4. /\ d[1] = bcd_lo(c.sec) /\ d[2] = bcd_hi(c.sec) /\ d[3] = bcd_lo(c.min)
        /\ d[4] = bcd_hi(c.min) /\ d[5] = bcd_lo(s) /\ d[6] = x /\ d[7] = bcd_lo(c.mday)
        /\ d[8] = bcd_hi(c.mday) /\ d[9] = bcd_lo(c.mon + 1) /\ d[10] = bcd_hi(c.mon + 1)
        /\ d[11] = bcd_lo(y) /\ d[12] = bcd_hi(y)
    BY <1>10
  <2>5. /\ from_bcd(g[0], g[1]) = c.sec /\ from_bcd(g[2], g[3]) = c.min
        /\ from_bcd(g[6], g[7]) = c.mday /\ from_bcd(g[8], g[9]) = c.mon + 1
        /\ from_bcd(g[10], g[11]) = y
    BY <1>3, <1>8, <1>11, <2>3, <2>4
  <2>6. is_24h("OKI", q) = h24
    BY <1>4, <1>14, Zenon DEF is_24h
  <2>7. hour_read(from_bcd(g[4], g[5] % 4), h24, HasBit(g[5], 4)) = c.hour
    BY <1>12, <2>3, <2>4, Zenon
  <2>8. (c.mon + 1) - 1 = c.mon
    BY <1>2
  <2>9. regs_to_calendar("OKI", q) =
          [sec |-> from_bcd(g[0], g[1]), min |-> from_bcd(g[2], g[3]),
           hour |-> hour_read(from_bcd(g[4], g[5] % 4), h24, HasBit(g[5], 4)),
           mday |-> from_bcd(g[6], g[7]), mon |-> from_bcd(g[8], g[9]) - 1,
           year |-> year_read(from_bcd(g[10], g[11]))]
    BY <2>1, <2>6, Zenon DEF regs_to_calendar
  <2>10. regs_to_calendar("OKI", q) = [sec |-> c.sec, min |-> c.min, hour |-> c.hour,
            mday |-> c.mday, mon |-> c.mon, year |-> c.year]
    BY <1>8, <1>14, <2>5, <2>7, <2>8, <2>9, Zenon
  <2> QED
    BY <1>1, <2>10, CalendarIsFields, Zenon
<1> QED
  BY <1>1, <1>13, <1>14, Zenon

LEMMA RicohImage ==
    ASSUME NEW r \in RtcRegs, NEW t \in Int, NEW d, d = ricoh_digits(r, t)
    PROVE  /\ \A n \in 0..12 : d[n + 1] \in Nibbles
           /\ d[11] % 2 = r[0][10] % 2
           /\ \A q : /\ \A n \in 0..12 : q[0][n] = d[n + 1]
                     /\ to_calendar(t).year \in 70..169
                     /\ ~(is_24h("RICOH", r) /\ to_calendar(t).hour >= 20)
                     => regs_to_calendar("RICOH", q) = to_calendar(t)
<1>1. PICK c : c = to_calendar(t)
  OBVIOUS
<1>2. /\ c.sec \in 0..(SecsPerMin - 1) /\ c.min \in 0..(MinsPerHour - 1) /\ c.hour \in 0..23
      /\ c.mday \in 1..MonthDays /\ c.mon \in 0..11 /\ c.year \in Int
  BY <1>1, CalendarFields, Zenon
<1>3. /\ c.sec \in 0..159 /\ c.min \in 0..159 /\ c.mday \in 0..159 /\ c.mon + 1 \in 0..159
      /\ c.mon + 1 < 20
  BY <1>2, RtcAssumption
<1>4. PICK h24 \in BOOLEAN : h24 = is_24h("RICOH", r)
  BY Zenon DEF is_24h, HasBit
<1>5. PICK s : s = hour_shown(c.hour, h24)
  OBVIOUS
<1>6. PICK x : x = bcd_hi(s) + pm_flag(c.hour, h24, 2)
  OBVIOUS
<1>7. PICK y : y = c.year % 100
  OBVIOUS
<1>8. y \in 0..159 /\ y \in 0..99 /\ (c.year \in 70..169 => year_read(y) = c.year)
  <2>1. y \in 0..99 /\ (c.year \in 70..169 => year_read(y) = c.year)
    BY <1>2, <1>7, YearShown, ZenonT(60)
  <2> QED
    BY <2>1
<1>9. s \in 0..159
  <2>1. s \in 0..23
    BY <1>2, <1>5, HoursShown, Zenon
  <2> QED
    BY <2>1
<1>w. PICK w : w = (yday(c) \div 7) % 16
  OBVIOUS
<1>a. w \in Nibbles
  <2>1. c.mon * MonthDays \in Int
    BY <1>2, RtcAssumption
  <2>2. yday(c) \in Int
    BY <1>2, <2>1, RtcAssumption DEF yday
  <2>3. \A i \in Int : (i \div 7) % 16 \in Nibbles
    BY DEF Nibbles
  <2> QED
    BY <1>w, <2>2, <2>3, Zenon
<1>m. PICK z : z = (r[0][10] % 2) + 2 * bcd_hi(c.mon + 1)
  OBVIOUS
<1>b. /\ z \in Nibbles /\ z % 2 = r[0][10] % 2 /\ (z \div 2) % 2 = bcd_hi(c.mon + 1)
      /\ (HasBit(z, 1) <=> h24)
  <2>1. r[0][10] \in Nibbles
    BY DEF RtcRegs
  <2>2. bcd_hi(c.mon + 1) \in 0..1
    BY <1>3, Digits
  <2>3. h24 <=> (r[0][10] \div 1) % 2 = 1
    BY <1>4 DEF is_24h, HasBit
  <2> QED
    BY <1>m, <2>1, <2>2, <2>3 DEF HasBit, Nibbles
<1>10. d = <<bcd_lo(c.sec), bcd_hi(c.sec), bcd_lo(c.min), bcd_hi(c.min), bcd_lo(s), x,
             w, bcd_lo(c.mday), bcd_hi(c.mday), bcd_lo(c.mon + 1), z, bcd_lo(y), bcd_hi(y)>>
  BY <1>1, <1>4, <1>5, <1>6, <1>7, <1>w, <1>m, Zenon DEF ricoh_digits
<1>11. \A v \in 0..159 : bcd_lo(v) \in Nibbles /\ bcd_hi(v) \in Nibbles
                         /\ from_bcd(bcd_lo(v), bcd_hi(v)) = v
  BY Digits, Zenon
<1>12. /\ x \in Nibbles
       /\ ~(h24 /\ c.hour >= 20) =>
            hour_read(from_bcd(bcd_lo(s), x % 2), h24, HasBit(x, 2)) = c.hour
  BY <1>2, <1>5, <1>6, RicohHour
<1>13. \A n \in 0..12 : d[n + 1] \in Nibbles
  <2>1. /\ bcd_lo(c.sec) \in Nibbles /\ bcd_hi(c.sec) \in Nibbles /\ bcd_lo(c.min) \in Nibbles
        /\ bcd_hi(c.min) \in Nibbles /\ bcd_lo(s) \in Nibbles /\ bcd_lo(c.mday) \in Nibbles
        /\ bcd_hi(c.mday) \in Nibbles /\ bcd_lo(c.mon + 1) \in Nibbles
        /\ bcd_lo(y) \in Nibbles /\ bcd_hi(y) \in Nibbles
    BY <1>3, <1>8, <1>9, <1>11, Zenon
  <2> QED
    BY <1>a, <1>b, <1>10, <1>12, <2>1, ThirteenNibbles, Zenon
<1>c. d[11] % 2 = r[0][10] % 2
  <2>1. d[11] = z
    BY <1>10
  <2> QED
    BY <1>b, <2>1, Zenon
<1>14. ASSUME NEW q, \A n \in 0..12 : q[0][n] = d[n + 1],
              c.year \in 70..169, ~(h24 /\ c.hour >= 20)
       PROVE  regs_to_calendar("RICOH", q) = c
  <2>1. PICK g : g = q[0]
    OBVIOUS
  <2>2. \A n \in 0..12 : g[n] = d[n + 1]
    BY <1>14, <2>1, Zenon
  <2>3. /\ g[0] = d[1] /\ g[1] = d[2] /\ g[2] = d[3] /\ g[3] = d[4] /\ g[4] = d[5]
        /\ g[5] = d[6] /\ g[7] = d[8] /\ g[8] = d[9] /\ g[9] = d[10]
        /\ g[10] = d[11] /\ g[11] = d[12] /\ g[12] = d[13]
    BY <2>2
  <2>4. /\ d[1] = bcd_lo(c.sec) /\ d[2] = bcd_hi(c.sec) /\ d[3] = bcd_lo(c.min)
        /\ d[4] = bcd_hi(c.min) /\ d[5] = bcd_lo(s) /\ d[6] = x /\ d[8] = bcd_lo(c.mday)
        /\ d[9] = bcd_hi(c.mday) /\ d[10] = bcd_lo(c.mon + 1) /\ d[11] = z
        /\ d[12] = bcd_lo(y) /\ d[13] = bcd_hi(y)
    BY <1>10
  <2>5. /\ from_bcd(g[0], g[1]) = c.sec /\ from_bcd(g[2], g[3]) = c.min
        /\ from_bcd(g[7], g[8]) = c.mday
        /\ from_bcd(g[9], (g[10] \div 2) % 2) = c.mon + 1
        /\ from_bcd(g[11], g[12]) = y
    BY <1>3, <1>8, <1>11, <1>b, <2>3, <2>4
  <2>6. is_24h("RICOH", q) = h24
    <3>1. is_24h("RICOH", q) = HasBit(z, 1)
      BY <2>1, <2>3, <2>4 DEF is_24h
    <3> QED
      BY <1>b, <3>1, Zenon DEF HasBit
  <2>7. hour_read(from_bcd(g[4], g[5] % 2), h24, HasBit(g[5], 2)) = c.hour
    BY <1>12, <1>14, <2>3, <2>4, Zenon
  <2>8. (c.mon + 1) - 1 = c.mon
    BY <1>2
  <2>9. regs_to_calendar("RICOH", q) =
          [sec |-> from_bcd(g[0], g[1]), min |-> from_bcd(g[2], g[3]),
           hour |-> hour_read(from_bcd(g[4], g[5] % 2), h24, HasBit(g[5], 2)),
           mday |-> from_bcd(g[7], g[8]), mon |-> from_bcd(g[9], (g[10] \div 2) % 2) - 1,
           year |-> year_read(from_bcd(g[11], g[12]))]
    BY <2>1, <2>6, Zenon DEF regs_to_calendar
  <2>10. regs_to_calendar("RICOH", q) = [sec |-> c.sec, min |-> c.min, hour |-> c.hour,
            mday |-> c.mday, mon |-> c.mon, year |-> c.year]
    BY <1>8, <1>14, <2>5, <2>7, <2>8, <2>9, Zenon
  <2> QED
    BY <1>1, <2>10, CalendarIsFields, Zenon
<1> QED
  BY <1>1, <1>4, <1>c, <1>13, <1>14, Zenon


-----------------------------------------------------------------------------
(* What refreshing and writing the image keep.                             *)
RtcState == [model: Models, reg: RtcRegs, offset: Int]

(* The digits of a clock are its time, where ImageIsTime says so.          *)
ShowsTime(c, now) ==
    /\ c.model # "NONE" /\ to_calendar(now + c.offset).year \in 70..169
    /\ ~(c.model = "RICOH" /\ is_24h("RICOH", c.reg) /\ to_calendar(now + c.offset).hour >= 20)
    /\ InRange(regs_to_calendar(c.model, c.reg))
    => regs_to_calendar(c.model, c.reg) = to_calendar(now + c.offset)

LEMMA RtcFields ==
    ASSUME NEW c \in RtcState
    PROVE  /\ c.model \in Models /\ c.reg \in RtcRegs /\ c.offset \in Int
           /\ c.reg[0] \in [0..15 -> Nibbles] /\ c.reg[1] \in [0..15 -> Nibbles]
BY DEF RtcState, RtcRegs

LEMMA AlarmKept ==
    ASSUME NEW r \in RtcRegs, NEW ricoh,
           NEW alarm, alarm = [n \in 0..15 |-> IF n <= 12 /\ ricoh
                                  THEN r[1][n] % AlarmMasks[n + 1] ELSE r[1][n]]
    PROVE  alarm \in [0..15 -> Nibbles]
<1>1. \A n \in 0..15 : r[1][n] \in Nibbles
  BY DEF RtcRegs
<1>2. \A n \in 0..12 : AlarmMasks[n + 1] \in 1..16
  <2> DEFINE W == 1..16
  <2>1. 1 \in W /\ 2 \in W /\ 4 \in W /\ 8 \in W /\ 16 \in W
    OBVIOUS
  <2> HIDE DEF W
  <2>2. \A n \in 0..12 : <<1, 1, 16, 8, 16, 4, 8, 16, 4, 1, 2, 4, 1>>[n + 1] \in W
    BY <2>1, ThirteenNibbles
  <2> QED
    BY <2>2, Zenon DEF AlarmMasks, W
<1>3. \A a \in Nibbles, m \in 1..16 : a % m \in Nibbles
  <2> SUFFICES ASSUME NEW a \in Nibbles, NEW m \in 1..16
               PROVE  a % m \in Nibbles
    OBVIOUS
  <2>1. a \in Int /\ m \in Nat \ {0}
    BY DEF Nibbles
  <2>2. a % m \in 0..(m - 1)
    BY <2>1, DivMod
  <2> QED
    BY <2>2 DEF Nibbles
<1>4. ASSUME NEW n \in 0..15
      PROVE  (IF n <= 12 /\ ricoh THEN r[1][n] % AlarmMasks[n + 1] ELSE r[1][n]) \in Nibbles
  <2>1. CASE n <= 12 /\ ricoh
    <3>1. n \in 0..12
      BY <2>1
    <3> QED
      BY <1>1, <1>2, <1>3, <2>1, <3>1, Zenon
  <2>2. CASE ~(n <= 12 /\ ricoh)
    BY <1>1, <2>2, Zenon
  <2> QED
    BY <2>1, <2>2
<1> QED
  BY <1>4, Zenon

LEMMA Refreshed ==
    ASSUME NEW c \in RtcState, NEW now \in Int, NEW e, e = time_to_regs(c, now)
    PROVE  /\ e \in RtcState /\ e.model = c.model /\ e.offset = c.offset
           /\ hostCal => ShowsTime(e, now)
<1>1. /\ c.model \in Models /\ c.reg \in RtcRegs /\ c.offset \in Int
      /\ c.reg[0] \in [0..15 -> Nibbles] /\ c.reg[1] \in [0..15 -> Nibbles]
  BY RtcFields
<1>2. CASE c.model = "NONE" \/ ~hostCal
  <2>1. e = c
    BY <1>2, Zenon DEF time_to_regs
  <2> QED
    BY <1>2, <2>1, Zenon DEF ShowsTime
<1>3. CASE ~(c.model = "NONE" \/ ~hostCal)
  <2>1. PICK r : r = c.reg
    OBVIOUS
  <2>2. PICK t : t = now + c.offset
    OBVIOUS
  <2>3. t \in Int /\ r \in RtcRegs
    BY <1>1, <2>1, <2>2
  <2>4. PICK d : d = IF c.model = "OKI" THEN oki_digits(r, t) ELSE ricoh_digits(r, t)
    OBVIOUS
  <2>5. PICK image : image = [n \in 0..15 |-> IF n <= 12 THEN d[n + 1] ELSE r[0][n]]
    OBVIOUS
  <2>6. PICK alarm : alarm = [n \in 0..15 |-> IF n <= 12 /\ c.model = "RICOH"
                                  THEN r[1][n] % AlarmMasks[n + 1] ELSE r[1][n]]
    OBVIOUS
  <2>7. \A n \in 0..12 : d[n + 1] \in Nibbles
    <3>1. CASE c.model = "OKI"
      BY <2>3, <2>4, <3>1, OkiImage, Zenon
    <3>2. CASE c.model # "OKI"
      BY <2>3, <2>4, <3>2, RicohImage, Zenon
    <3> QED
      BY <3>1, <3>2
  <2>8. image \in [0..15 -> Nibbles]
    <3>1. ASSUME NEW n \in 0..15 PROVE (IF n <= 12 THEN d[n + 1] ELSE r[0][n]) \in Nibbles
      <4>1. CASE n <= 12
        <5>1. n \in 0..12
          BY <4>1
        <5> QED
          BY <2>7, <4>1, <5>1, Zenon
      <4>2. CASE ~(n <= 12)
        BY <1>1, <2>1, <4>2, Zenon
      <4> QED
        BY <4>1, <4>2
    <3> QED
      BY <2>5, <3>1, Zenon
  <2>9. alarm \in [0..15 -> Nibbles]
    BY <2>3, <2>6, AlarmKept, Zenon
  <2>10. PICK q : q = [r EXCEPT ![0] = image, ![1] = alarm]
    OBVIOUS
  <2>11. q \in RtcRegs /\ q[0] = image
    BY <2>3, <2>8, <2>9, <2>10 DEF RtcRegs
  <2>12. e = [c EXCEPT !.reg = q]
    <3>1. e = [c EXCEPT !.reg[0] = image, !.reg[1] = alarm]
      BY <1>3, <2>1, <2>2, <2>4, <2>5, <2>6, Zenon DEF time_to_regs
    <3> QED
      BY <3>1, <2>1, <2>10 DEF RtcState
  <2>13. /\ e \in RtcState /\ e.model = c.model /\ e.offset = c.offset /\ e.reg = q
    BY <2>11, <2>12 DEF RtcState
  <2>14. /\ \A n \in 0..12 : q[0][n] = d[n + 1]
         /\ q[0][15] = r[0][15]
    <3>1. \A n \in 0..12 : n \in 0..15 /\ n <= 12
      OBVIOUS
    <3>2. \A n \in 0..12 : image[n] = d[n + 1]
      BY <2>5, <3>1, Zenon
    <3>3. image[15] = r[0][15]
      BY <2>5
    <3> QED
      BY <2>11, <3>2, <3>3, Zenon
  <2>15. c.model = "OKI" \/ c.model = "RICOH"
    BY <1>1, <1>3 DEF Models
  <2>16. CASE c.model = "OKI"
    <3>1. d = oki_digits(r, t)
      BY <2>4, <2>16
    <3>2. to_calendar(t).year \in 70..169 => regs_to_calendar("OKI", q) = to_calendar(t)
      BY <2>3, <2>14, <3>1, OkiImage, SMTT(60)
    <3> QED
      BY <2>2, <2>13, <2>16, <3>2, Zenon DEF ShowsTime
  <2>17. CASE c.model = "RICOH"
    <3>1. d = ricoh_digits(r, t)
      BY <2>4, <2>17
    <3>2. /\ d[11] % 2 = r[0][10] % 2
          /\ to_calendar(t).year \in 70..169 /\ ~(is_24h("RICOH", r) /\ to_calendar(t).hour >= 20)
             => regs_to_calendar("RICOH", q) = to_calendar(t)
      BY <2>3, <2>14, <3>1, RicohImage, SMTT(60)
    <3>3. is_24h("RICOH", q) <=> is_24h("RICOH", r)
      <4>1. q[0][10] = d[11]
        BY <2>14
      <4>2. q[0][10] \in Nibbles /\ r[0][10] \in Nibbles
        BY <2>3, <2>11 DEF RtcRegs
      <4>3. is_24h("RICOH", q) <=> q[0][10] % 2 = 1
        BY <4>2 DEF is_24h, HasBit, Nibbles
      <4>4. is_24h("RICOH", r) <=> r[0][10] % 2 = 1
        BY <4>2 DEF is_24h, HasBit, Nibbles
      <4> QED
        BY <3>2, <4>1, <4>3, <4>4, Zenon
    <3> QED
      BY <2>2, <2>13, <2>17, <3>2, <3>3, Zenon DEF ShowsTime
  <2> QED
    BY <2>13, <2>15, <2>16, <2>17
<1> QED
  BY <1>2, <1>3

(* A digit of the clock's bank sets the clock to the date of the digits.   *)
LEMMA DigitSets ==
    ASSUME NEW c \in RtcState, NEW now \in Int, c.model # "NONE",
           NEW e, e = regs_to_time(c, now)
    PROVE  /\ e \in RtcState /\ e.model = c.model /\ e.reg = c.reg
           /\ hostCal => ShowsTime(e, now)
<1>1. PICK f : f = regs_to_calendar(c.model, c.reg)
  OBVIOUS
<1>2. PICK t : t = from_calendar(f)
  OBVIOUS
<1>3. /\ c.model \in Models /\ c.reg \in RtcRegs /\ c.offset \in Int
      /\ \A n \in 0..15 : c.reg[0][n] \in Nibbles
  BY RtcFields DEF RtcRegs
<1>4. PICK h24 \in BOOLEAN : h24 = is_24h(c.model, c.reg)
  BY Zenon DEF is_24h, HasBit
<1>5. PICK g : g = c.reg[0]
  OBVIOUS
<1>6. \A n \in 0..15 : g[n] \in Nibbles
  BY <1>3, <1>5, Zenon
<1>7. /\ g[0] \in Nibbles /\ g[1] \in Nibbles /\ g[2] \in Nibbles /\ g[3] \in Nibbles
      /\ g[4] \in Nibbles /\ g[5] \in Nibbles /\ g[6] \in Nibbles /\ g[7] \in Nibbles
      /\ g[8] \in Nibbles /\ g[9] \in Nibbles /\ g[10] \in Nibbles /\ g[11] \in Nibbles
      /\ g[12] \in Nibbles
  BY <1>6
<1>8. \A lo, hi \in Nibbles : from_bcd(lo, hi) \in 0..165
  BY DEF from_bcd, Nibbles
<1>9. \A v \in Nibbles : v % 4 \in Nibbles /\ v % 2 \in Nibbles /\ (v \div 2) % 2 \in Nibbles
  BY DEF Nibbles
<1>10. \A h \in 0..165 : \A pm : hour_read(h, h24, pm) \in Nat
  BY DEF hour_read
<1>11. \A y \in 0..165 : year_read(y) \in Nat /\ year_read(y) >= 70
  BY DEF year_read
<1>12. /\ f = [sec |-> f.sec, min |-> f.min, hour |-> f.hour, mday |-> f.mday,
               mon |-> f.mon, year |-> f.year]
       /\ f.sec \in Nat /\ f.min \in Nat /\ f.hour \in Nat /\ f.mday \in Nat /\ f.mon \in Int
       /\ f.year \in Nat /\ f.year >= 70
  <2>1. CASE c.model = "OKI"
    <3>1. f = [sec |-> from_bcd(g[0], g[1]), min |-> from_bcd(g[2], g[3]),
               hour |-> hour_read(from_bcd(g[4], g[5] % 4), h24, HasBit(g[5], 4)),
               mday |-> from_bcd(g[6], g[7]), mon |-> from_bcd(g[8], g[9]) - 1,
               year |-> year_read(from_bcd(g[10], g[11]))]
      BY <1>1, <1>4, <1>5, <2>1, Zenon DEF regs_to_calendar
    <3>2. /\ from_bcd(g[0], g[1]) \in 0..165 /\ from_bcd(g[2], g[3]) \in 0..165
          /\ from_bcd(g[4], g[5] % 4) \in 0..165 /\ from_bcd(g[6], g[7]) \in 0..165
          /\ from_bcd(g[8], g[9]) \in 0..165 /\ from_bcd(g[10], g[11]) \in 0..165
      BY <1>7, <1>8, <1>9, Zenon
    <3>3. hour_read(from_bcd(g[4], g[5] % 4), h24, HasBit(g[5], 4)) \in Nat
      BY <1>10, <3>2, Zenon
    <3>4. year_read(from_bcd(g[10], g[11])) \in Nat /\ year_read(from_bcd(g[10], g[11])) >= 70
      BY <1>11, <3>2, Zenon
    <3> QED
      BY <3>1, <3>2, <3>3, <3>4
  <2>2. CASE c.model # "OKI"
    <3>1. f = [sec |-> from_bcd(g[0], g[1]), min |-> from_bcd(g[2], g[3]),
               hour |-> hour_read(from_bcd(g[4], g[5] % 2), h24, HasBit(g[5], 2)),
               mday |-> from_bcd(g[7], g[8]), mon |-> from_bcd(g[9], (g[10] \div 2) % 2) - 1,
               year |-> year_read(from_bcd(g[11], g[12]))]
      BY <1>1, <1>4, <1>5, <2>2, Zenon DEF regs_to_calendar
    <3>2. /\ from_bcd(g[0], g[1]) \in 0..165 /\ from_bcd(g[2], g[3]) \in 0..165
          /\ from_bcd(g[4], g[5] % 2) \in 0..165 /\ from_bcd(g[7], g[8]) \in 0..165
          /\ from_bcd(g[9], (g[10] \div 2) % 2) \in 0..165 /\ from_bcd(g[11], g[12]) \in 0..165
      BY <1>7, <1>8, <1>9, Zenon
    <3>3. hour_read(from_bcd(g[4], g[5] % 2), h24, HasBit(g[5], 2)) \in Nat
      BY <1>10, <3>2, Zenon
    <3>4. year_read(from_bcd(g[11], g[12])) \in Nat /\ year_read(from_bcd(g[11], g[12])) >= 70
      BY <1>11, <3>2, Zenon
    <3> QED
      BY <3>1, <3>2, <3>3, <3>4
  <2> QED
    BY <2>1, <2>2
<1>13. t \in Int
  <2>1. SecsPerMin \in Int /\ MinsPerHour \in Int /\ MonthDays \in Int
    BY RtcAssumption
  <2>2. ((f.year - 70) * 12 + f.mon) * MonthDays \in Int
    BY <1>12, <2>1
  <2>3. \A i, j \in Int : i * j \in Int
    OBVIOUS
  <2> DEFINE days == ((f.year - 70) * 12 + f.mon) * MonthDays + f.mday - 1
             hours == days * 24 + f.hour
  <2>4. days \in Int
    BY <1>12, <2>2
  <2> HIDE DEF days
  <2>5. hours \in Int
    BY <1>12, <2>4
  <2> HIDE DEF hours
  <2>6. hours * MinsPerHour + f.min \in Int
    BY <1>12, <2>1, <2>5
  <2>7. (hours * MinsPerHour + f.min) * SecsPerMin + f.sec \in Int
    BY <1>12, <2>1, <2>3, <2>6
  <2> QED
    BY <1>2, <2>7, Zenon DEF from_calendar, hours, days
<1>14. CASE ~hostCal
  BY <1>14, Zenon DEF regs_to_time
<1>15. CASE hostCal /\ t = -1
  <2>1. e = c
    BY <1>1, <1>2, <1>15, Zenon DEF regs_to_time
  <2>2. ~InRange(f)
    <3>1. ASSUME InRange(f) PROVE t \in Nat
      BY <1>2, <1>12, <3>1, CalendarRoundTrip
    <3> QED
      BY <1>15, <3>1
  <2> QED
    BY <1>1, <2>1, <2>2, Zenon DEF ShowsTime
<1>16. CASE hostCal /\ t # -1
  <2>1. e = [c EXCEPT !.offset = t - now]
    BY <1>1, <1>2, <1>16, Zenon DEF regs_to_time
  <2>2. t - now \in Int /\ now + (t - now) = t
    BY <1>13
  <2>3. e \in RtcState /\ e.model = c.model /\ e.reg = c.reg /\ e.offset = t - now
    BY <2>1, <2>2 DEF RtcState
  <2>4. InRange(f) => to_calendar(t) = f
    BY <1>2, <1>12, CalendarRoundTrip
  <2> QED
    BY <1>1, <2>2, <2>3, <2>4, Zenon DEF ShowsTime
<1> QED
  BY <1>14, <1>15, <1>16


-----------------------------------------------------------------------------
(* The inductive invariant: the offset is the one of the last setting,     *)
(* also while there is no clock, and a fresh image is the time.            *)
ClockInv ==
    /\ RtcTypeOK
    /\ anchor \in Int \X Int /\ rtc.offset = anchor[1] - anchor[2]
    /\ fresh /\ hostCal => ShowsTime(rtc, hostNow)

LEMMA DefaultsAreRegs ==
    ASSUME NEW m
    PROVE  model_defaults(m) \in RtcRegs
<1>1. ASSUME NEW b \in 0..3, NEW n \in 0..15
      PROVE  (CASE b = 0 /\ m = "OKI" /\ n = 13   -> 1
                [] b = 0 /\ m = "OKI" /\ n = 15   -> 4
                [] b = 0 /\ m = "RICOH" /\ n = 13 -> 8
                [] OTHER -> 0) \in Nibbles
  BY DEF Nibbles
<1> QED
  BY <1>1, Zenon DEF model_defaults, RtcRegs

(* The clock e is c with a fresh image.                                    *)
FreshOf(c, e, now) ==
    /\ e \in RtcState /\ e.offset = c.offset
    /\ hostCal => ShowsTime(e, now)

LEMMA WithModel ==
    ASSUME NEW c \in RtcState, NEW m \in Models, NEW now \in Int
    PROVE  FreshOf(c, with_model(c, m, now), now)
<1> DEFINE e == with_model(c, m, now)
<1>1. PICK r : r = model_defaults(m)
  OBVIOUS
<1>2. r \in RtcRegs
  BY <1>1, DefaultsAreRegs
<1>3. PICK u : u = [c EXCEPT !.model = m, !.reg = r]
  OBVIOUS
<1>4. u \in RtcState /\ u.offset = c.offset
  BY <1>2, <1>3 DEF RtcState
<1>5. e = time_to_regs(u, now)
  BY <1>1, <1>3, Zenon DEF with_model
<1> HIDE DEF e
<1>6. e \in RtcState /\ e.offset = c.offset /\ (hostCal => ShowsTime(e, now))
  BY <1>4, <1>5, Refreshed, Zenon
<1> QED
  BY <1>6, Zenon DEF FreshOf, e

LEMMA ClockHolds ==
    ASSUME ClockInv
    PROVE  ClockTellsTime
<1>1. /\ rtc \in RtcState /\ hostNow \in Int
      /\ anchor \in Int \X Int /\ rtc.offset = anchor[1] - anchor[2]
      /\ (fresh /\ hostCal => ShowsTime(rtc, hostNow))
  BY Zenon DEF ClockInv, RtcTypeOK, RtcState, RtcRegs
<1>2. rtc.model # "NONE" => rtc_get_time = hostNow + rtc.offset
  BY Zenon DEF rtc_get_time
<1>3. TimeRuns
  <2>1. anchor[1] \in Int /\ anchor[2] \in Int
    BY <1>1
  <2>2. hostNow + rtc.offset = anchor[1] + (hostNow - anchor[2])
    BY <1>1, <2>1
  <2> QED
    BY <1>2, <2>2, Zenon DEF TimeRuns
<1>4. ImageIsTime
  BY <1>1, <1>2, Zenon DEF ImageIsTime, ShowsTime, Representable
<1> QED
  BY <1>3, <1>4, Zenon DEF ClockInv, ClockTellsTime

LEMMA ClockInvInit ==
    ASSUME RtcInit
    PROVE  ClockInv
<1>1. model_defaults("NONE") \in RtcRegs
  BY DefaultsAreRegs
<1>2. hostNow \in Int /\ 0 = hostNow - hostNow
  BY RtcAssumption DEF RtcInit
<1>3. rtc = [model |-> "NONE", reg |-> model_defaults("NONE"), offset |-> 0]
  BY Zenon DEF RtcInit
<1>4. rtc \in RtcState /\ rtc.offset = 0
  BY <1>1, <1>3 DEF RtcState, Models
<1>5. anchor = <<hostNow, hostNow>> /\ fresh = FALSE /\ rtcTicks = 0 /\ rtcOps = 0
      /\ hostCal \in BOOLEAN
  BY Zenon DEF RtcInit
<1>6. anchor \in Int \X Int /\ anchor[1] = hostNow /\ anchor[2] = hostNow
  BY <1>2, <1>5
<1>7. 0 \in 0..MaxTicks /\ 0 \in 0..MaxRtcOps
  BY RtcAssumption
<1> QED
  BY <1>2, <1>4, <1>5, <1>6, <1>7, Zenon DEF ClockInv, RtcTypeOK, RtcState, RtcRegs

(* The step that every operation comes down to.                            *)
LEMMA ClockStep ==
    ASSUME ClockInv, rtc' \in RtcState, hostNow' \in Int, hostCal' = hostCal,
           fresh' \in BOOLEAN, rtcTicks' \in 0..MaxTicks, rtcOps' \in 0..MaxRtcOps,
           anchor' \in Int \X Int, rtc'.offset = anchor'[1] - anchor'[2],
           fresh' /\ hostCal => ShowsTime(rtc', hostNow')
    PROVE  ClockInv'
BY Zenon DEF ClockInv, RtcTypeOK, RtcState, RtcRegs

reg_set(c, b, n, v) == [c EXCEPT !.reg[b][n] = v]

OtherBank(c, b, w) ==
    /\ w \in RtcState /\ w.model = c.model /\ w.offset = c.offset
    /\ b # 0 => w.reg[0] = c.reg[0]

LEMMA RegWritten ==
    ASSUME NEW c \in RtcState, NEW b \in 0..3, NEW n \in 0..15, NEW v \in Nibbles
    PROVE  OtherBank(c, b, reg_set(c, b, n, v))
<1> DEFINE w == reg_set(c, b, n, v)
<1>1. PICK q : q = [c.reg EXCEPT ![b][n] = v]
  OBVIOUS
<1>2. c.reg \in RtcRegs
  BY RtcFields
<1>3. q \in RtcRegs /\ (b # 0 => q[0] = c.reg[0])
  BY <1>1, <1>2 DEF RtcRegs
<1>4. w = [c EXCEPT !.reg = q]
  BY <1>1 DEF RtcState, reg_set
<1> HIDE DEF w
<1>5. /\ w \in RtcState /\ w.model = c.model /\ w.offset = c.offset
      /\ b # 0 => w.reg[0] = c.reg[0]
  BY <1>3, <1>4 DEF RtcState
<1> QED
  BY <1>5, Zenon DEF OtherBank, w

LEMMA ClockInvNext ==
    ASSUME ClockInv, [RtcNext]_rtcVars
    PROVE  ClockInv'
<1>1. /\ rtc \in RtcState /\ hostNow \in Int /\ hostCal \in BOOLEAN /\ fresh \in BOOLEAN
      /\ rtcTicks \in 0..MaxTicks /\ rtcOps \in 0..MaxRtcOps
      /\ anchor \in Int \X Int /\ rtc.offset = anchor[1] - anchor[2]
      /\ (fresh /\ hostCal => ShowsTime(rtc, hostNow))
  BY Zenon DEF ClockInv, RtcTypeOK, RtcState, RtcRegs
<1>2. /\ rtc.model \in Models /\ rtc.reg \in RtcRegs /\ rtc.offset \in Int
  BY <1>1, RtcFields
<1>3. RtcOp => rtcOps' \in 0..MaxRtcOps
  BY <1>1, RtcAssumption DEF RtcOp
<1>4. ASSUME NEW m \in Models, SetModel(m) PROVE ClockInv'
  <2>1. rtc' \in RtcState /\ rtc'.offset = rtc.offset /\ (hostCal => ShowsTime(rtc', hostNow))
    <3>1. rtc' = with_model(rtc, m, hostNow)
      BY <1>4, Zenon DEF SetModel
    <3>2. FreshOf(rtc, with_model(rtc, m, hostNow), hostNow)
      BY <1>1, WithModel, Zenon
    <3> QED
      BY <3>1, <3>2, Zenon DEF FreshOf
  <2>2. /\ hostNow' = hostNow /\ hostCal' = hostCal /\ anchor' = anchor /\ rtcTicks' = rtcTicks
        /\ fresh' = TRUE /\ rtcOps' \in 0..MaxRtcOps
    BY <1>3, <1>4, Zenon DEF SetModel
  <2> QED
    BY <1>1, <2>1, <2>2, ClockStep, Zenon
<1>5. ASSUME ResetRtc PROVE ClockInv'
  <2>1. rtc' = with_model(rtc, rtc.model, hostNow)
    BY <1>5, Zenon DEF ResetRtc, rtc_reset
  <2>2. rtc' \in RtcState /\ rtc'.offset = rtc.offset /\ (hostCal => ShowsTime(rtc', hostNow))
    <3>1. FreshOf(rtc, with_model(rtc, rtc.model, hostNow), hostNow)
      BY <1>1, <1>2, WithModel, Zenon
    <3> QED
      BY <2>1, <3>1, Zenon DEF FreshOf
  <2>3. /\ hostNow' = hostNow /\ hostCal' = hostCal /\ anchor' = anchor /\ rtcTicks' = rtcTicks
        /\ fresh' = TRUE /\ rtcOps' \in 0..MaxRtcOps
    BY <1>3, <1>5, Zenon DEF ResetRtc
  <2> QED
    BY <1>1, <2>2, <2>3, ClockStep, Zenon
<1>6. ASSUME NEW t \in SetTimes, SetTime(t) PROVE ClockInv'
  <2>1. PICK u : u = [rtc EXCEPT !.offset = t - hostNow]
    OBVIOUS
  <2>2. t \in Int /\ t - hostNow \in Int
    BY <1>1, RtcAssumption
  <2>3. u \in RtcState /\ u.offset = t - hostNow
    BY <1>1, <2>1, <2>2 DEF RtcState
  <2>4. rtc' = time_to_regs(u, hostNow)
    BY <1>6, <2>1, Zenon DEF SetTime
  <2>5. rtc' \in RtcState /\ rtc'.offset = t - hostNow /\ (hostCal => ShowsTime(rtc', hostNow))
    BY <1>1, <2>3, <2>4, Refreshed, Zenon
  <2>6. /\ hostNow' = hostNow /\ hostCal' = hostCal /\ rtcTicks' = rtcTicks
        /\ fresh' = TRUE /\ rtcOps' \in 0..MaxRtcOps /\ anchor' = <<t, hostNow>>
    BY <1>3, <1>6, Zenon DEF SetTime
  <2>7. anchor' \in Int \X Int /\ anchor'[1] = t /\ anchor'[2] = hostNow
    BY <1>1, <2>2, <2>6
  <2> QED
    BY <1>1, <2>5, <2>6, <2>7, ClockStep, Zenon
<1>7. ASSUME ReadReg PROVE ClockInv'
  <2>1. rtc' \in RtcState /\ rtc'.offset = rtc.offset /\ (hostCal => ShowsTime(rtc', hostNow))
    BY <1>1, <1>7, Refreshed, Zenon DEF ReadReg
  <2>2. /\ hostNow' = hostNow /\ hostCal' = hostCal /\ anchor' = anchor /\ rtcTicks' = rtcTicks
        /\ fresh' = TRUE /\ rtcOps' = rtcOps
    BY <1>7, Zenon DEF ReadReg
  <2> QED
    BY <1>1, <2>1, <2>2, ClockStep, Zenon
<1>8. ASSUME NEW v \in RtcDigits PROVE rtc_nibble(v) \in Nibbles
  BY RtcAssumption DEF rtc_nibble, Nibbles
<1>10. ASSUME NEW nr \in 0..15, NEW v \in RtcDigits, WriteSpecial(nr, v) PROVE ClockInv'
  <2>1. PICK k \in Nibbles : k = rtc_nibble(v)
    BY <1>8
  <2>2. rtc' = reg_set(rtc, 0, nr, k)
    BY <1>10, <2>1, Zenon DEF WriteSpecial, reg_set
  <2>3. rtc' \in RtcState /\ rtc'.offset = rtc.offset
    <3>1. 0 \in 0..3
      OBVIOUS
    <3>2. OtherBank(rtc, 0, reg_set(rtc, 0, nr, k))
      BY <1>1, <3>1, RegWritten, Zenon
    <3> QED
      BY <2>2, <3>2, Zenon DEF OtherBank
  <2>4. /\ hostNow' = hostNow /\ hostCal' = hostCal /\ anchor' = anchor /\ rtcTicks' = rtcTicks
        /\ fresh' = FALSE /\ rtcOps' \in 0..MaxRtcOps
    BY <1>3, <1>10, Zenon DEF WriteSpecial
  <2> QED
    BY <1>1, <2>3, <2>4, ClockStep, Zenon
<1>11. ASSUME NEW nr \in 0..15, NEW v \in RtcDigits, WriteDigit(nr, v) PROVE ClockInv'
  <2>1. PICK c : c = time_to_regs(rtc, hostNow)
    OBVIOUS
  <2>2. PICK b : b = rtc_bank(c)
    OBVIOUS
  <2>3. PICK k \in Nibbles : k = rtc_nibble(v)
    BY <1>8
  <2>4. PICK w : w = reg_set(c, b, nr, k)
    OBVIOUS
  <2>5. /\ rtc.model # "NONE" /\ rtcOps' \in 0..MaxRtcOps
        /\ rtc' = (IF b = 0 THEN regs_to_time(w, hostNow) ELSE w)
        /\ anchor' = (IF b = 0 THEN <<hostNow + rtc'.offset, hostNow>> ELSE anchor)
        /\ fresh' = TRUE
        /\ hostNow' = hostNow /\ hostCal' = hostCal /\ rtcTicks' = rtcTicks
    BY <1>3, <1>11, <2>1, <2>2, <2>3, <2>4, Zenon DEF WriteDigit, reg_set
  <2>6. /\ c \in RtcState /\ c.model = rtc.model /\ c.offset = rtc.offset
        /\ hostCal => ShowsTime(c, hostNow)
    BY <1>1, <2>1, Refreshed, Zenon
  <2>7. b \in 0..3
    <3>1. c.reg[0][13] \in Nibbles
      BY <2>6 DEF RtcState, RtcRegs
    <3> QED
      BY <2>2, <3>1 DEF rtc_bank, Nibbles
  <2>8. /\ w \in RtcState /\ w.model = c.model /\ w.offset = c.offset
        /\ b # 0 => w.reg[0] = c.reg[0]
    <3>1. OtherBank(c, b, reg_set(c, b, nr, k))
      BY <2>6, <2>7, RegWritten, Zenon
    <3> QED
      BY <2>4, <3>1, Zenon DEF OtherBank
  <2>9. CASE b = 0
    <3>1. hostCal => ShowsTime(rtc', hostNow)
      BY <1>1, <2>5, <2>6, <2>8, <2>9, DigitSets, Zenon
    <3>2. rtc' \in RtcState
      BY <1>1, <2>5, <2>6, <2>8, <2>9, DigitSets, Zenon
    <3>3. rtc'.offset \in Int
      BY <3>2 DEF RtcState
    <3>4. anchor' = <<hostNow + rtc'.offset, hostNow>>
      BY <2>5, <2>9, Zenon
    <3>5. /\ anchor' \in Int \X Int /\ rtc'.offset = anchor'[1] - anchor'[2]
      BY <1>1, <3>3, <3>4
    <3> QED
      BY <1>1, <2>5, <3>1, <3>2, <3>5, ClockStep, Zenon
  <2>10. CASE b # 0
    <3>1. /\ rtc' = w /\ anchor' = anchor
      BY <2>5, <2>10, Zenon
    <3>2. w.reg[0] = c.reg[0]
      BY <2>8, <2>10
    <3>3. /\ \A m : is_24h(m, w.reg) = is_24h(m, c.reg)
          /\ \A m : regs_to_calendar(m, w.reg) = regs_to_calendar(m, c.reg)
      BY <3>2, Zenon DEF is_24h, regs_to_calendar
    <3>4. hostCal => ShowsTime(w, hostNow)
      BY <2>6, <2>8, <3>3, Zenon DEF ShowsTime
    <3> QED
      BY <1>1, <2>5, <2>6, <2>8, <3>1, <3>4, ClockStep, Zenon
  <2> QED
    BY <2>9, <2>10
<1>12. ASSUME NEW n \in Ticks, HostTick(n) PROVE ClockInv'
  <2>1. hostNow' \in Int /\ rtcTicks' \in 0..MaxTicks
    BY <1>1, <1>12, RtcAssumption DEF HostTick
  <2>2. /\ rtc' = rtc /\ hostCal' = hostCal /\ anchor' = anchor /\ rtcOps' = rtcOps
        /\ fresh' = FALSE
    BY <1>12, Zenon DEF HostTick
  <2> QED
    BY <1>1, <2>1, <2>2, ClockStep, Zenon
<1>13. ASSUME UNCHANGED rtcVars PROVE ClockInv'
  <2>1. /\ rtc' = rtc /\ hostCal' = hostCal /\ anchor' = anchor /\ rtcOps' = rtcOps
        /\ fresh' = fresh /\ hostNow' = hostNow /\ rtcTicks' = rtcTicks
    BY <1>13, Zenon DEF rtcVars
  <2> QED
    BY <1>1, <2>1, ClockStep, Zenon
<1> QED
  BY <1>4, <1>5, <1>6, <1>7, <1>10, <1>11, <1>12, <1>13, Zenon DEF RtcNext

(* The registers of the clock are nibbles, it runs with the host's from    *)
(* its last setting through resets, changes of model and a host clock that *)
(* is set back, and its digits are that time whenever they were read or    *)
(* written in this second: for every calendar of two-digit fields, every   *)
(* sequence of digits the guest writes one at a time and every bank it     *)
(* leaves selected.                                                        *)
THEOREM ClockTime == RtcSpec => []ClockTellsTime
<1>1. RtcInit => ClockInv
  BY ClockInvInit
<1>2. ClockInv /\ [RtcNext]_rtcVars => ClockInv'
  BY ClockInvNext
<1>3. ClockInv => ClockTellsTime
  BY ClockHolds
<1> QED
  BY <1>1, <1>2, <1>3, PTL DEF RtcSpec


-----------------------------------------------------------------------------
(* The address map.                                                        *)

(* A board that has a place has one where boards are put.                  *)
Placed ==
    /\ boards["fast"].configured => boards["fast"].base \in Places \cup {32}
    /\ boards["lide"].configured => boards["lide"].base \in Places

(* What was written is where a write now goes, whether or not a read gets  *)
(* there under the overlay.                                                *)
Landed ==
    \A x \in DOMAIN wrote :
        LET cell == write8(x[1], x[2]) IN cell[1] \in Memory => ram[cell] = wrote[x]

MapInv == MapTypeOK /\ Placed /\ Landed /\ named \in Seq(BoardNames)

LEMMA PagesAreNat == Pages \subseteq Nat /\ RamPages \subseteq Pages
<1>1. ChipPages \in Nat /\ SlowPages \in Nat /\ Places \subseteq Nat
  BY HostMapAssumption, ZorroAssumption
<1>2. RamPages \subseteq Nat
  BY <1>1 DEF RamPages, SlowBase
<1>3. {CustomPage, AcPage, RomBase, 191} \subseteq Nat
  BY DEF CustomPage, AcPage, RomBase
<1> QED
  BY <1>2, <1>3, Zenon DEF Pages

(* The RAM a write reaches, if it reaches RAM.                             *)
ToChip(p, o) == p < ChipPages /\ write8(p, o) = <<"chip", p, o>>
ToFast(p, o) == ~(p < ChipPages) /\ owns("fast", p)
                /\ write8(p, o) = <<"fast", p - boards["fast"].base, o>>
ToSlow(p, o) == ~(p < ChipPages) /\ ~owns("fast", p) /\ slow(p)
                /\ write8(p, o) = <<"slow", p - SlowBase, o>>
Elsewhere(p, o) == ~(p < ChipPages) /\ write8(p, o)[1] \notin Memory

LEMMA WriteReaches ==
    ASSUME NEW p, NEW o
    PROVE  ToChip(p, o) \/ ToFast(p, o) \/ ToSlow(p, o) \/ Elsewhere(p, o)
<1>1. CASE p < ChipPages
  BY <1>1, Zenon DEF write8, ToChip
<1>2. CASE ~(p < ChipPages) /\ owns("fast", p)
  BY <1>2, Zenon DEF write8, read8, ToFast
<1>3. CASE ~(p < ChipPages) /\ ~owns("fast", p)
  <2>1. write8(p, o) = read8(p, o)
    BY <1>3, Zenon DEF write8
  <2>2. \/ read8(p, o) = <<"slow", p - SlowBase, o>> /\ slow(p)
        \/ read8(p, o) \in {<<"lide", p - boards["lide"].base, o>>, <<"autoconfig", 0, o>>,
                            <<"cia", p, o>>, <<"custom", 0, o - (o % 2)>>,
                            rom(p, o), <<"open", 0, 0>>}
    BY <1>3, Zenon DEF read8, rom_or_open
  <2>3. read8(p, o)[1] \notin Memory \/ (read8(p, o) = <<"slow", p - SlowBase, o>> /\ slow(p))
    BY <2>2 DEF Memory, rom
  <2> QED
    BY <1>3, <2>1, <2>3, Zenon DEF ToSlow, Elsewhere
<1> QED
  BY <1>1, <1>2, <1>3

LEMMA BoardWindow ==
    ASSUME boards \in [BoardNames -> Board], NEW p, owns("fast", p)
    PROVE  /\ boards["fast"].base \in Nat /\ boards["fast"].configured
           /\ p \in boards["fast"].base..(boards["fast"].base + FastPages - 1)
  BY DEF owns, Board, BoardNames

(* Addresses of RAM and its cells correspond one to one.                   *)
LEMMA CellsExist ==
    ASSUME boards \in [BoardNames -> Board], NEW p \in Nat, NEW o \in Bytes,
           write8(p, o)[1] \in Memory
    PROVE  write8(p, o) \in Cells
<1> USE HostMapAssumption
<1>1. CASE ToChip(p, o)
  <2>1. p \in 0..(ChipPages - 1)
    BY <1>1 DEF ToChip
  <2> QED
    BY <1>1, <2>1 DEF ToChip, Cells
<1>2. CASE ToFast(p, o)
  <2>1. p - boards["fast"].base \in 0..(FastPages - 1)
    BY <1>2, BoardWindow DEF ToFast
  <2> QED
    BY <1>2, <2>1 DEF ToFast, Cells
<1>3. CASE ToSlow(p, o)
  <2>1. p - SlowBase \in 0..(SlowPages - 1)
    BY <1>3 DEF ToSlow, slow, SlowBase
  <2> QED
    BY <1>3, <2>1 DEF ToSlow, Cells
<1> QED
  BY <1>1, <1>2, <1>3, WriteReaches, Zenon DEF Elsewhere

LEMMA OneAddress ==
    ASSUME boards \in [BoardNames -> Board], NEW p \in Nat, NEW o, NEW q \in Nat, NEW r,
           write8(p, o)[1] \in Memory, write8(p, o) = write8(q, r)
    PROVE  p = q /\ o = r
<1>1. ~Elsewhere(p, o) /\ ~Elsewhere(q, r)
  BY Zenon DEF Elsewhere
<1>2. CASE ToChip(p, o)
  <2>1. ~ToFast(q, r) /\ ~ToSlow(q, r)
    BY <1>2 DEF ToChip, ToFast, ToSlow
  <2>2. ToChip(q, r)
    BY <1>1, <2>1, WriteReaches, Zenon
  <2>3. <<"chip", p, o>> = <<"chip", q, r>>
    BY <1>2, <2>2, Zenon DEF ToChip
  <2> QED
    BY <2>3
<1>3. CASE ToFast(p, o)
  <2>1. ~ToChip(q, r) /\ ~ToSlow(q, r)
    BY <1>3 DEF ToChip, ToFast, ToSlow
  <2>2. ToFast(q, r)
    BY <1>1, <2>1, WriteReaches, Zenon
  <2>3. boards["fast"].base \in Nat
    BY <1>3, BoardWindow DEF ToFast
  <2>4. <<"fast", p - boards["fast"].base, o>> = <<"fast", q - boards["fast"].base, r>>
    BY <1>3, <2>2, Zenon DEF ToFast
  <2> QED
    BY <2>3, <2>4
<1>4. CASE ToSlow(p, o)
  <2>1. ~ToChip(q, r) /\ ~ToFast(q, r)
    BY <1>4 DEF ToChip, ToFast, ToSlow
  <2>2. ToSlow(q, r)
    BY <1>1, <2>1, WriteReaches, Zenon
  <2>3. <<"slow", p - SlowBase, o>> = <<"slow", q - SlowBase, r>>
    BY <1>4, <2>2, Zenon DEF ToSlow
  <2> QED
    BY <2>3 DEF SlowBase
<1> QED
  BY <1>1, <1>2, <1>3, <1>4, WriteReaches, Zenon

-----------------------------------------------------------------------------
(* What a write does to RAM and to the record of what was written.         *)

LEMMA StoreLands ==
    ASSUME NEW mem \in [Cells -> MapValues \cup {0}], NEW cell, NEW v \in MapValues,
           cell[1] \in Memory => cell \in Cells
    PROVE  /\ Store(mem, cell, v) \in [Cells -> MapValues \cup {0}]
           /\ cell[1] \in Memory => Store(mem, cell, v)[cell] = v
           /\ \A c \in Cells : c # cell => Store(mem, cell, v)[c] = mem[c]
<1>1. CASE cell[1] \in Memory
  <2>1. Store(mem, cell, v) = [mem EXCEPT ![cell] = v]
    BY <1>1, Zenon DEF Store
  <2> QED
    BY <1>1, <2>1
<1>2. CASE cell[1] \notin Memory
  <2>1. Store(mem, cell, v) = mem
    BY <1>2, Zenon DEF Store
  <2> QED
    BY <1>2, <2>1
<1> QED
  BY <1>1, <1>2

(* A further byte keeps the bytes written so far where they are.           *)
LandedIn(mem, w) ==
    \A x \in DOMAIN w :
        LET cell == write8(x[1], x[2]) IN cell[1] \in Memory => mem[cell] = w[x]

With(w, p, o, v) == [x \in DOMAIN w \cup {<<p, o>>} |-> IF x = <<p, o>> THEN v ELSE w[x]]

LEMMA ByteLands ==
    ASSUME boards \in [BoardNames -> Board],
           NEW mem \in [Cells -> MapValues \cup {0}], NEW w,
           DOMAIN w \subseteq Pages \X Bytes, LandedIn(mem, w),
           NEW p \in Pages, NEW o \in Bytes, NEW v \in MapValues
    PROVE  /\ Store(mem, write8(p, o), v) \in [Cells -> MapValues \cup {0}]
           /\ DOMAIN With(w, p, o, v) \subseteq Pages \X Bytes
           /\ LandedIn(Store(mem, write8(p, o), v), With(w, p, o, v))
<1>1. p \in Nat
  BY PagesAreNat
<1>2. write8(p, o)[1] \in Memory => write8(p, o) \in Cells
  BY <1>1, CellsExist
<1>3. /\ Store(mem, write8(p, o), v) \in [Cells -> MapValues \cup {0}]
      /\ write8(p, o)[1] \in Memory => Store(mem, write8(p, o), v)[write8(p, o)] = v
      /\ \A c \in Cells : c # write8(p, o) => Store(mem, write8(p, o), v)[c] = mem[c]
  BY <1>2, StoreLands
<1>4. DOMAIN With(w, p, o, v) = DOMAIN w \cup {<<p, o>>}
  BY DEF With
<1>5. DOMAIN With(w, p, o, v) \subseteq Pages \X Bytes
  BY <1>4
<1>6. ASSUME NEW x \in DOMAIN With(w, p, o, v), write8(x[1], x[2])[1] \in Memory
      PROVE  Store(mem, write8(p, o), v)[write8(x[1], x[2])] = With(w, p, o, v)[x]
  <2>1. CASE x = <<p, o>>
    <3>1. x[1] = p /\ x[2] = o
      BY <2>1
    <3>2. With(w, p, o, v)[x] = v
      BY <2>1, <1>4 DEF With
    <3> QED
      BY <1>3, <1>6, <3>1, <3>2, Zenon
  <2>2. CASE x # <<p, o>>
    <3>1. x \in DOMAIN w /\ x \in Pages \X Bytes
      BY <1>4, <1>5, <1>6, <2>2
    <3>a. x[1] \in Pages /\ x[2] \in Bytes /\ x = <<x[1], x[2]>>
      BY <3>1
    <3>2. x[1] \in Nat /\ x[2] \in Bytes /\ x = <<x[1], x[2]>>
      BY <3>a, PagesAreNat, Zenon
    <3>3. ASSUME write8(x[1], x[2]) = write8(p, o) PROVE FALSE
      <4>1. x[1] = p /\ x[2] = o
        BY <1>1, <1>6, <3>2, <3>3, OneAddress
      <4> QED
        BY <2>2, <3>2, <4>1, Zenon
    <3>4. write8(x[1], x[2]) \in Cells
      BY <1>6, <3>2, CellsExist
    <3>5. With(w, p, o, v)[x] = w[x]
      BY <2>2, <3>1, Zenon DEF With
    <3>6. mem[write8(x[1], x[2])] = w[x]
      BY <1>6, <3>1, Zenon DEF LandedIn
    <3> QED
      BY <1>3, <3>3, <3>4, <3>5, <3>6, Zenon
  <2> QED
    BY <2>1, <2>2
<1> QED
  BY <1>3, <1>5, <1>6, Zenon DEF LandedIn

-----------------------------------------------------------------------------
(* Reads against writes, and words against bytes.                          *)

LEMMA SeenAsWritten ==
    ASSUME boards \in [BoardNames -> Board], Placed, NEW p \in Nat, NEW o,
           read8(p, o)[1] \in Memory
    PROVE  read8(p, o) = write8(p, o) /\ peek(p, o) = read8(p, o)
<1>1. CASE p < ChipPages
  <2>1. read8(p, o) = IF ovl THEN rom(p, o) ELSE <<"chip", p, o>>
    BY <1>1, Zenon DEF read8
  <2>2. rom(p, o)[1] \notin Memory
    BY DEF rom, Memory
  <2>3. read8(p, o) = <<"chip", p, o>> /\ ~ovl
    BY <2>1, <2>2, Zenon
  <2> QED
    BY <1>1, <2>3, Zenon DEF write8, peek
<1>2. CASE ~(p < ChipPages)
  <2>1. write8(p, o) = read8(p, o)
    BY <1>2, Zenon DEF write8
  <2>2. ToFast(p, o) \/ ToSlow(p, o)
    BY <1>2, <2>1, WriteReaches, Zenon DEF ToChip, Elsewhere
  <2>3. CASE ToFast(p, o)
    <3>1. /\ boards["fast"].base \in Places \cup {32}
          /\ p \in boards["fast"].base..(boards["fast"].base + FastPages - 1)
      BY <2>3, BoardWindow DEF ToFast, Placed
    <3>2. \A v \in Places \cup {32} : \A q \in v..(v + FastPages - 1) :
             q \notin SlowBase..(SlowBase + SlowPages - 1)
      BY ZorroAssumption, Zenon
    <3>a. p \notin SlowBase..(SlowBase + SlowPages - 1)
      BY <3>1, <3>2, Zenon
    <3>b. ~slow(p)
      BY <3>a, Zenon DEF slow
    <3> QED
      BY <1>2, <2>1, <2>3, <3>b, Zenon DEF ToFast, peek
  <2>4. CASE ToSlow(p, o)
    BY <1>2, <2>1, <2>4, Zenon DEF ToSlow, peek
  <2> QED
    BY <2>2, <2>3, <2>4
<1> QED
  BY <1>1, <1>2

LEMMA WordsAreOne ==
    ASSUME boards \in [BoardNames -> Board], Placed
    PROVE  WordIsOneAccess
<1> SUFFICES ASSUME NEW p \in Pages, NEW o \in Offsets, read8(p, o)[1] \in {"lide", "custom"}
             PROVE  /\ one_access(p) /\ read16(p, o) = read8(p, o)
                    /\ write16(p, o, 0) = read8(p, o)
  BY DEF WordIsOneAccess
<1>1. p \in Nat /\ o \in Nat /\ o % 2 = 0
  BY PagesAreNat, HostMapAssumption
<1>2. CASE p < ChipPages
  <2>1. read8(p, o) \in {rom(p, o), <<"chip", p, o>>}
    BY <1>2, Zenon DEF read8
  <2> QED
    BY <2>1 DEF rom
<1>3. CASE ~(p < ChipPages) /\ owns("fast", p)
  <2>1. read8(p, o) = <<"fast", p - boards["fast"].base, o>>
    BY <1>3, Zenon DEF read8
  <2> QED
    BY <2>1
<1>4. CASE ~(p < ChipPages) /\ ~owns("fast", p) /\ owns("lide", p)
  <2>1. /\ boards["lide"].base \in Places
        /\ p \in boards["lide"].base..(boards["lide"].base + LidePages - 1)
    BY <1>4 DEF owns, Placed
  <2>a. \A v \in Places : CustomPage \notin v..(v + LidePages - 1)
    BY ZorroAssumption, Zenon
  <2>b. CustomPage \notin boards["lide"].base..(boards["lide"].base + LidePages - 1)
    BY <2>1, <2>a, Zenon
  <2>2. p # CustomPage
    BY <2>1, <2>b, Zenon
  <2>3. one_access(p) /\ read16(p, o) = read8(p, o)
    BY <1>4, <2>2, Zenon DEF one_access, read16
  <2>4. read8(p, o) = <<"lide", p - boards["lide"].base, o>>
    BY <1>4, Zenon DEF read8
  <2>5. write16(p, o, 0) = <<"lide", p - boards["lide"].base, o + 0>>
    BY <1>4, <2>2, Zenon DEF write16
  <2>6. o + 0 = o
    BY <1>1
  <2> QED
    BY <2>3, <2>4, <2>5, <2>6, Zenon
<1>5. CASE ~(p < ChipPages) /\ ~owns("fast", p) /\ ~owns("lide", p)
  <2>1. \/ p = CustomPage /\ read8(p, o) = <<"custom", 0, o - (o % 2)>>
        \/ read8(p, o) \in {<<"autoconfig", 0, o>>, <<"cia", p, o>>,
                            <<"slow", p - SlowBase, o>>, rom(p, o), <<"open", 0, 0>>}
    BY <1>5, Zenon DEF read8, rom_or_open
  <2>2. p = CustomPage /\ read8(p, o) = <<"custom", 0, o - (o % 2)>>
    BY <2>1 DEF rom
  <2>3. o - (o % 2) = o
    BY <1>1
  <2> QED
    BY <2>2, <2>3, Zenon DEF one_access, read16, write16
<1> QED
  BY <1>2, <1>3, <1>4, <1>5

LEMMA MapInvSuffices ==
    ASSUME MapInv
    PROVE  MapTypeOK /\ WrittenIsRead /\ WordIsOneAccess
<1>1. boards \in [BoardNames -> Board] /\ Placed /\ DOMAIN wrote \subseteq Pages \X Bytes
  BY Zenon DEF MapInv, MapTypeOK
<1>2. ASSUME NEW x \in DOMAIN wrote, read8(x[1], x[2])[1] \in Memory
      PROVE  ram[read8(x[1], x[2])] = wrote[x] /\ peek(x[1], x[2]) = read8(x[1], x[2])
  <2>1. x \in Pages \X Bytes
    BY <1>1, <1>2
  <2>2. x[1] \in Nat
    BY <2>1, PagesAreNat
  <2>3. read8(x[1], x[2]) = write8(x[1], x[2]) /\ peek(x[1], x[2]) = read8(x[1], x[2])
    BY <1>1, <1>2, <2>2, SeenAsWritten
  <2> QED
    BY <1>2, <2>3, Zenon DEF MapInv, Landed
<1>3. WrittenIsRead
  BY <1>2, Zenon DEF WrittenIsRead
<1> QED
  BY <1>1, <1>3, WordsAreOne, Zenon DEF MapInv

-----------------------------------------------------------------------------
(* Outside the page of the registers the decoder of words sends each byte  *)
(* where the decoder of bytes does.                                        *)
LEMMA WordsAreBytes ==
    ASSUME NEW p \in RamPages, NEW o \in Offsets
    PROVE  write16(p, o, 0) = write8(p, o) /\ write16(p, o, 1) = write8(p, o + 1)
<1>1. p # CustomPage
  BY ZorroAssumption, Zenon DEF RamPages
<1>2. o + 0 = o
  BY HostMapAssumption
<1>3. ASSUME NEW i PROVE write16(p, o, i) = write8(p, o + i)
  BY <1>1, Zenon DEF write16, write8, read8
<1> QED
  BY <1>2, <1>3, Zenon

(* The steps.                                                              *)

LEMMA MapInitSound == MapInit => MapInv
<1> SUFFICES ASSUME MapInit PROVE MapInv
  OBVIOUS
<1> DEFINE New == [plugged: BOOLEAN, configured: {FALSE}, shutup: {FALSE}, base: {0}]
<1>a. boards \in [BoardNames -> New]
  BY DEF MapInit
<1>b. \A b \in New : b \in Board /\ ~b.configured
  <2> TAKE b \in New
  <2>1. /\ b.plugged \in BOOLEAN /\ b.configured = FALSE /\ b.shutup = FALSE /\ b.base = 0
        /\ b = [plugged |-> b.plugged, configured |-> b.configured,
                shutup |-> b.shutup, base |-> b.base]
    OBVIOUS
  <2> HIDE DEF New
  <2>a. b.configured \in BOOLEAN /\ b.shutup \in BOOLEAN /\ ~b.configured
    BY <2>1, Zenon
  <2>b. b.base \in Nat
    BY <2>1
  <2>3. [plugged |-> b.plugged, configured |-> b.configured,
         shutup |-> b.shutup, base |-> b.base] \in Board
    BY <2>1, <2>a, <2>b, Zenon DEF Board
  <2> QED
    BY <2>1, <2>a, <2>3, Zenon
<1>1. /\ boards \in [BoardNames -> Board]
      /\ \A n \in BoardNames : ~boards[n].configured
  <2> HIDE DEF New
  <2> QED
    BY <1>a, <1>b
<1>2. ram \in [Cells -> MapValues \cup {0}] /\ ovl \in BOOLEAN /\ exec_mode \in BOOLEAN
  BY DEF MapInit
<1>3. DOMAIN wrote = {} /\ DOMAIN named = {}
  BY DEF MapInit
<1>4. Placed
  BY <1>1 DEF Placed, BoardNames
<1>5. named \in Seq(BoardNames)
  BY DEF MapInit
<1> QED
  BY <1>1, <1>2, <1>3, <1>4, <1>5, Zenon DEF MapInv, MapTypeOK, Landed

(* Only a board that takes a place changes where writes go.                *)
LEMMA WriteSame ==
    ASSUME boards' = boards, NEW p, NEW o
    PROVE  write8(p, o)' = write8(p, o)
<1>1. CASE p < ChipPages
  BY <1>1, Zenon DEF write8
<1>2. CASE ~(p < ChipPages)
  <2>1. owns("fast", p)' = owns("fast", p) /\ owns("lide", p)' = owns("lide", p)
    BY DEF owns
  <2>2. answering' = answering
    BY DEF answering, pending
  <2> QED
    BY <1>2, <2>1, <2>2, Zenon DEF write8, read8, slow, rom_or_open, rom
<1> QED
  BY <1>1, <1>2

LEMMA BoardsSame ==
    ASSUME MapInv, boards' = boards, named' = named,
           ovl' \in BOOLEAN, exec_mode' \in BOOLEAN,
           ram' \in [Cells -> MapValues \cup {0}], DOMAIN wrote' \subseteq Pages \X Bytes,
           LandedIn(ram', wrote')
    PROVE  MapInv'
<1>1. Landed'
  BY WriteSame, Zenon DEF Landed, LandedIn
<1>2. Placed'
  BY DEF MapInv, Placed
<1>3. MapTypeOK' /\ named' \in Seq(BoardNames)
  BY DEF MapInv, MapTypeOK, pending
<1> QED
  BY <1>1, <1>2, <1>3, Zenon DEF MapInv

LEMMA WritesKeep ==
    ASSUME MapInv, NEW p \in RamPages, NEW o \in Offsets, NEW v \in MapValues,
           \/ WriteByte(p, o, v) \/ WriteByte(p, o + 1, v)
           \/ \E lo \in MapValues : WriteWord(p, o, v, lo)
    PROVE  MapInv' /\ boards' = boards
<1>1. p \in Pages /\ o \in Bytes /\ o + 1 \in Bytes
  BY PagesAreNat DEF Bytes
<1>2. /\ boards \in [BoardNames -> Board] /\ ram \in [Cells -> MapValues \cup {0}]
      /\ DOMAIN wrote \subseteq Pages \X Bytes /\ LandedIn(ram, wrote)
      /\ ovl \in BOOLEAN /\ exec_mode \in BOOLEAN
  BY Zenon DEF MapInv, MapTypeOK, Landed, LandedIn
<1>3. ASSUME NEW b \in Bytes, WriteByte(p, b, v)
      PROVE  MapInv' /\ boards' = boards
  <2>1. /\ ram' = Store(ram, write8(p, b), v) /\ wrote' = With(wrote, p, b, v)
        /\ boards' = boards /\ named' = named /\ ovl' = ovl /\ exec_mode' = exec_mode
    BY <1>3, Zenon DEF WriteByte, With
  <2>2. /\ ram' \in [Cells -> MapValues \cup {0}] /\ DOMAIN wrote' \subseteq Pages \X Bytes
        /\ LandedIn(ram', wrote')
    BY <1>1, <1>2, <2>1, ByteLands
  <2> QED
    BY <1>2, <2>1, <2>2, BoardsSame
<1>4. ASSUME NEW lo \in MapValues, WriteWord(p, o, v, lo)
      PROVE  MapInv' /\ boards' = boards
  <2>1. /\ ram' = Store(Store(ram, write8(p, o), v), write8(p, o + 1), lo)
        /\ wrote' = Note(p, o, v, lo)
        /\ boards' = boards /\ named' = named /\ ovl' = ovl /\ exec_mode' = exec_mode
    BY <1>4, WordsAreBytes, Zenon DEF WriteWord
  <2> DEFINE w == With(wrote, p, o, v)
             m == Store(ram, write8(p, o), v)
  <2>2. m \in [Cells -> MapValues \cup {0}] /\ DOMAIN w \subseteq Pages \X Bytes /\ LandedIn(m, w)
    BY <1>1, <1>2, ByteLands
  <2>3. wrote' = With(w, p, o + 1, lo)
    <3>1. o # o + 1
      BY HostMapAssumption
    <3>2. <<p, o>> # <<p, o + 1>>
      BY <3>1
    <3>3. DOMAIN With(w, p, o + 1, lo) = DOMAIN wrote \cup {<<p, o>>, <<p, o + 1>>}
      BY DEF With
    <3>4. ASSUME NEW x \in DOMAIN wrote \cup {<<p, o>>, <<p, o + 1>>}
          PROVE  With(w, p, o + 1, lo)[x] = Note(p, o, v, lo)[x]
      BY <3>2 DEF With, Note
    <3> QED
      BY <2>1, <3>3, <3>4 DEF With, Note
  <2> HIDE DEF w, m
  <2>4. /\ Store(m, write8(p, o + 1), lo) \in [Cells -> MapValues \cup {0}]
        /\ DOMAIN With(w, p, o + 1, lo) \subseteq Pages \X Bytes
        /\ LandedIn(Store(m, write8(p, o + 1), lo), With(w, p, o + 1, lo))
    BY <1>1, <1>2, <2>2, ByteLands
  <2>5. /\ ram' \in [Cells -> MapValues \cup {0}] /\ DOMAIN wrote' \subseteq Pages \X Bytes
        /\ LandedIn(ram', wrote')
    BY <2>1, <2>3, <2>4, Zenon DEF m
  <2> QED
    BY <1>2, <2>1, <2>5, BoardsSame
<1> QED
  BY <1>1, <1>3, <1>4

(* Boards take their turn.                                                 *)
InTurn ==
    /\ Cardinality({n \in BoardNames : boards'[n] # boards[n]}) = 1
    /\ boards'["lide"] # boards["lide"] => ~pending("fast")
    /\ \A n \in BoardNames : boards[n].configured => boards'[n] = boards[n]

LEMMA BoardTaken ==
    ASSUME MapInv, NEW m \in BoardNames, ~boards[m].configured,
           NEW b \in Board, b # boards[m], boards' = [boards EXCEPT ![m] = b],
           m = "lide" => ~pending("fast"), b.configured \/ b.shutup,
           b.configured => b.base \in Places \/ (m = "fast" /\ b.base = 32),
           named' = named \/ (pending(m) /\ named' = Append(named, m)),
           wrote' = <<>>, ovl' \in BOOLEAN, exec_mode' \in BOOLEAN, ram' = ram
    PROVE  MapInv' /\ InTurn
<1>1. boards \in [BoardNames -> Board]
  BY Zenon DEF MapInv, MapTypeOK
<1>2. \A n \in BoardNames : boards'[n] = IF n = m THEN b ELSE boards[n]
  BY <1>1
<1>3. {n \in BoardNames : boards'[n] # boards[n]} = {m}
  BY <1>2
<1>4. InTurn
  BY <1>2, <1>3, FS_Singleton DEF InTurn, BoardNames
<1>5. boards' \in [BoardNames -> Board]
  BY <1>1
<1>6. Placed'
  BY <1>2 DEF MapInv, Placed, BoardNames
<1>7. \A n \in BoardNames : pending(n)' => pending(n) /\ n # m
  BY <1>2 DEF pending
<1>8. /\ named' \in Seq(BoardNames)
      /\ \A i, j \in DOMAIN named' : i # j => named'[i] # named'[j]
      /\ (\A i \in DOMAIN named : ~pending(named[i]))'
  <2>1. /\ named \in Seq(BoardNames)
        /\ \A i, j \in DOMAIN named : i # j => named[i] # named[j]
        /\ \A i \in DOMAIN named : named[i] \in BoardNames /\ ~pending(named[i])
    BY DEF MapInv, MapTypeOK
  <2>2. CASE named' = named
    <3>1. \A i \in DOMAIN named : ~pending(named[i])'
      BY <1>7, <2>1, <2>2, Zenon
    <3> QED
      BY <2>1, <2>2, <3>1, Zenon
  <2>3. CASE pending(m) /\ named' = Append(named, m)
    <3>1. /\ named' \in Seq(BoardNames) /\ DOMAIN named' = DOMAIN named \cup {Len(named) + 1}
          /\ named'[Len(named) + 1] = m
          /\ \A i \in DOMAIN named : named'[i] = named[i]
      BY <2>1, <2>3, AppendProperties
    <3>2. \A i \in DOMAIN named : named[i] # m
      BY <2>1, <2>3, Zenon
    <3>3. ~pending(m)'
      BY <1>7, Zenon
    <3>4. (\A i \in DOMAIN named : ~pending(named[i]))'
      <4> SUFFICES ASSUME NEW i \in DOMAIN named' PROVE ~(pending(named[i])')
        OBVIOUS
      <4>1. i \in DOMAIN named \/ named'[i] = m
        BY <3>1
      <4>2. ASSUME NEW n \in BoardNames, ~pending(n), named'[i] = n PROVE ~(pending(named[i])')
        <5>1. ~(pending(n)')
          BY <1>7, <4>2, Zenon
        <5> QED
          BY <4>2, <5>1, Zenon DEF pending
      <4>3. CASE i \in DOMAIN named
        BY <2>1, <3>1, <4>2, <4>3, Zenon
      <4>4. CASE named'[i] = m
        BY <3>3, <4>4, Zenon DEF pending
      <4> QED
        BY <4>1, <4>3, <4>4
    <3>5. \A i, j \in DOMAIN named' : i # j => named'[i] # named'[j]
      BY <2>1, <3>1, <3>2, ZenonT(60)
    <3> QED
      BY <3>1, <3>4, <3>5
  <2> QED
    BY <2>2, <2>3
<1>9. DOMAIN wrote' = {} /\ ram' \in [Cells -> MapValues \cup {0}]
  BY DEF MapInv, MapTypeOK
<1> QED
  BY <1>4, <1>5, <1>6, <1>8, <1>9, Zenon DEF MapInv, MapTypeOK, Landed

LEMMA AutoconfigKeeps ==
    ASSUME MapInv, NEW o, NEW v, Autoconfig(o, v),
           (o = BASE_HI /\ v \in Places) \/ o = SHUTUP
    PROVE  MapInv' /\ InTurn
<1>1. PICK m \in BoardNames : answering = {m} /\ pending(m) /\ (m = "lide" => ~pending("fast"))
  BY DEF Autoconfig, answering, BoardNames
<1>2. boards \in [BoardNames -> Board] /\ named \in Seq(BoardNames)
  BY Zenon DEF MapInv, MapTypeOK
<1> DEFINE b == ac_write(boards[m], o, v)
<1>3. boards' = [boards EXCEPT ![m] = b]
  <2>1. boards' = [n \in BoardNames |-> IF n \in {m} THEN b ELSE boards[n]]
    BY <1>1, Zenon DEF Autoconfig, autoconfig_write
  <2> QED
    BY <1>2, <2>1
<1>4. /\ b \in Board /\ (b.configured \/ b.shutup) /\ (b.configured => b.base \in Places)
      /\ ~boards[m].configured
  <2>1. boards[m] \in Board /\ ~boards[m].configured
    BY <1>1, <1>2 DEF pending
  <2>2. Places \subseteq Nat
    BY ZorroAssumption
  <2>3. CASE o = BASE_HI /\ v \in Places
    <3>1. b = [boards[m] EXCEPT !.base = v, !.configured = TRUE]
      BY <2>3, Zenon DEF ac_write
    <3> QED
      BY <2>1, <2>2, <2>3, <3>1 DEF Board
  <2>4. CASE o = SHUTUP
    <3>1. b = [boards[m] EXCEPT !.shutup = TRUE]
      BY <2>4 DEF ac_write, BASE_HI, SHUTUP
    <3> QED
      BY <2>1, <3>1 DEF Board
  <2> QED
    BY <2>3, <2>4
<1>5. b # boards[m]
  BY <1>1, <1>4, Zenon DEF pending
<1>6. named' = Append(named, m)
  <2>1. Cardinality({m}) = 1 /\ (CHOOSE n \in {m} : TRUE) = m
    BY FS_Singleton
  <2>2. named' = named \o [i \in 1..1 |-> m]
    BY <1>1, <2>1 DEF Autoconfig
  <2>3. [i \in 1..1 |-> m] = <<m>>
    OBVIOUS
  <2> QED
    BY <1>2, <2>2, <2>3
<1>7. wrote' = <<>> /\ ram' = ram /\ ovl' \in BOOLEAN /\ exec_mode' \in BOOLEAN
  BY Zenon DEF Autoconfig, MapInv, MapTypeOK
<1> HIDE DEF b
<1> QED
  BY <1>1, <1>3, <1>4, <1>5, <1>6, <1>7, BoardTaken

LEMMA ForceKeeps ==
    ASSUME MapInv, ForceConfigure
    PROVE  MapInv' /\ InTurn
<1>1. boards \in [BoardNames -> Board] /\ "fast" \in BoardNames /\ "fast" # "lide"
  BY DEF MapInv, MapTypeOK, BoardNames
<1> DEFINE b == [boards["fast"] EXCEPT !.base = 32, !.configured = TRUE]
<1>2. /\ b \in Board /\ b.configured /\ b.base = 32 /\ ~boards["fast"].configured
      /\ boards' = [boards EXCEPT !["fast"] = b]
  BY <1>1 DEF ForceConfigure, Board
<1>3. b # boards["fast"]
  BY <1>2
<1>4. /\ named' = named \/ (pending("fast") /\ named' = Append(named, "fast"))
      /\ wrote' = <<>> /\ ram' = ram
  BY Zenon DEF ForceConfigure
<1>5. ovl' \in BOOLEAN /\ exec_mode' \in BOOLEAN
  BY DEF ForceConfigure
<1> HIDE DEF b
<1> QED
  BY <1>1, <1>2, <1>3, <1>4, <1>5, BoardTaken

LEMMA MapStep ==
    ASSUME MapInv, [MapNext]_mapVars
    PROVE  MapInv' /\ (boards' # boards => InTurn)
<1>1. ASSUME NEW p \in RamPages, NEW o \in Offsets, NEW v \in MapValues,
             \/ WriteByte(p, o, v) \/ WriteByte(p, o + 1, v)
             \/ \E lo \in MapValues : WriteWord(p, o, v, lo)
      PROVE  MapInv' /\ (boards' # boards => InTurn)
  BY <1>1, WritesKeep, Zenon
<1>2. ASSUME NEW v \in Places, Autoconfig(BASE_HI, v)
      PROVE  MapInv' /\ (boards' # boards => InTurn)
  BY <1>2, AutoconfigKeeps, Zenon
<1>3. CASE Autoconfig(SHUTUP, 0)
  BY <1>3, AutoconfigKeeps, Zenon
<1>4. CASE ForceConfigure
  BY <1>4, ForceKeeps, Zenon
<1>5. CASE SwitchOverlay \/ UNCHANGED mapVars
  <2>1. /\ boards' = boards /\ named' = named /\ ram' = ram /\ wrote' = wrote
        /\ ovl' = ovl \/ ovl' = ~ovl
        /\ exec_mode' = exec_mode
    BY <1>5 DEF SwitchOverlay, mapVars
  <2>2. /\ ram \in [Cells -> MapValues \cup {0}] /\ DOMAIN wrote \subseteq Pages \X Bytes
        /\ LandedIn(ram, wrote) /\ ovl \in BOOLEAN /\ exec_mode \in BOOLEAN
    BY Zenon DEF MapInv, MapTypeOK, Landed, LandedIn
  <2>3. ovl' \in BOOLEAN
    BY <2>1, <2>2, Zenon
  <2> QED
    BY <2>1, <2>2, <2>3, BoardsSame, Zenon
<1>6. CASE LoadHunk
  <2>a. /\ boards' = boards /\ named' = named /\ ram' = ram /\ wrote' = <<>>
        /\ ovl' \in BOOLEAN /\ exec_mode' \in BOOLEAN
    BY <1>6, Zenon DEF LoadHunk
  <2>1. DOMAIN wrote' = {}
    BY <2>a
  <2>2. ram \in [Cells -> MapValues \cup {0}]
    BY Zenon DEF MapInv, MapTypeOK
  <2>3. DOMAIN wrote' \subseteq Pages \X Bytes /\ LandedIn(ram', wrote')
    BY <2>1, Zenon DEF LandedIn
  <2> QED
    BY <2>a, <2>2, <2>3, BoardsSame, Zenon
<1> QED
  BY <1>1, <1>2, <1>3, <1>4, <1>5, <1>6, Zenon DEF MapNext

(* One device answers each address of the 68000 (harness_read8, _write16,  *)
(* _peek16): RAM returns what was last written there, through bytes or     *)
(* words, the overlay and the debugger's view; a word reaches a device     *)
(* with side effects once; and the boards take their places in turn.       *)
THEOREM MapIsHonest == MapSpec => MapHonest
<1>1. MapSpec => []MapInv
  <2>1. MapInit => MapInv
    BY MapInitSound
  <2>2. MapInv /\ [MapNext]_mapVars => MapInv'
    BY MapStep
  <2> QED
    BY <2>1, <2>2, PTL DEF MapSpec
<1>2. MapInv => MapTypeOK /\ WrittenIsRead /\ WordIsOneAccess
  BY MapInvSuffices
<1>3. MapInv /\ [MapNext]_mapVars =>
        [boards' # boards =>
           /\ Cardinality({n \in BoardNames : boards'[n] # boards[n]}) = 1
           /\ boards'["lide"] # boards["lide"] => ~pending("fast")
           /\ \A n \in BoardNames : boards[n].configured => boards'[n] = boards[n]]_mapVars
  BY MapStep, Zenon DEF InTurn
<1>4. MapSpec => BoardsInTurn
  BY <1>1, <1>3, PTL DEF MapSpec, BoardsInTurn
<1> QED
  BY <1>1, <1>2, <1>4, PTL DEF MapHonest
=============================================================================

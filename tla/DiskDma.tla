------------------------------ MODULE DiskDma ------------------------------
(***************************************************************************)
(* Paula's disk controller: the two writes to DSKLEN that start a read,    *)
(* the word-by-word transfer in the slots Agnus grants, the sync mark, and *)
(* the interrupts DSKSYN and DSKBLK.                                       *)
(* src/src/chipset/paula/disk.c, src/src/domains/disk/disk_domain.c, and   *)
(* the disk part of src/src/chipset/agnus/timing/slot_scheduler.c          *)
(*                                                                         *)
(* The unit is the 16-bit word.  Word i of track t is the pair <<t, i>>;   *)
(* every track has its sync marks at the same places.  The drive is seen   *)
(* as the track under its head: FloppyDrives says how it changes.          *)
(* DSKLEN, DSKDATR and ADKCON keep only what decides a later step.         *)
(***************************************************************************)
EXTENDS Integers, Sequences

CONSTANTS
    Tracks,        \* tracks of the inserted disks
    NoTrack,       \* no disk, no drive, or a track beyond the image
    TrackWords,    \* words of an encoded track
    SyncAt,        \* positions of the sync mark
    Pointers,      \* values the guest writes to DSKPT
    Lengths,       \* word counts the guest writes to DSKLEN
    FakeCycles,    \* RIGEL_PAULA_DISK_FAKE_DMA_CYCLES (46000 in the code)
    SlotOwners,    \* the slots of a line in turn: "refresh", "disk" or "other"
    Legacy,        \* disk_legacy_priority_enabled(): TRUE unless the
                   \* environment asks for nominal slots
    MemoryWords,   \* bound: words of chip RAM
    MaxStep,       \* bound: colour clocks of one rigel_step
    MaxWrites      \* bound: register writes and drive changes

ASSUME ConstantsAssumption ==
    /\ NoTrack \notin Tracks
    /\ TrackWords \in Nat \ {0}
    /\ SyncAt \subseteq 0..(TrackWords - 1)
    /\ Pointers \subseteq Nat /\ Lengths \subseteq Nat
    /\ FakeCycles \in Nat \ {0}
    /\ SlotOwners \in Seq({"refresh", "disk", "other"}) /\ SlotOwners # <<>>
    /\ Legacy \in BOOLEAN
    /\ MemoryWords \in Nat /\ MaxStep \in Nat /\ MaxWrites \in Nat

Slots == 1..Len(SlotOwners)

Memory == 0..(MemoryWords - 1)

VARIABLES
    disk,    \* disk_state_t
    under,   \* the track under the head of disk.drive
    dmacon,  \* the DMAEN and DSKEN bits of DMACON
    slot,    \* the beam's slot in the line
    intreq,  \* DSKBLK and DSKSYN in INTREQ
    ram,     \* chip RAM
    goal,    \* the read in progress as it was started, and what it has met
    writes   \* guest writes and drive changes so far

vars == <<disk, under, dmacon, slot, intreq, ram, goal, writes>>

TrackUnder == Tracks \cup {NoTrack}

DiskState ==
    [dskptr: Nat, mark: BOOLEAN, wordsync: BOOLEAN, dma_active: BOOLEAN,
     dma_armed: BOOLEAN, write_mode: BOOLEAN, sync_seen: BOOLEAN,
     sync_irq_fired: BOOLEAN, byte_ready: BOOLEAN, countdown: 0..FakeCycles,
     base: Nat, total: Nat, done: Nat, src: 0..(TrackWords - 1),
     track: TrackUnder]

Goal == [due: BOOLEAN, track: TrackUnder, src: 0..(TrackWords - 1), base: Nat,
         len: Nat, synced: BOOLEAN]

Words == TrackUnder \X (0..(TrackWords - 1))

NoGoal == [due |-> FALSE, track |-> NoTrack, src |-> 0, base |-> 0, len |-> 0,
           synced |-> FALSE]

disk_reset ==
    [dskptr |-> 0, mark |-> TRUE, wordsync |-> FALSE, dma_active |-> FALSE,
     dma_armed |-> FALSE, write_mode |-> FALSE, sync_seen |-> FALSE,
     sync_irq_fired |-> FALSE, byte_ready |-> FALSE, countdown |-> 0,
     base |-> 0, total |-> 0, done |-> 0, src |-> 0, track |-> NoTrack]

Init ==
    /\ disk = disk_reset
    /\ under \in TrackUnder
    /\ dmacon = {}
    /\ slot = 1
    /\ intreq = {}
    /\ ram = [a \in Memory |-> <<NoTrack, 0>>]
    /\ goal = NoGoal
    /\ writes = 0

-----------------------------------------------------------------------------
(* DSKSYNC holds the mark the encoder writes (mark = TRUE) or another word. *)
IsSync(d, i) == d.mark /\ i \in SyncAt

FirstSync == CHOOSE i \in SyncAt : \A j \in SyncAt : i <= j

(* disk_maybe_emit_sync: the interrupt, and the flag that it was given.    *)
SyncDue(d) == d.sync_seen /\ d.wordsync /\ ~ d.sync_irq_fired

maybe_emit_sync(d) == [d EXCEPT !.sync_irq_fired = @ \/ SyncDue(d)]

SyncIrq(d) == IF SyncDue(d) THEN {"DSKSYN"} ELSE {}

(* disk_start_dma, up to the call of disk_maybe_emit_sync.                 *)
start_dma(d, write, len) ==
    LET b == [d EXCEPT !.write_mode = write, !.dma_active = TRUE,
                       !.dma_armed = FALSE, !.sync_seen = FALSE,
                       !.sync_irq_fired = FALSE, !.byte_ready = FALSE,
                       !.countdown = 0, !.base = d.dskptr, !.total = 0,
                       !.done = 0, !.src = 0, !.track = NoTrack]
        found == d.mark /\ SyncAt # {}
    IN IF write \/ len = 0 THEN b
       ELSE IF under = NoTrack THEN [b EXCEPT !.countdown = FakeCycles]
       ELSE [b EXCEPT !.track = under, !.total = len, !.sync_seen = found,
                      !.byte_ready = found,
                      !.src = IF found /\ d.wordsync THEN FirstSync ELSE 0]

(* disk_write_dsklen without DMAEN: everything but the byte counts stops.  *)
stop_dma(d) ==
    [d EXCEPT !.dma_active = FALSE, !.dma_armed = FALSE, !.countdown = 0,
              !.sync_seen = FALSE, !.sync_irq_fired = FALSE, !.byte_ready = FALSE]

(* What a read that ends leaves behind, by either way of ending.           *)
finish(d) ==
    [d EXCEPT !.dma_active = FALSE, !.dma_armed = FALSE, !.sync_seen = FALSE,
              !.sync_irq_fired = FALSE]

wants_service(d) == d.dma_active /\ ~ d.write_mode /\ d.done < d.total

-----------------------------------------------------------------------------
(* disk_dma_service_grant: one word, on the machine state s of a step.     *)

(* Mutant: the source does not wrap at the end of the track.               *)
NextSource_NoWrap(src) == IF src + 1 < TrackWords THEN src + 1 ELSE src

NextSource(src) == (src + 1) % TrackWords

(* "Re-fire DSKSYNC before DSKBLK if a sync word was seen".                *)
RearmSync(d) == IF d.sync_seen THEN [d EXCEPT !.sync_irq_fired = FALSE] ELSE d

(* A word that is the sync mark is seen, and may raise DSKSYN.             *)
see_word(d) == [d EXCEPT !.byte_ready = TRUE, !.sync_seen = @ \/ IsSync(d, d.src)]

word_irq(d) == IF IsSync(d, d.src) THEN SyncIrq(see_word(d)) ELSE {}

word_done(d) ==
    LET word == IF IsSync(d, d.src) THEN maybe_emit_sync(see_word(d)) ELSE see_word(d)
    IN [word EXCEPT !.done = @ + 1, !.src = NextSource(@)]

service_grant(s) ==
    LET d    == s.disk
        next == word_done(d)
        last == RearmSync(next)
        out  == [s EXCEPT
                   !.ram = [@ EXCEPT ![d.base + d.done] = <<d.track, d.src>>],
                   !.disk = next,
                   !.intreq = @ \cup word_irq(d),
                   !.goal.synced = @ \/ IsSync(d, d.src)]
    IN IF next.done < next.total THEN out
       ELSE [out EXCEPT
               !.disk = [finish(last) EXCEPT !.dskptr = d.base + d.total],
               !.intreq = @ \cup SyncIrq(last) \cup {"DSKBLK"},
               !.goal.due = FALSE]

(* Mutant: a transfer in flight is gated by DSKEN like any other.          *)
DiskClock_Gated(s) ==
    LET mine   == SlotOwners[s.slot] = "disk" /\ {"DMAEN", "DSKEN"} \subseteq s.dmacon
        next   == [s EXCEPT !.slot = (@ % Len(SlotOwners)) + 1]
    IN  IF mine /\ wants_service(s.disk) THEN service_grant(next) ELSE next

(* One colour clock of agnus_slot_scheduler_step.  A read in flight takes  *)
(* every slot but the refresh ones and turns DSKEN on again.               *)
DiskClock(s) ==
    LET urgent == /\ Legacy /\ SlotOwners[s.slot] # "refresh"
                  /\ "DMAEN" \in s.dmacon /\ wants_service(s.disk)
        mine   == SlotOwners[s.slot] = "disk" /\ {"DMAEN", "DSKEN"} \subseteq s.dmacon
        next   == [s EXCEPT !.slot = (@ % Len(SlotOwners)) + 1,
                            !.dmacon = IF urgent THEN @ \cup {"DSKEN"} ELSE @]
    IN  IF (urgent \/ mine) /\ wants_service(s.disk) THEN service_grant(next) ELSE next

(* disk_step: the delay that stands for a read without a disk.             *)
disk_step(s, n) ==
    LET d == s.disk
    IN IF ~ d.dma_active \/ d.total > 0 \/ d.countdown = 0 THEN s
       ELSE IF d.countdown > n THEN [s EXCEPT !.disk.countdown = @ - n]
       ELSE [s EXCEPT !.disk = [finish(d) EXCEPT !.countdown = 0],
                      !.intreq = @ \cup {"DSKBLK"}, !.goal.due = FALSE]

DiskClocks(s, n) ==
    LET run[i \in 0..n] == IF i = 0 THEN s ELSE DiskClock(run[i - 1]) IN run[n]

(* rigel_chipset_step: n clocks of Agnus, then Paula's disk_step.          *)
Step(n) ==
    LET now == [disk |-> disk, dmacon |-> dmacon, slot |-> slot,
                intreq |-> intreq, ram |-> ram, goal |-> goal]
        end == disk_step(DiskClocks(now, n), n)
    IN  /\ disk' = end.disk /\ dmacon' = end.dmacon /\ slot' = end.slot
        /\ intreq' = end.intreq /\ ram' = end.ram /\ goal' = end.goal
        /\ UNCHANGED <<under, writes>>

-----------------------------------------------------------------------------
(* The guest's registers.                                                  *)

Write(d, irqs) ==
    /\ writes < MaxWrites
    /\ writes' = writes + 1
    /\ disk' = d
    /\ intreq' = intreq \cup irqs
    /\ UNCHANGED <<under, dmacon, slot, ram>>

WriteDskpt(p) == Write([disk EXCEPT !.dskptr = p], {}) /\ UNCHANGED goal

WriteDsksync(mark) ==
    LET d == [disk EXCEPT !.mark = mark, !.sync_irq_fired = FALSE]
    IN  Write(maybe_emit_sync(d), SyncIrq(d)) /\ UNCHANGED goal

WriteAdkcon(wordsync) ==
    LET d == [disk EXCEPT !.wordsync = wordsync]
    IN  Write(maybe_emit_sync(d), SyncIrq(d)) /\ UNCHANGED goal

StopDsklen == Write(stop_dma(disk), {}) /\ goal' = NoGoal

(* The first write with DMAEN arms, the second starts.                     *)
ArmDsklen ==
    /\ ~ disk.dma_armed
    /\ Write([disk EXCEPT !.dma_armed = TRUE], {})
    /\ UNCHANGED goal

StartDsklen(write, len) ==
    LET d == start_dma(disk, write, len)
    IN  /\ disk.dma_armed
        /\ disk.dskptr + len <= MemoryWords
        /\ Write(maybe_emit_sync(d), SyncIrq(d))
        /\ goal' = [due |-> ~ write /\ len > 0, track |-> d.track, src |-> d.src,
                    base |-> disk.dskptr, len |-> d.total, synced |-> FALSE]

ReadDskbytr ==
    /\ disk.byte_ready
    /\ disk' = [disk EXCEPT !.byte_ready = FALSE]
    /\ UNCHANGED <<under, dmacon, slot, intreq, ram, goal, writes>>

(* A handler acknowledges one of the two interrupts.                       *)
Acknowledge(i) ==
    /\ i \in intreq
    /\ intreq' = intreq \ {i}
    /\ UNCHANGED <<disk, under, dmacon, slot, ram, goal, writes>>

WriteDmacon(set) ==
    /\ writes < MaxWrites
    /\ writes' = writes + 1
    /\ dmacon' = set
    /\ UNCHANGED <<disk, under, slot, intreq, ram, goal>>

(* The head moves, another drive is selected, a disk comes or goes.        *)
ChangeTrack(t) ==
    /\ t # under
    /\ writes < MaxWrites
    /\ writes' = writes + 1
    /\ under' = t
    /\ UNCHANGED <<disk, dmacon, slot, intreq, ram, goal>>

Next ==
    \/ \E n \in 1..MaxStep : Step(n)
    \/ \E p \in Pointers : WriteDskpt(p)
    \/ \E b \in BOOLEAN : WriteDsksync(b) \/ WriteAdkcon(b)
    \/ StopDsklen \/ ArmDsklen
    \/ \E w \in BOOLEAN, n \in Lengths : StartDsklen(w, n)
    \/ ReadDskbytr
    \/ \E i \in {"DSKBLK", "DSKSYN"} : Acknowledge(i)
    \/ \E s \in SUBSET {"DMAEN", "DSKEN"} : WriteDmacon(s)
    \/ \E t \in TrackUnder : ChangeTrack(t)

(* The host keeps stepping the chipset.                                    *)
Spec == Init /\ [][Next]_vars /\ WF_vars(Step(1))

-----------------------------------------------------------------------------
TypeOK ==
    /\ disk \in DiskState /\ disk.done <= disk.total
    /\ under \in TrackUnder
    /\ dmacon \subseteq {"DMAEN", "DSKEN"}
    /\ slot \in Slots
    /\ intreq \subseteq {"DSKBLK", "DSKSYN"}
    /\ ram \in [Memory -> Words]
    /\ goal \in Goal
    /\ writes \in 0..MaxWrites

Finished == goal.due /\ ~ goal'.due /\ writes' = writes

(* When a read ends, chip RAM holds the track that was under the head when *)
(* it was started, from its first word or sync mark on and round its end,  *)
(* where DSKPT pointed then: whatever the guest did to DSKPT, DSKSYNC, the *)
(* drive or DMACON in the meantime.                                        *)
ReadIsExact ==
    [][Finished => \A i \in 0..(goal.len - 1) :
           ram'[goal.base + i] = <<goal.track, (goal.src + i) % TrackWords>>]_vars

(* "DSKBLK: fired by disk DMA at the end of a DMA block": never for a read *)
(* the guest has stopped, and never twice for one read.                    *)
BlkOnlyWhenDue ==
    [][("DSKBLK" \in intreq' /\ "DSKBLK" \notin intreq) => goal.due]_vars

(* A read that was started ends, also when the guest turns DSKEN off after *)
(* starting it, as long as it leaves master DMA on.                        *)
ReadEnds == <>[]("DMAEN" \in dmacon) => (goal.due ~> ~ goal.due)

(* A read with WORDSYNC on that copied a sync mark ends with DSKSYN        *)
(* pending beside DSKBLK, even if a handler cleared it in between.         *)
SyncBesideBlk ==
    [][(Finished /\ goal'.synced /\ disk.wordsync) => "DSKSYN" \in intreq']_vars

(* A read delivers the track it was started on and its requests, each once *)
(* and when it is due, and the controller stays well formed under whatever *)
(* the guest writes meanwhile.                                             *)
ReadsExact == []TypeOK /\ ReadIsExact /\ BlkOnlyWhenDue /\ SyncBesideBlk
=============================================================================

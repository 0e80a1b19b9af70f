# A TLA+ verification of Rigel

Rigel is a library that emulates the Amiga's custom chips (Agnus, Denise,
Paula, two 8520 CIAs, floppy drives, real-time clock) for a host that owns the
processor. The host asks for a deadline, runs its processor, calls
`rigel_step` with the elapsed colour clocks (CCK), and mirrors the interrupt
level (IPL). The library is single-threaded: the concurrency that matters is
between the guest program, the chips, and the host, which interleave at every
register access and at every cut of time into steps.

This directory holds TLA+ modules for the parts of Rigel whose correctness
depends on those interleavings, TLC configurations that check them on small
instances, and TLAPS proofs. `PROJECT.json` maps every definition to the lines
it models and lists the hazards of the code with the properties that cover
them.

## The system

| Part (source) | State | Operations | Talks to |
|---|---|---|---|
| Interrupt domain (`domains/interrupt`) | INTENA, INTREQ, stored IPL | write INTENA/INTREQ, raise, clear, reset | every chip raises; host reads IPL |
| CIA ICR (`cia/cia_interrupt.c`) | latched events, mask, line | raise, read (clears), write mask | Paula PORTS/EXTER bit |
| CIA timers (`cia/cia_timers.c`) | CRA, CRB, latches, counters, PB6/PB7 | step n E-clocks, count CNT, register writes | ICR, serial port |
| CIA serial (`cia/cia_serial.c`) | SDR, shift registers, buffer | write SDR, underflow of timer A, CNT edge, keyboard byte | ICR, timer A |
| CIA TOD (`cia/cia_tod.c`) | counter, alarm, read latch | pulse, byte reads and writes | ICR; pulsed by the chipset glue |
| CIA ports (`cia/cia_ports.c`) | PRA, PRB, DDRs, pin levels | set pins, read values | floppy drives, timers, overlay |
| Chipset glue (`chipset/chipset.c`) | cycle count, E-clock remainder | `rigel_chipset_step`, reset | Agnus, Paula, CIAs |
| Beam (`agnus/beam.c`, `timing/vblank.c`) | hpos, vpos, LOF, LOL, frame count | one clock, LACE, BEAMCON0, projection | scheduler, Denise, deadlines |
| Slot scheduler (`timing/slot_scheduler.c`) | slot table, DMACON copy, flags, line base | one clock: pick an owner, dispatch, move the beam; rebuild | all DMA channels |
| Copper (`agnus/copper`) | pointers, PC, wait target, flags | fetch, MOVE, WAIT, SKIP, jump, VBL reload | custom registers, beam, blitter |
| Blitter (`agnus/blitter`) | registers, command, line accumulator, slots left, busy, zero | start, grant a slot, publish, reset | slots, chip RAM, BLIT request |
| Bitplane and sprite DMA (`agnus/bitplanes`, `agnus/dma`) | pointers, per-line words, channel state | fetch, modulo at line end, frame start | Denise |
| Denise (`chipset/denise`) | registers, palette, sprites, window, two frame buffers, CLXDAT | register writes, one clock, compose, store, swap | beam, bitplane words, host frame |
| Paula disk (`paula/disk.c`) | DSKPT, DSKLEN, sync flags, transfer | register writes, service grant, step | floppy drive, slots, DSKBLK/DSKSYN |
| Paula audio (`paula/audio.c`) | four channels | step, DMA word, register writes, deadline | slots, host, AUDx |
| Paula serial (`paula/serial.c`) | buffer, shift register, host queue | write SERDAT/SERPER, step, host push/pop | TBE/RBF, host |
| Floppy drives (`floppy/floppy_drive.c`, `core/rigel_cia_api.c`, `core/rigel.c`) | head, motor, ready, change latch, disk | control writes, insert, eject, reset | CIA ports, disk DMA |
| MFM (`floppy/floppy_mfm.c`) | a track buffer | encode a track | disk DMA |
| Real-time clock (`rtc/`) | registers in banks, offset to the host's time | read, write, set, reset, change model | host |
| Core API (`core/`) | context | step, deadlines, stalls, save/load | host |
| Harness (`harness/harness.c`) | 68000, flush state, last IPL, memory map | `harness_step`, memory handlers, autoconfig | all of the above |
| Expansions (`harness/expansions`) | autoconfig chain, ATA/ATAPI channel, disk image | bus accesses, commands, data port | 68000 |

Hard behaviours: a level that is stored and mirrored (stale copies);
acknowledge and event races on the ICR; results that must not depend on how
time is cut into steps; multi-access reads of a running clock; inference of
pulses from the state before and after a step; two code paths that compute the
same status lines; transfers (disk, blit, ATA) whose inputs change under them;
a cached slot table; registers latched at one moment of a line and used at
another; deadlines that may be now; remainders that must be carried; queues at
their limit; commands that fail half way.

## Modules

| Module | Models | State and actions |
|---|---|---|
| `Interrupts` | `interrupt_domain.c`, `cia_interrupt.c` | Pure operators on two records. A register is the set of its bits that are 1. |
| `IrqHost` | Interrupt delivery end to end | `irq`, `cia`, and a host's `last_ipl`. Steps raise a chip or CIA source; the guest writes INTENA, INTREQ, ICR; its handler acknowledges INTREQ and then reads the ICR (handlers are not nested). `PublishOn` selects the host: `"level"` is `harness.c`, `"event"` the loop of the repository's README. |
| `IrqHostProofs` | Theorems about `IrqHost`, `CiaTod` and `CiaTimers` | |
| `CiaTimers` | Timers, port B outputs, serial port, pins of one CIA | One record `chip`; each C function is an operator on it, each register access or pin change an action. |
| `CiaTod` | The TOD counter | Pulses of 1..n, byte reads in the order HI, MID, LO, byte writes to time or alarm, ICR read. |
| `Beam` | Raster position, VERTB, projection | Pure operators on `beam_state_t`. |
| `ChipsetStep` | `rigel_chipset_step` over the beam | A step of any length; ghosts `seen` count what the beam really did. |
| `Pixels` | What a line's pixels are: planes and scroll, HAM, EHB, dual playfield, sprites, attachment, priorities, collisions | Pure operators; the compositor's order of drawing and, beside it, the resolvers of `priority.c` and `dualpf.c`. |
| `Denise` | Registers, display window, palette, sprites, line composition, both frame buffers, fields, CLXDAT | `dregs`, `frame`, `video`, `coll` and a raster; one action per register, one per clock, one for the fetch of words. `shown` holds the lines as the resolvers give them. |
| `HostLoop` | Deadlines, `harness_step`, the README loop | The slice begins, accesses flush, the slice ends; alternatively one iteration of the README loop. Devices other than the beam offer any deadline from 1 clock to the line end. |
| `Copper` | The Copper, and the arbitration of FREE slots between it and the blitter | `cop` is `copper_state_t`. A clock is a `CopperSlot`, `BlitterSlot` or `OtherSlot`: the WAIT comparison, the slot, the beam, the VERTB restart. `StepBegin`/`StepEnd` bracket `rigel_step`; the guest writes registers in between. `hist` follows the list from its instructions alone. |
| `BlitterOps` | Minterms, barrel shift, masks, fill, the copy loop, the line stepper | Pure functions; a word is the set of its bits. |
| `Blitter` | Registers, start, grants, publication, estimates, resets | `regs`, `cmd`, `exec`, `remaining`, `line`, chip RAM. A copy does its work on the first grant and a line two slots per pixel, as in the code. |
| `SlotMap` | The slot table of a line and the dynamic owner of a slot | Pure operators: refresh, disk, audio, sprites, bitplanes by resolution and depth, FREE and CPU. |
| `Arbiter` | *Abstract.* Who may have each slot, from the registers of that moment, with no table and no flags | One variable `grant` and the inputs. |
| `SlotScheduler` | `agnus_slot_scheduler_step`: cached table, invalidation, dispatch, bitplane and sprite fetches, line end, stalls | Refines `Arbiter`. |
| `SpriteDma` | One sprite channel: control pair, idle lines, data pairs, end | Operators used by `SlotScheduler`. |
| `FloppyDrives` | Drives, control and status lines | `WriteControl` is the guest's route, `Insert`/`Eject` the host's, `Reset` the chipset's; each recomputes the lines as its own C code does. |
| `DiskDma` | Paula's disk controller and the disk part of arbitration | A step is n clocks of slot arbitration followed by `disk_step`; `goal` remembers the read as it was started. |
| `Audio` | Audio channels: DMA words, reload, period, samples, deadline | `aud`; `fetched` and `played` remember the bytes. A step is `rigel_chipset_step`'s: the DMA slots of all its clocks, then `audio_step` of all its clocks. |
| `Serial` | Paula's serial port | `ser`; `sent` and `got` remember both ends. |
| `Mfm` | The encoding of a track | `trackBuf` bit by bit, longwords as sets of bits. |
| `Rtc` | OKI and Ricoh clocks | `rtc`, the host's clock, and whether its calendar calls work. |
| `Atapi` | Packet commands of the CD-ROM | Pure operators. |
| `Ide` | One ATA channel with a disk image and a CD-ROM | `ch`, `cd`, `hdf`; command, data port, packet, host attach and eject, failing host I/O, reported or not (`unflushed`: the failed `fflush` of `hdf_write`). |
| `HostMap` | The 68000's memory map, overlay, autoconfig | `boards`, `ovl`, `exec_mode`, `ram`; byte and word accesses by their own decoders (`read8`, `write8`, `read16`, `write16`, `peek`). |
| `HostLoopProofs`, `RasterProofs`, `CopperProofs`, `BusProofs`, `PaulaProofs`, `BoardProofs` | Theorems about `HostLoop`; `ChipsetStep`, `Pixels` and `Denise`; `Copper`; `Blitter`, `SlotScheduler` and `Arbiter`; `DiskDma`, `Serial` and `Audio`; `FloppyDrives`, `Ide`, `Rtc` and `HostMap` | |
| `Induction` | Lemmas every proof over the steps of a loop needs: least elements, induction over a set of counts, functions defined by iteration, division with remainder | |
| `MC*` | Instances for TLC, and the composition of components that share a run | |

`ChipsetStep`, `HostLoop` and `Copper` extend `Beam`; `IrqHost`, `CiaTimers` and
`CiaTod` extend `Interrupts`; `Denise` extends `Pixels`; `Blitter` extends
`BlitterOps`; `SlotScheduler` extends `SlotMap` and `SpriteDma` and instantiates
`Arbiter`; `Ide` uses `Atapi`. Register contents are reduced to what decides a
later step; 16-bit and 24-bit counters keep their arithmetic with a smaller
byte (`Byte`, `Base`, `W`, `PtrSpace`), and the unsigned 32-bit line count of
`rigel_chipset_step` keeps its wrap (`Word`).

Operators whose names end in `_Something` after a mapped name (for example
`irq_clear_NoUpdate`) are mutants: plausible bugs, each of which breaks the
property PROJECT.json pairs it with. No specification uses them.

### Components that share a run

`MCCia` (timers and TOD), `MCRaster` (chipset step and Denise), `MCPaula`
(audio, serial, disk, MFM) and `MCBoard` (drives, clock, ATA, memory map) hold
several components that touch no variable of one another. A variable `mover`,
chosen once in the initial state, says which of them moves in a behaviour; the
others stay as they were initialised. Every behaviour of each component alone
is covered, and since no action of one reads or writes another's state, an
invariant or action property of one holds of their free interleaving if and
only if it holds of that component alone. The sum replaces the product of
their state spaces. Components that do interact (slot table, bitplanes,
sprites, disk and blit requests; Copper and blitter arbitration; drive lines
and CIA ports; ICR and INTREQ; timers and serial port) are in one module.

## Runs

| Run | States | Properties and what they show |
|---|---|---|
| `irq_level_host` | | `IplIsHighest`: the stored IPL is the highest enabled request. `LevelMirrored`: the processor holds it. `CiaEventNotLost`: an event between acknowledge and ICR read is kept. `RequestServed`: every enabled request is eventually served. |
| `cia` | 331,050 | `BatchEqualsTicks`: n ticks at once equal n ticks one by one (counters, ICR, START, serial). `SerialSound`: the bits on SP are whole bytes in order and the port drains in bounded time. `TodReadSound`: a HI-MID-LO read is one moment. `AlarmExact`: the alarm fires exactly when it is met or passed, and again after every wrap. |
| `chipset_step` | 200,774 | `TimeKept`: no E-clock drift. `RasterPulses`: VERTB once per frame, and the conditions under which the TOD pulses are right. `ProjectionExact`. `FramesPublished`: every line of the frame in progress and of the frame handed to the host is what the resolvers give for the words fetched in it and the registers latched for it; fields alternate. `WindowIsCurrent`, `CollisionsKept`. |
| `tod_b_standard` | | *Violation.* BEAMCON0 shortening the frame below the beam wraps the unsigned line count: CIA-B's TOD gets about 2^32 pulses. |
| `host_harness` | | `InStep`: chipset and processor stay together to the carried cycle. `FramesKeepComing`. |
| `host_readme` | | *Violation.* At the VERTB position the deadline is now, `rigel_step_until` does nothing, and the README's loop never advances. |
| `copper` | | `ListFollowed`: the next instruction is the one program order, jumps and VERTB call for. `WaitExact`: a WAIT lasts exactly until it is met. `EventReported`: `RIGEL_EVENT_COPPER` is reported. `NoEscalation`: no list raises its own danger bit or starts a blit without it. `FrameRestart`: every frame restarts the list. |
| `paula` | 318,084 | `ChannelExact`: a channel plays what was fetched. `AudioTimeExact`: one `audio_step` of n clocks equals n of one, a `rigel_step` up to the deadline does what two do wherever it is cut, and no sample falls before the deadline. `SerialDelivers`: bytes leave once and in order, a full queue is reported, TBE comes. `ReadsExact`: a read delivers the track it was started on, DSKBLK only for a read that is due, DSKSYN beside it under WORDSYNC. `ReadEnds`, also if DSKEN is cleared. `TrackReadable`: legal MFM, marks at the sectors only, decodes back. |
| `audio_irq` | | *Violation.* No AUDx request follows the end of a buffer: `rigel_chipset_wire` never connects the sink. |
| `blitter` | 757,170 | `SlotsKept`: a blit takes the slots it announced. `CopyMatchesStream`: a copy leaves what a stream definition of shift, mask, minterm and inclusive fill gives, also when it overlaps its source by a word (exclusive fill is left out, see the observations). `LineMatchesReference`: a line drawn slot by slot equals the one-shot reference routine. `BlitEnds`. |
| `bus` | 345,582 | `ImplementsArbiter`: the cached table grants every slot as the abstract arbiter does from the live registers. `FetchesExact`: an undisturbed line fetches every word of every plane and moves each pointer by its modulo; a sprite whose slots the bitplanes leave alone shows the pair of each of its lines. `StallEnds`: a stalled processor is let through. |
| `board` | 1,649,867 | `DrivesHonest`: status lines, change latch and ready are true of the drive as it is. `ClockTellsTime`: the clock runs with the host's and its digits are that time, across writes, resets and models. `TransfersExact`, `WritesTheDisk`: a guest reads and writes the sectors it asked for through errors, aborts and media changes, and the one write that is lost without an error is that of a failed `fflush`. `MapHonest`: what is written is read, a word reaches a device once, boards are configured in turn. |

Several properties are conjunctions of named parts, each stated with its own
comment where it is defined; the type invariant of a component is one of them.

### Bounds

* `irq_level_host`: one chip source (VERTB), two events on both CIAs, four
  events and four writes: enough for an event in every gap of a handler while
  the master enable or a mask changes. Sources of one level are alike to
  `compute_ipl`; the theorems cover all fourteen.
* `cia`: counters 0..3 and steps of up to 5 ticks, so one step spans several
  periods of every latch value; three register or pin writes and two serial
  bytes of two bits, so a byte can be queued behind another while the mode
  changes; a clock 0..7 of three bytes and three pulses a step, so every carry
  and jump over the alarm occurs.
* `chipset_step`: lines of 3 clocks, frames of 4 and 6 lines (plus the long
  frame), steps of 1 to 14 clocks (more than the short frame), 45 clocks.
  Denise: lines of 20 pixels, sprites 2 wide, scrolls 0..2, frames of 3 or 4
  lines of which all but the first are visible, two displays set up at reset
  with two register writes in the frames that follow, and 624 single lines that cross five
  modes with delays, priorities and sprite arrangements (attached, overlapping,
  behind a playfield). Registers are written at the first and at the last clock
  of a line, before and after its fetch: Denise reads them nowhere else.
* `host_harness`, `host_readme`: lines of 5 clocks, 3 lines, instructions of
  up to 3 cycles; the frame count is kept modulo 2, so time is unbounded.
* `copper`: lines of 5 clocks, 5 lines of which the last compares like line 0
  (as line 256 does), three lists of seven instructions (raster effects with
  SKIP and a jump; blits, a blitter WAIT and a forbidden MOVE; a list that
  moves itself, jumps to itself and switches its DMA off) started at either of
  two addresses, two guest writes; time is unbounded.
* `paula`: one audio channel (channels share nothing but the DMA enable word and
  the deadline's minimum), buffers of 1 and 2 words, steps up to 5 clocks over
  periods 2 and 3; a queue of two bytes with four written; two tracks of three
  words with a mark in the middle and reads of four words (round the end of the
  track), a line of one refresh, one disk and one other slot, six writes;
  encoded tracks of two sectors of two longwords over data chosen for their
  border bits.
* `blitter`: words of 3 bits, 8 words of RAM, sizes 1 x 2 and 2 x 2, and 0 x 0 for the largest size of 3 x 3, addresses that wrap;
  three operations of guest or host after set-up, so a blit can be started over
  another, have RAM changed under it, and be reset or gated.
* `bus`: lines of 16 slots with refresh, disk, audio and one sprite pair, depths
  0..2 in both resolutions, 4 lines, two writes at any clock, disk requests of
  3 and blits of 2 slots; a sprite with a band of two lines and the end of its
  list, and displays that take none, one or both of its slots.
* `board`: two drives, three cylinders, two disks, three host operations, any
  number of control writes; minutes of two seconds, hours of two minutes and
  months of eleven days with the calendar's arithmetic kept; a disk of two
  sectors of two words, a disc of one, four operations; one page each of chip
  and slow RAM, two pages a board, two bases beside the forced one (the boards may overlap
  wholly or by a page), four accesses. Disks are interchangeable, so TLC takes
  states up to their exchange (`DiskSymmetry`); no property of the run is one of
  liveness.

`Max*` constants in the modules are these bounds; each appears in the guard of
the actions it limits. `blitter` and `board` do not check deadlock: when the
bound on operations is reached nothing is left to do.

### Fairness

`IrqHost` assumes that the host goes on stepping (`WF(StepQuiet)`) and that
the processor goes on executing its handler (`WF(Handler)`): both are one loop
in `harness_run`. The guest's handler does acknowledge what it was entered
for; new events are bounded and not fair. In `cia` pulses keep coming, which is
`rigel_chipset_step`, and the guest reads its ICR. `HostLoop` assumes only that
the host calls its loop again. In `paula` the chipset goes on being stepped
(`WF(DiskClocked)`, `WF(SerialClocked)`); in `bus` clocks go on
(`WF(Clocked)`); in `blitter` the arbiter goes on granting slots while BLTEN is
on (`WF(SlotGranted)`: every line has FREE slots). `Copper` assumes that the host keeps
calling `rigel_step` and that calls sooner or later advance time
(`WF(StepBegin)`, `SF(Clock)`), that FREE slots keep coming up
(`SF(CopperSlot)`: no setting of the slot table fills a line, and a line
begins with free slots) and that a blit which gets slots ends
(`SF(BlitterSlot(TRUE))`, which `BlitEnds` checks in detail). No action of a
guest that is free to be silent is fair, apart from the interrupt handler and
the ICR read.

### The refinement

`Arbiter` says who owns a slot as a function of the registers at that moment
and of what the disk and the blitter ask for. `SlotScheduler` keeps a table,
flags that say what the table was built from, and rebuilds it only when marked
dirty. `ImplementsArbiter` instantiates the abstract module with the live
registers and the owner of the last slot, and has TLC check that every clock
of the scheduler is a step of the arbiter. A path that changes DMACON, BPLCON0,
DDF or the vertical window without marking the table would break it.

## Proofs

Every theorem below is proved by TLAPS for every value of the constants that
satisfies the named assumptions, and nearly every one states a
property that a run also checks: the run shows that the property can be
reached and broken, the theorem that no instance breaks it. (`AlarmIsOnTime`
and `TransmitsExactly` state the safety parts of `AlarmExact` and
`SerialDelivers`, whose liveness parts stay with TLC; `ComposedAsResolved` is
the fact about operators on which `FramesPublished` rests.)

| Theorem | States | Inductive invariant |
|---|---|---|
| `IrqHostProofs!TypeCorrect`, `IplAlwaysHighest`, `CiaEventsKept`, `HarnessMirrorsLevel` | the types, `IplIsHighest`, `CiaEventNotLost`, `LevelMirrored` | `IInv` |
| `IrqHostProofs!TodReadsAreSound`, `AlarmIsOnTime` | `TodReadSound`, `AlarmOnTime` of `AlarmExact` | `TodInv` |
| `IrqHostProofs!BatchIsTicks`, `SerialPortSound` | `BatchEqualsTicks`, `SerialSound` | `TimersInv` |
| `HostLoopProofs!HostInStep` | `InStep` | `IInv` |
| `RasterProofs!TimeIsKept`, `ProjectionIsExact`, `RasterPulsesOnce` | `TimeKept`, `ProjectionExact`, `RasterPulses` | `RasterInv` |
| `RasterProofs!ComposedAsResolved` | `compose_line(l) = resolved_line(l)` for every line | |
| `RasterProofs!WindowFollowsRegisters`, `NoCollisionLost`, `FramesAreTrue` | `WindowIsCurrent`, `CollisionsKept`, `FramesPublished` | `DenInv` |
| `CopperProofs!CopperFollowsList`, `CopperWaitsExactly`, `CopperReports`, `CopperStaysConfined` | `ListFollowed`, `WaitExact`, `EventReported`, `NoEscalation` | `CopInv` |
| `BusProofs!SchedulerImplementsArbiter` | `ImplementsArbiter` | `SchedInv` |
| `BusProofs!FetchesAreExact` | `FetchesExact` | `FetchInv` |
| `BusProofs!SlotsAreKept`, `LinesMatch` | `SlotsKept`, `LineMatchesReference` | `BltInv` |
| `PaulaProofs!ReadsAreExact` | `ReadsExact` | `DiskInv` |
| `PaulaProofs!ChannelPlaysExactly`, `AudioTimeIsExact` | `ChannelExact`, `AudioTimeExact` | `ChannelExact` itself |
| `PaulaProofs!TransmitsExactly` | `SerialTypeOK` and `TransmitExact` of `SerialDelivers` | `SerialInv` |
| `BoardProofs!DrivesAreHonest` | `DrivesHonest` | `DrivesHonest` itself |
| `BoardProofs!IdeTransfersExactly`, `IdeWritesExactly` | `TransfersExact`, `WritesTheDisk` | `IdeInv` |
| `BoardProofs!ClockTime` | `ClockTellsTime` | `ClockInv` |
| `BoardProofs!MapIsHonest` | `MapHonest` | `MapInv` |

### Interrupts

`IInv == TypeOK /\ Coherent /\ CiaEventNotLost`, where `Coherent` says that the
stored level equals `compute_ipl`. `IplIsHighest` speaks of a table of levels
and is not convenient to carry through a step; `Coherent` is preserved because
every operation ends with `irq_update` (`IntreqOps`, `IntenaOps`, `SyncPaula`),
and `ComputeIplIsHighest` derives the property from it by cases on the cascade.
`CiaEventNotLost` is inductive together with the types: a step of one CIA
drives its own INTREQ bit from its own pending state and no other
(`SyncPaula`), INTREQ bits are cleared by the guest only on the way to the ICR,
and reading that ICR leaves nothing pending.

### Time of day

`ReadIsOneMoment` speaks of complete reads only. `TodInv` adds `ReadUnderway`:
after the HI byte and until the LO byte the clock is latched, the latch holds
the time of the HI read, and the bytes read so far are its digits. `DigitsMake`
and `DigitsOf` are the arithmetic: a time is its three digits in base `Base`.
For the alarm, `cia_tod_increment` compares after each increment of a batch; the property
recovers the number of pulses from the two counter values, which determine it
only up to a whole turn, so `AlarmIsOnTime` assumes `MaxPulses < Modulus`. In
the chipset a step gives CIA-A a pulse per frame and CIA-B one per line, and a turn is
2^24 of them.

### CIA timers and serial port

`TimersInv` puts the chip in `SoundChips`: its fields have their types, the line
to Paula is driven exactly while an enabled event is pending, the port is busy
exactly while bits are left to shift, at most `SerialBits` of them, and the bits
on the wire followed by those in the shift register are the bytes that were started.
`SerialSound` and `BatchEqualsTicks` follow from it.

`BatchIsTicks`: `cia_timer_advance` divides by the period. `Stepped(k, n, e)`
says of a chip `e` that it is `k` after `n` ticks, by the counts of underflows
of the two timers; `StepFacts` shows that `cia_step` gives such a chip.
`StepThenTick` shows that `n` ticks and one more are `n + 1`: the division is
carried by one tick (`LastTickA`, `LastTickB`; timer B counts ticks or the
underflows of timer A), a one-shot timer that has stopped stays stopped
(`StopTwice`), events latch once (`FlagsTwice`), and the bits of two
batches of underflows are shifted one after the other (`BitsTwice`). Induction
on the ticks compares this with the recursion of `BatchEqualsTicks`.

`SerialPortSound`: `Left` counts the bits in the shift register and the buffer.
An underflow sends one of them, so `p` underflows leave `p` less
(`BitsDrain`), and a timer that runs free passes 0 at least `p` times in `p` of
its longest periods (`Passes`). `StreamGrows` adds a byte to the
stream of bits, by the quotient and remainder of a bit's place.

### Time

A `rigel_step` of n clocks is a loop, and what the loop leaves behind is the
end of a function defined by recursion on the clocks. `Induction` supplies what
such a proof needs. The library states induction for an operator parameter,
which the provers here cannot instantiate; `SetInduction` and
`BoundedInduction` state it for a *set* of numbers instead, from the
well-foundedness of `<` (`LeastNat`), and `Run`, `RunExists`, `RunsAgree` and
`RunInvariant` carry it over to functions that iterate a step within a set of
states. `DivMod` and `DivUnique` are the facts of division with remainder.

`HostInStep`: `InStep` does not say that the beam's interlace bits stay off and
its frame keeps its height, on which the next step depends; `IInv` adds that
(`Scan`). `QuantumBounded` bounds the slice a deadline allows, and
`IntegrateKeeps` shows that the odd cycle is carried whichever way accesses
split it.

`RasterInv == TypeOK /\ EclockExact /\ VertbOncePerFrame /\ SnapTracked`.
`ProjectionExact` alone is not inductive, because it compares the beam with a
quotient and a remainder; `SnapTracked` says that, since the snapshot was taken,
the beam has gone some number of lines further, and `TracksPredicts` shows that
this determines quotient and remainder. `RunTracks` carries it over the clocks of a step.
`RunRaises` counts VERTB. `TodACountsVblanks` needs that a step no longer than
a zone enters and leaves it at most once: `RunBlanks` bounds the distance run
inside the zone by the clocks spent (`Enters`, `Leaves`).

### Display

`compose_line` paints: the playfield from left to right with HAM's running
colour, then sprite over sprite from the last to the first, each pixel put
only where the priority of its pair allows. The resolvers of `priority.c` and
`dualpf.c` choose: per pixel, what is in front. `ComposedAsResolved` is the
equality of the two for every line. Loops are functions defined by recursion
on the pixel or on the sprite; what they hold after each step is stated in
closed form and shown by induction over the steps (`SpritesDrawn` for the
sprites).

`DenInv == Typed /\ LineKept /\ WindowIsCurrent /\ CollisionsKept /\ Interlaced
/\ Pictures`. `Pictures` (every stored row of both buffers is what the resolvers
gave) needs `LineKept`, that the words and control registers latched at the
first fetch of a line are the ones the line is resolved with. `FieldsAlternate`
needs `Interlaced`: Denise compares the beam's frame and interlace bits with
copies it took, and the copies differ from the beam only at clocks at which no
frame can end.

### Copper

`CopInv` is `TypeOK`, the raster in a progressive scan, and `Agrees`: while the
Copper waits it is for the instruction just before the one that is due, with
that instruction's own blitter bit, and when it asks for a word it does not
wait. Without the link between `wait` and the list in chip RAM, `WaitExact`
would not be inductive. `FetchFacts` goes through every instruction that
`copper_exec_move`, WAIT and SKIP can meet, jumps to itself included;
`CompareIsReached` shows that comparing the packed positions is the same as
comparing line and position in turn, which is where a packed comparison could
carry from one into the other.

### Slot scheduler

`SchedInv` is the type of the scheduler and `TableCurrent`: a table that is
not marked dirty was built from the DMACON, registers and line of now. One
lemma per register (`SetDdf`, `SetVstrt`, `SetHires`, `SetDepth`) shows that a
write either marks the table or leaves what it was built from alone. Given
that, each clock grants what the abstract arbiter grants (`ArbiterClocks`), and
everything else is a stutter (`ArbiterFollows`).

`FetchesAreExact`: `LineFetched` speaks of the last clock of a line, so it is
not inductive. `ClockOf` turns the slot table round: it gives the clock of word
`w` of plane `p`, and `ClockUnique` and `LogicalIs` show that the table has a
word at a clock exactly if that word's clock it is, and never two. `LineInv` then
says what is in the latches at any clock of a line that nothing disturbed: the
words whose clock has been, read from pointers that have not moved yet
(`FetchAtLine`). At the end all clocks of the line have been, so all words are
there, the count is the words of a plane (`LineComplete`), and `end_line` moves
the pointers by it. For the sprite, `BandInv` follows the channel through its
two slots and the lines of a band: before A, between A and B, and after B the
pointer is 0, 1 or 2 words into the pair of the line, or the channel waits,
is past the band, or has ended (`PhaseA`, `PhaseB`, `PhaseLine`).

The attempt to prove the sprite's part in its first form, without the condition
on its slots, failed on a true counterexample, see the observations below; the
property now says that both slots are the channel's.

### Blitter

`BltInv == BltTyped /\ SlotsExact /\ LinePaced /\ LineDrawn`. `SlotsExact` (what
was consumed and what is announced make up the estimate) is not inductive for
lines: a pixel takes two slots in the cycle-exact mode and one otherwise, and
whether a grant draws depends on the phase. `LinePaced` ties the slots consumed
to the pixels drawn and the phase. `LineDrawn` says that a line in progress,
with no RAM changed under it, has the accumulator and chip RAM of the reference
routine after as many pixels (`LineAt`, the recursion of `execute_line_mode`
read as a sequence of states). The last pixel then is the reference's last, and
publishing both gives the same registers. Types are part of it: pointers wrap
in `PtrSpace`, error terms in `ErrSpace`, and the proof that a wrapped sum is
the wrap of the sum is where `PtrSpace % ErrSpace = 0` is used.

### Disk, serial and audio

`DiskInv` is `TypeOK /\ Underway(disk, goal, ram)`: only a read that is due can
go on, and as long as it is due the controller's base, length, track and
source are those of the read as it was started, and the first `done` words are
in chip RAM. `ReadIsExact` says nothing about reads in flight, so it is not
inductive. `Since` relates the machine in the middle of a step to its start:
in one step a read may go on, end, or end and find nothing to do, and DSKBLK
comes in that step only if the read was due at its start.

`SerialInv` adds one fact to `TransmitExact`: as long as the instant mode was not
mixed with frames, the transmitter in instant mode is empty (`Calm`). `Stream`
is what the host has, the queue, the shift register and the buffer in this
order; `MoveAcross` moves a byte from one to the next without changing the
whole, and `Passes` (a transition that keeps `Stream` or sets `tx_overflow`)
is closed under composition, which carries it through the calls of a step: the
frame that ends is queued, and the byte in the buffer starts shifting.

`ChannelExact` is inductive as it stands: what was played followed by what is
held is what was fetched, and `take_sample` moves one byte from the one to the
other. For `AudioBatchEqualsTicks`, `n` clocks at once are division and remainder
by the period (`elapsed`, `left_over`) and `n` single clocks are a recursion;
the proof shows that both agree after each clock, by induction on the clocks.
`CutsInaudible` puts the DMA slots in: a `rigel_step` fetches first and plays
then. Up to the deadline no sample falls due before the last clock
(`DeadlineBounds`), so all but the last clock only counts down (`ShortStep`);
fetching neither reads nor writes the period and its counter (`FetchCommutes`),
and a second slot finds a word waiting (`SlotCommutes`): a fetch may move across
the cut (`CutStep`). Beyond the deadline the statement is false of the code.
The deadline is a minimum over channels, so a sample due within n clocks of any
channel bounds it.

### Floppy drives

`DrivesHonest` is inductive. Guest writes, insert, eject and reset compute the
status lines by different code; `ControlKeeps`, `HostKeeps` and `ResetKeeps`
show that each leaves the lines of the selected drive as it is after the
operation, and `FloppyStep`, `InsertChanges`, `EjectChanges`, `ResetChanges`
what each may do to a drive: only a step pulse over a disk clears the change
latch.

### IDE channel

`IdeInv` is the type of the channel and three links. `Holds`: a state that
moves data has a word left to move, the packet phase has a packet word left,
and an idle channel shows no DRQ. `ReadUnderWay`: while a read the guest asked
for goes on, the buffer is the sectors and what was moved is the part before
the pointer. `WriteUnderWay`: while a write goes on, the buffer begins with
what was moved and is meant for the sectors asked for. `ReadsTheDisk` speaks
only of words already moved, so it is not inductive. `CommandOutcome` goes
through every command for either device and finds four outcomes: the transfer
is left alone (`Kept`; a refused command or SET FEATURES in mid-transfer), it
is over (`Left`), an identity is offered (`Told`), or the disk transfer asked
for begins (`Begun`). A short read of the host may spoil the buffer of another
transfer, which `asked.spoilt` records and the properties exclude.
`WrittenImage` is the arithmetic of the flush: n sectors of the buffer land on
the words of the transfer and on no other. `hdf_write` has three outcomes: all
is written; a failure that is reported, after any number of sectors; and an
`fflush` that fails, also after any number, which the code takes for success.
`WritesTheDisk` exempts the third by name (`unflushed`), and the mutant
`flushed_Silent`, which reports no failure at all, breaks it.

### Real-time clock

`ClockInv` adds to the types that the offset is the one of the last setting
also while there is no clock, which `ClockTellsTime` does not say and a later
change of model needs. The hard part is `ImageIsTime`: the guest writes
a digit, the code reads the date back from the registers, sets the clock to it,
and renders the registers again, in a 12-hour or a 24-hour image and with
digits that may make no date. `OkiImage`, `RicohImage` and `CalendarRoundTrip`
show that rendering and reading are inverse on dates the image can hold;
arithmetic of digits below 100 is all they need.

### Address map

`MapInv` is the types, the places of the boards (`Placed`) and `Landed`: each
byte recorded as written is in the cell that a *write* to its address reaches.
`WrittenIsRead` speaks of reads and is not inductive, because the overlay
hides chip RAM from reads while writes go through; when it is switched off,
what was written under it must be there. `OneAddress` shows that two addresses
that reach RAM reach the same cell only if they are the same address, so a write
spoils no other record, and `WriteSame` that only a board that takes a place
changes where writes go; the record is cleared then. `WordsAreBytes` shows that
`write16`, which looks for registers first, sends both bytes of a word where
`write8` would. `BoardTaken` is the order of the
autoconfig chain.

### Assumptions

The assumptions give constants their types, and TLC evaluates them on every
run. Beyond types:

* `ChipsetStep`: `MaxStep < Word`: the clocks of one `rigel_step` are a 32-bit
  argument, so the line count of a step cannot come round more than once.
* `SlotScheduler`, `GuestAssumption`: registers hold values of their width
  (depth 0..7, DMACON a set of its bits). `SpriteSlotsAssumption`: sprite 0 has
  an A slot and after it a B slot, of its own (0x15 and 0x17). `SlotMap`: no two
  planes have the same place in a fetch unit.
* `HostMap`, `ZorroAssumption`: boards are placed apart from slow RAM, from the
  autoconfig window and from the custom registers, as Zorro II gives them a
  space of their own, and RAM ends before the registers. The places are the
  guest's choice, and the code does not check them: over slow RAM the debugger
  would read another cell than the processor, and over the registers a byte and
  a word would reach different devices. The assumption takes out the only places
  where the decoders differ.
* `Rtc`: seconds, minutes and days of a month have two digits
  (`{SecsPerMin, MinsPerHour, MonthDays} \subseteq 1..100`).
* `Denise`: every frame is longer than its first visible line
  (`n > VisStart + 1`; 262 or 312 lines against 26), and what the guest writes
  is of the registers' widths.
* `Blitter`: the pointer's halves and the error term divide the pointer space
  (powers of two in the code); sizes fit their fields; no blit takes as many
  slots as the counter holds (`5 * (MaxWidth * MaxHeight) < SlotSpace`: 2^11
  words by 2^15 lines at five slots against 2^32).
* `Serial`: there is a frame length (`FrameLengths # {}`), as SERPER always
  gives one.
* `CiaTimers`: the values written to timer registers are bytes, to SDR bytes of
  `SerialBits` bits.
* `Audio`: `Periods` within `PeriodMax`, the 16 bits of `audper`.
* `Copper`, `ProgramAssumption`: chip RAM holds instructions, of any kind.
  `MaskAssumption`: `2^VBits` and `2^HBits` are positive, and `x & mask` is a
  natural number no larger than the bits of a position allow. This is
  arithmetic about powers of two and sums over sets of bits; the prover knows
  neither, so it is stated, and TLC evaluates it for the widths of the run.

### What is only model-checked

* Liveness: `RequestServed`, `FramesKeepComing`, `ReadEnds`, `FrameRestart`,
  `BlitEnds`, `StallEnds`, and the liveness parts of `AlarmExact` and
  `SerialDelivers`. The prover has no ENABLED, so fairness cannot be used.
* `TrackReadable`, `CopyMatchesStream`: what a loop over bits or words
  computes for every input, against a reference that is not itself a loop
  (sums over sets of bits, a stream of words with shifts across them).

## Observations that are not runs

Interrupts, CIA and time:

* The event-driven loop of the repository's README hangs: a request made live by a register
  write raises no event (`README.md:125`; `docs/irq_model.md:48` calls that
  loop wrong). `IrqHost` models it as `PublishOn = "event"`.
* A one-shot timer that expires stays at 0 (`cia_timers.c:34`), while the
  comment at line 311 says an underflow reloads. Timer outputs pick their pin
  by comparing register values: with CRB equal to CRA, timer B drives PB6. A
  serial port that leaves output mode with a byte half sent ignores input bits.
* A PORTS or EXTER request set by software is taken away by the next CIA event
  that is not enabled (`cia_interrupt.c:28`). `cia_tod_pulse` ignores
  `stopped`; a key injected while SDR is full is dropped silently.
* A step longer than the blank zone can lose CIA-A's VBL pulse, and the extra
  line of an interlaced long frame is never pulsed to CIA-B: `TodACountsVblanks`
  and `TodBCountsLines` state the limits. At clock 0 of line 0
  `agnus_cycles_to_vertb` counts to the next frame.
* `rigel_load_state` only sets bits in INTENA and INTREQ (`rigel.c:478`);
  `rigel_input_set_fire` writes the composite port value back as external.

Agnus:

* The VERTB restart clears the Copper's `event_latched`, which `copper.h:21`
  says only `rigel_step` clears: a MOVE before VERTB is not reported by a step
  that ends right after it. `EventReported` states the limit.
* A Copper MOVE to COPJMP that jumps to itself falls through
  (`copper_service.c:160`). A jump strobed while the Copper is stopped takes
  FREE slots without fetching until VERTB (`copper_domain.c:42`).
* `docs/agnus.md:25` says that CDANG opens registers below `0x040`;
  `copper_exec_move` blocks those always, and `0x040` to `0x07E` without CDANG.
* `rigel_copper_domain_cycles_to_wait` compares the whole vertical position
  while the WAIT compares eight bits of it, and with a partial mask returns the
  line end even if the WAIT is met earlier on the line: the hint can be late.
* The scheduler marks every unassigned slot FREE while master DMA is on, so
  the branch in which BLTPRI steals a CPU slot is never taken.
  `rigel_cpu_would_stall` stays true for good when a BLTPRI blit is busy and
  BLTEN is off (`rigel.c:753`).
* An active disk read takes every slot that is not refresh's, bitplane and
  sprite slots included, and can steal half of a sprite pair. Refresh slots are
  overwritten by bitplane slots for small DDFSTRT (`slot_scheduler.c:582`). A
  BPLxPT written after the first fetch of a line is lost at the line's end
  (`slot_scheduler.c:911`). Switching SPREN between the two slots of a sprite
  tears its pair. So does a bitplane fetch that takes one of them: one that
  begins between A and B takes the B slot alone, one that begins before may end
  at the A slot. The channel then reads one word a line and drifts out of step
  with its band; `SpriteShowsItsLine` speaks of lines on which both slots are
  the sprite's.
* Exclusive fill gives what inclusive fill gives (`blitter_ref.c:146`), while
  `blitter_fill.c:14` says "exclusive: fill between edges, not on them";
  `blitter_fill.c` and `blitter_logic.c` are not used. `CopyMatchesStream`
  therefore speaks of inclusive fill only. A line of height 0
  publishes zero pointers and takes two slots where one was announced.
  `rigel_set_cycle_exact` in mid-line leaves no slots announced while the blit
  is busy. A copy's RAM effects all happen on its first grant. BLTSIZE while
  busy replaces the command without a BLIT request, and BLTSIZE clears a
  pending one while BLTSIZH does not. Registers written during a blit are
  overwritten when it publishes.

Denise:

* An attached odd sprite uses its own horizontal position, although
  `sprite_attach.c:10` says the even one defines the pair's. The first visible
  line is composed twice, the first time with the sprite data of the line before, which can
  set CLXDAT: `CollisionsKept` states one direction only.
* BPLCON2 bit 6 is used both as KILLEHB and as PF2PRI; a single playfield
  always takes PF1P. The vertical window does not gate composition.
* After a shorter frame old rows remain below it; `framebuffer.c:57` caps a
  row's width at 1024, not at 1024 less its start.
* `docs/denise.md` says the compositor is called once per `rigel_step`; it is
  called every clock (`slot_scheduler.c:898`). `denise_priority_resolve` and
  `dualpf_priority_resolve` are called by tests only; the compositor draws by
  other means, and `LineAsResolved` shows that they agree.

Paula and floppy:

* Without ADKCON.WORDSYNC no DSKSYN accompanies DSKBLK, whatever the comment
  in `disk_dma_service_grant` says: `SyncBesideBlk` is stated under WORDSYNC.
  A write, or a read of length 0, becomes active and never raises DSKBLK. DSKLEN armed during a
  read is disarmed when that read ends.
* `audio_channel_dma_enabled` ignores DMAEN; the low byte of AUDxDAT is never
  played; the deadline of a channel without DMA can be spurious (never late).
* `rigel_chipset_step` runs Agnus through all clocks of a step before Paula
  (`chipset.c:81`), and a channel fetches one word ahead: a step longer than the
  deadline plays at most what the channel held and one word, where shorter steps
  would have fetched on. `CutsInaudible` states the limit. AUDxLEN written while
  the counter is 0 loads the counter at once and leaves the pointer where it was
  (`audio.c:201`), so the first words come from behind the old buffer and not
  from AUDxLC.
* Switching `tx_instant` in mid-frame loses or repeats bytes. `rigel_serial.h`
  says RBF is raised if the receive buffer was empty; it is raised always.
* `rigel_sync_floppy_cia_lines` counts select lines of empty slots, while
  `cia_b_prb_update_floppy` skips them: `StatusIsCurrent` is stated for
  connected drives. A STEP pulse released while its drive is
  deselected loses the next pulse. A disk inserted into a spinning drive is not
  ready until the motor is switched off and on.
* A PAL track fills all but the last two bytes of its buffer.

Around the chipset:

* The bank of the clock is `reg[0][0xD] & 3`, so the OKI default of 1 selects
  bank 1 and the clock reads 0 until the guest writes D; HOLD is not honoured.
  The Ricoh write path keeps one bit of the tens of hours (`rtc.c:285`), so
  hours 20 to 23 are lost; changing from 12 to 24 hours loses PM.
* A command that aborts in mid-transfer leaves the old transfer live
  (`ata_ide.c:313`, `:296`); a read that fails on the host has overwritten the
  buffer of a transfer under way (`asked.spoilt`); a failed write may have
  written part. `hdf_write` does not look at the result of `fflush`
  (`lide.c:134`), where a write smaller than the buffer of stdio meets the host's
  disk: such a failure is reported to the guest as success and the sectors are
  lost, although "HDF writes have to persist" (`lide.c:54`). READ(10) ignores unit attention, and with a count of 0 leaves the old sense.
* 16-bit accesses look for custom registers first and 8-bit ones for boards;
  the debugger looks for slow RAM before fast RAM. A byte written to a custom
  register is a read-modify-write.

## Where the model is coarser than the code

* `IrqHost`: a key or a serial byte from the host (`harness_serial_send`,
  `harness.c:1068`; `main.c:426`; `harness_video.c:280`) raises PORTS or RBF
  between two slices without `harness_sync_ipl`; the 68000 sees it at the next
  access or at the end of the next slice. `LevelMirrored` does not speak of
  these paths.
* `ChipsetStep`: LACE and BEAMCON0 change between steps, not by a Copper MOVE
  within one.
* `Denise`: the end of a line tests whether the line is visible, where the code
  uses the answer latched a clock before (`compositor.c:510`,
  `framebuffer.c:201`): they differ for a BEAMCON0 written in the last clock of
  a line. A DIWHIGH in which only ignored bits are set (`display_window.c:49`)
  counts as 0.
* `DiskDma`: the unit is the word. `disk_track_find_sync` (`disk.c:66`) compares
  at every byte, so it may find DSKSYNC in data or at an odd offset; in the
  model a DSKSYNC other than the encoder's mark is nowhere on the track.
* `Blitter`: line stepper and one-shot routine use the same operator for a
  pixel, translated from both C routines: `LineMatchesReference` is about what
  may come between two pixels, not about the arithmetic of one.
* `SpriteDma`: a control pair with start and stop line 0 ends the list; other
  bits set beside them are not told apart.
* `HostMap`: the bytes of a hunk image are not followed into RAM.
* `Rtc`: months are all of one length, so there are no leap years.

## Not modelled

* SIMD, logging and traces; command line, video output and file handling of the
  harness; its diagnostics (`main.c`, `harness_diag.c`, `hunk.c`): I/O.
* The 68000 itself (external), and the dispatch table of custom register
  addresses: its targets are modelled.
* Paula input (mouse, joystick, pots): counters the host writes and the guest
  reads back, each by one assignment.
* Save and load: copies of the parts' records; the one exception is noted above.
* Audio volume, modulation and mixing: arithmetic on one sample. The autoconfig
  ROM image of a board and the extended ROM window.
* CIA data direction registers beyond the pins other parts read. CIA-B timer
  outputs on PB6/PB7 change the drive lines only at the next write of PRB, as in
  the code.

## Plan

Every safety property of a passing run has a theorem, except `TrackReadable` and
`CopyMatchesStream`. For those the next step is a closed form of what the
loops of `floppy_mfm.c` and of the copy blit hold after each bit or word, as
`SpritesDrawn` and `LineAt` are for the display and for lines; `Induction` has
what is needed to carry such a form through a loop.

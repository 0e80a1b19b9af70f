------------------------------ MODULE CiaTimers ------------------------------
(***************************************************************************)
(* One 8520 CIA: interval timers A and B, the timer outputs on PB6/PB7,    *)
(* the serial port and the ICR.  The chip is one record; each operator is  *)
(* one C function of cia_timers.c, cia_serial.c or cia_ports.c applied to  *)
(* it.  The TOD clock is module CiaTod; the line to Paula is IrqHost.      *)
(*                                                                         *)
(* Control registers are sets of bit names; b5, b6, b7 are INMODE, SPMODE, *)
(* TODIN in CRA and INMODE0, INMODE1, ALARM in CRB, so that the two        *)
(* registers can be compared as values, as the code does.                  *)
(***************************************************************************)
EXTENDS Interrupts, Sequences

CONSTANTS
    Byte,          \* values of a timer register byte (256 in the code)
    SerialBits,    \* bits of the serial data register (8 in the code)
    TimerBytes,    \* bytes the guest writes to the timer latches
    CraValues,     \* values the guest writes to CRA
    CrbValues,     \* values the guest writes to CRB
    PinLevels,     \* levels that devices put on CNT, SP and FLAG
    SdrBytes,      \* bytes the guest writes to SDR and a device sends
    MaxTicks,      \* bound: E-clock ticks of one cia_step
    MaxCiaWrites,  \* bound: timer and control writes per behaviour
    MaxBytes       \* bound: bytes through the serial port per behaviour

CrBits == {"START", "PBON", "OUTMODE", "RUNMODE", "LOAD", "b5", "b6", "b7"}

SdrByte == [1..SerialBits -> {0, 1}]

ASSUME CiaTimersAssumption ==
    /\ Byte \in Nat \ {0}
    /\ SerialBits \in Nat \ {0}
    /\ TimerBytes \subseteq 0..(Byte - 1)
    /\ CraValues \subseteq SUBSET CrBits
    /\ CrbValues \subseteq SUBSET CrBits
    /\ PinLevels \subseteq {0, 1}
    /\ SdrBytes \subseteq SdrByte
    /\ MaxTicks \in Nat /\ MaxCiaWrites \in Nat /\ MaxBytes \in Nat

MaxCount == Byte * Byte - 1

VARIABLES
    chip,       \* CIA_State
    ciaWrites,  \* guest writes so far
    bytes       \* serial bytes so far

timersVars == <<chip, ciaWrites, bytes>>

ChipType ==
    [cra: SUBSET (CrBits \ {"LOAD"}), crb: SUBSET (CrBits \ {"LOAD"}),
     ta_latch: 0..MaxCount, ta_counter: 0..MaxCount,
     tb_latch: 0..MaxCount, tb_counter: 0..MaxCount,
     pb_timer_out: SUBSET {6, 7}, pb_pulse_mask: SUBSET {6, 7},
     icr_data: SUBSET IcrBits, icr_mask: SUBSET IcrBits, irq_asserted: BOOLEAN,
     cnt_level: {0, 1}, sp_input_level: {0, 1}, flag_level: {0, 1},
     sdr: SdrByte, sdr_full: BOOLEAN, serial_in: Seq({0, 1}),
     serial_out_shift: Seq({0, 1}), serial_out_busy: BOOLEAN,
     serial_out_buffer: SdrByte, serial_out_buffer_full: BOOLEAN,
     wire: Seq({0, 1}), started: Seq(SdrByte)]

Zero == [i \in 1..SerialBits |-> 0]

(* cia_reset.  serial_in holds the serial_in_bits received so far and      *)
(* serial_out_shift the serial_out_bits still to send.  wire and started   *)
(* record what left the SP pin and which bytes began to be sent.           *)
cia_reset ==
    [cra |-> {}, crb |-> {},
     ta_latch |-> MaxCount, ta_counter |-> MaxCount,
     tb_latch |-> MaxCount, tb_counter |-> MaxCount,
     pb_timer_out |-> {6, 7}, pb_pulse_mask |-> {},
     icr_data |-> {}, icr_mask |-> {}, irq_asserted |-> FALSE,
     cnt_level |-> 1, sp_input_level |-> 1, flag_level |-> 1,
     sdr |-> Zero, sdr_full |-> FALSE, serial_in |-> <<>>,
     serial_out_shift |-> <<>>, serial_out_busy |-> FALSE,
     serial_out_buffer |-> Zero, serial_out_buffer_full |-> FALSE,
     wire |-> <<>>, started |-> <<>>]

TimersInit == chip = cia_reset /\ ciaWrites = 0 /\ bytes = 0

-----------------------------------------------------------------------------
(* Serial port: cia_serial_*                                               *)

(* Mutant: a byte still being shifted out is replaced.                     *)
serial_start_output_Overrun(k) ==
    IF ~ k.serial_out_buffer_full THEN k
    ELSE [k EXCEPT !.serial_out_shift = k.serial_out_buffer,
                   !.serial_out_busy = TRUE,
                   !.serial_out_buffer_full = FALSE,
                   !.started = Append(@, k.serial_out_buffer)]

serial_start_output(k) ==
    IF k.serial_out_busy \/ ~ k.serial_out_buffer_full THEN k
    ELSE [k EXCEPT !.serial_out_shift = k.serial_out_buffer,
                   !.serial_out_busy = TRUE,
                   !.serial_out_buffer_full = FALSE,
                   !.started = Append(@, k.serial_out_buffer)]

(* One bit goes out per underflow of timer A; the last one frees the shift *)
(* register, requests SP and lets a buffered byte follow at once.          *)
serial_on_timer_a_underflow(k) ==
    LET b == serial_start_output(k)
        o == [b EXCEPT !.wire = Append(@, Head(b.serial_out_shift)),
                       !.serial_out_shift = Tail(@)]
    IN IF "b6" \notin k.cra THEN k
       ELSE IF ~ b.serial_out_busy THEN b
       ELSE IF o.serial_out_shift # <<>> THEN o
       ELSE serial_start_output(
                cia_raise([o EXCEPT !.serial_out_busy = FALSE], {"SP"}))

serial_on_cnt_rising(k) ==
    LET bits == Append(k.serial_in, k.sp_input_level)
    IN IF k.serial_out_busy \/ k.serial_out_buffer_full THEN k
       ELSE IF Len(bits) < SerialBits THEN [k EXCEPT !.serial_in = bits]
       ELSE cia_raise([k EXCEPT !.sdr = bits, !.sdr_full = TRUE,
                                !.serial_in = <<>>], {"SP"})

serial_write_sdr(k, value) ==
    IF "b6" \notin k.cra THEN [k EXCEPT !.sdr = value]
    ELSE serial_start_output([k EXCEPT !.sdr = value,
                                       !.serial_out_buffer = value,
                                       !.serial_out_buffer_full = TRUE])

(* A byte from the keyboard; dropped while the last one is unread.         *)
serial_receive_byte(k, value) ==
    IF k.sdr_full THEN k
    ELSE cia_raise([k EXCEPT !.sdr = value, !.sdr_full = TRUE], {"SP"})

-----------------------------------------------------------------------------
(* Timers: cia_timers_*                                                    *)

(* Mutant: a period of latch ticks instead of latch + 1.                   *)
timer_advance_ShortPeriod(counter, latch, continuous, ticks) ==
    IF ticks <= counter THEN [counter |-> counter - ticks, uf |-> 0]
    ELSE IF ~ continuous THEN [counter |-> 0, uf |-> 1]
    ELSE LET left  == ticks - (counter + 1)
             cycle == IF latch = 0 THEN 1 ELSE latch
         IN  [counter |-> latch - (left % cycle), uf |-> 1 + left \div cycle]

(* ticks >= 1 clocks of a counter: its new value and how often it passed 0. *)
timer_advance(counter, latch, continuous, ticks) ==
    IF ticks <= counter THEN [counter |-> counter - ticks, uf |-> 0]
    ELSE IF ~ continuous THEN [counter |-> 0, uf |-> 1]
    ELSE LET left  == ticks - (counter + 1)
             cycle == latch + 1
         IN  [counter |-> latch - (left % cycle), uf |-> 1 + left \div cycle]

(* The same for counted events, as the loop of cia_timer_advance_events.   *)
timer_advance_events(counter, latch, continuous, events) ==
    LET run[e \in 0..events] ==
          [c \in 0..MaxCount |->
             IF e <= c THEN [counter |-> c - e, uf |-> 0]
             ELSE IF ~ continuous THEN [counter |-> 0, uf |-> 1]
             ELSE LET rest == run[e - (c + 1)][latch]
                  IN  [counter |-> rest.counter, uf |-> rest.uf + 1]]
    IN  run[events][counter]

(* The pin is chosen by comparing register values: CRB equal to CRA drives *)
(* PB6 for timer B as well.                                                *)
timer_apply_underflow_output(k, control, uf) ==
    LET pin == IF control = k.cra THEN 6 ELSE 7
    IN IF "PBON" \notin control THEN k
       ELSE IF "OUTMODE" \in control
       THEN [k EXCEPT !.pb_pulse_mask = @ \ {pin},
                      !.pb_timer_out =
                          IF uf % 2 = 0 THEN @
                          ELSE IF pin \in @ THEN @ \ {pin} ELSE @ \cup {pin}]
       ELSE [k EXCEPT !.pb_pulse_mask = @ \cup {pin}, !.pb_timer_out = @ \ {pin}]

timers_advance_pb_outputs(k) ==
    [k EXCEPT !.pb_timer_out = @ \cup k.pb_pulse_mask, !.pb_pulse_mask = {}]

(* What follows uf > 0 underflows of timer A, of timer B.                  *)
timer_a_underflow(k, uf) ==
    LET r == timer_apply_underflow_output(cia_raise(k, {"TA"}), k.cra, uf)
        shift[n \in 0..uf] ==
            IF n = 0 THEN r ELSE serial_on_timer_a_underflow(shift[n - 1])
    IN  IF uf = 0 THEN k
        ELSE [shift[uf] EXCEPT !.cra = IF "RUNMODE" \in @ THEN @ \ {"START"} ELSE @]

timer_b_underflow(k, uf) ==
    LET r == timer_apply_underflow_output(cia_raise(k, {"TB"}), k.crb, uf)
    IN  IF uf = 0 THEN k
        ELSE [r EXCEPT !.crb = IF "RUNMODE" \in @ THEN @ \ {"START"} ELSE @]

InMode(crb) == (IF "b5" \in crb THEN 1 ELSE 0) + (IF "b6" \in crb THEN 2 ELSE 0)

Continuous(control) == "RUNMODE" \notin control

(* E-clock ticks: timer A first; timer B counts ticks or A's underflows.   *)
timers_step(k, ticks) ==
    LET idle == [counter |-> k.ta_counter, uf |-> 0]
        a  == IF "START" \in k.cra /\ "b5" \notin k.cra
              THEN timer_advance(k.ta_counter, k.ta_latch, Continuous(k.cra), ticks)
              ELSE idle
        ka == timer_a_underflow([k EXCEPT !.ta_counter = a.counter], a.uf)
        m  == InMode(ka.crb)
        b  == IF "START" \in ka.crb /\ m = 0
              THEN timer_advance(ka.tb_counter, ka.tb_latch, Continuous(ka.crb), ticks)
              ELSE IF "START" \in ka.crb /\ (m = 2 \/ (m = 3 /\ ka.cnt_level = 1))
              THEN timer_advance_events(ka.tb_counter, ka.tb_latch,
                                        Continuous(ka.crb), a.uf)
              ELSE [counter |-> ka.tb_counter, uf |-> 0]
    IN  timer_b_underflow([ka EXCEPT !.tb_counter = b.counter], b.uf)

(* Rising edges on CNT.                                                    *)
timers_count_cnt(k, pulses) ==
    LET a  == IF "START" \in k.cra /\ "b5" \in k.cra
              THEN timer_advance_events(k.ta_counter, k.ta_latch,
                                        Continuous(k.cra), pulses)
              ELSE [counter |-> k.ta_counter, uf |-> 0]
        ka == timer_a_underflow([k EXCEPT !.ta_counter = a.counter], a.uf)
        m  == InMode(ka.crb)
        b  == IF "START" \in ka.crb /\ m \in {1, 3}
              THEN timer_advance_events(ka.tb_counter, ka.tb_latch,
                       Continuous(ka.crb), IF m = 1 THEN pulses ELSE a.uf)
              ELSE [counter |-> ka.tb_counter, uf |-> 0]
    IN  timer_b_underflow([ka EXCEPT !.tb_counter = b.counter], b.uf)

(* cia_step; the TOD part is a no-op (ticks_per_inc is 0 for both chips).   *)
cia_step(k, ticks) == timers_step(timers_advance_pb_outputs(k), ticks)

-----------------------------------------------------------------------------
(* Register writes: cia_timers_write_reg.                                  *)

WithLo(latch, val) == (latch \div Byte) * Byte + val
WithHi(latch, val) == val * Byte + (latch % Byte)

write_talo(k, val) == [k EXCEPT !.ta_latch = WithLo(@, val)]
write_tblo(k, val) == [k EXCEPT !.tb_latch = WithLo(@, val)]

(* A stopped timer is loaded, and a stopped one-shot timer started.        *)
write_tahi(k, val) ==
    LET l == WithHi(k.ta_latch, val)
    IN IF "START" \in k.cra THEN [k EXCEPT !.ta_latch = l]
       ELSE [k EXCEPT !.ta_latch = l, !.ta_counter = l,
                      !.cra = IF "RUNMODE" \in @ THEN @ \cup {"START"} ELSE @]

write_tbhi(k, val) ==
    LET l == WithHi(k.tb_latch, val)
    IN IF "START" \in k.crb THEN [k EXCEPT !.tb_latch = l]
       ELSE [k EXCEPT !.tb_latch = l, !.tb_counter = l,
                      !.crb = IF "RUNMODE" \in @ THEN @ \cup {"START"} ELSE @]

write_cra(k, val) ==
    [k EXCEPT !.cra = val \ {"LOAD"},
              !.pb_timer_out = IF "PBON" \in val THEN @ \cup {6} ELSE @,
              !.ta_counter = IF "LOAD" \in val THEN k.ta_latch ELSE @]

write_crb(k, val) ==
    [k EXCEPT !.crb = val \ {"LOAD"},
              !.pb_timer_out = IF "PBON" \in val THEN @ \cup {7} ELSE @,
              !.tb_counter = IF "LOAD" \in val THEN k.tb_latch ELSE @]

-----------------------------------------------------------------------------
(* Actions.                                                                *)

(* cia_step with the E-clock ticks of one rigel_chipset_step.               *)
Step(ticks) ==
    /\ chip' = cia_step(chip, ticks)
    /\ UNCHANGED <<ciaWrites, bytes>>

Guest(k) ==
    /\ ciaWrites < MaxCiaWrites
    /\ ciaWrites' = ciaWrites + 1
    /\ chip' = k
    /\ UNCHANGED bytes

WriteLatch(val) ==
    \/ Guest(write_talo(chip, val))
    \/ Guest(write_tahi(chip, val))
    \/ Guest(write_tblo(chip, val))
    \/ Guest(write_tbhi(chip, val))

WriteCra(val) == Guest(write_cra(chip, val))

WriteCrb(val) == Guest(write_crb(chip, val))

(* The read of SDR frees it for the next received byte.                    *)
ReadSdr ==
    /\ chip.sdr_full
    /\ chip' = [chip EXCEPT !.sdr_full = FALSE]
    /\ UNCHANGED <<ciaWrites, bytes>>

ReadChipIcr ==
    /\ chip.icr_data # {}
    /\ chip' = cia_read_icr(chip)
    /\ UNCHANGED <<ciaWrites, bytes>>

WriteChipIcr(value) == Guest(cia_write_icr(chip, value))

Transfer(k) ==
    /\ bytes < MaxBytes
    /\ bytes' = bytes + 1
    /\ chip' = k
    /\ UNCHANGED ciaWrites

WriteSdr(val) == Transfer(serial_write_sdr(chip, val))

ReceiveByte(val) == Transfer(serial_receive_byte(chip, val))

(* The CNT, SP and FLAG pins.                                              *)
SetCnt(level) ==
    LET k == [chip EXCEPT !.cnt_level = level]
    IN Guest(IF chip.cnt_level = 0 /\ level = 1
             THEN timers_count_cnt(serial_on_cnt_rising(k), 1) ELSE k)

PulseCnt(pulses) == Guest(timers_count_cnt(chip, pulses))

SetSp(level) == Guest([chip EXCEPT !.sp_input_level = level])

SetFlag(level) ==
    LET k == [chip EXCEPT !.flag_level = level]
    IN Guest(IF chip.flag_level = 1 /\ level = 0 THEN cia_raise(k, {"FLG"}) ELSE k)

Pins == \E l \in PinLevels : \/ SetCnt(l) \/ SetSp(l) \/ SetFlag(l)
                              \/ \E n \in 1..MaxTicks : PulseCnt(n)

Registers ==
    \/ \E v \in TimerBytes : WriteLatch(v)
    \/ \E v \in CraValues : WriteCra(v)
    \/ \E v \in CrbValues : WriteCrb(v)
    \/ \E b \in BOOLEAN : WriteChipIcr([setclr |-> b, bits |-> {"TA", "TB"}])
    \/ ReadChipIcr
    \/ ReadSdr
    \/ \E v \in SdrBytes : WriteSdr(v) \/ ReceiveByte(v)

Clock == \E n \in 1..MaxTicks : Step(n)

TimersNext == Clock \/ Registers \/ Pins

TimersSpec == TimersInit /\ [][TimersNext]_timersVars

-----------------------------------------------------------------------------
TimersTypeOK ==
    /\ chip \in ChipType
    /\ Len(chip.serial_in) < SerialBits
    /\ chip.serial_out_busy = (chip.serial_out_shift # <<>>)
    /\ ciaWrites \in 0..MaxCiaWrites
    /\ bytes \in 0..MaxBytes

(* The host may cut time into steps of any size: one cia_step of n ticks   *)
(* leaves counters, ICR, START bits and serial port as n steps of one tick *)
(* do.  (The low pulse on PB6/PB7 lasts one step and is left out.)         *)
BatchEqualsTicks ==
    LET ticks[n \in 0..MaxTicks] ==
            IF n = 0 THEN chip ELSE cia_step(ticks[n - 1], 1)
        Internal(k) == [k EXCEPT !.pb_timer_out = {}, !.pb_pulse_mask = {}]
    IN \A n \in 1..MaxTicks : Internal(cia_step(chip, n)) = Internal(ticks[n])

(* The bits on the SP pin are the bytes that were started, in order, whole *)
(* and without overlap: what is still in the shift register completes them. *)
SerialStreamIntact ==
    LET n == SerialBits
        stream == [i \in 1..(n * Len(chip.started)) |->
                      chip.started[1 + (i - 1) \div n][1 + ((i - 1) % n)]]
    IN  chip.wire \o chip.serial_out_shift = stream

SerialDriven == {"START", "b6"} \subseteq chip.cra
                /\ {"RUNMODE", "b5"} \cap chip.cra = {}

DrainTicks == 2 * SerialBits * (MaxCount + 1)

(* While timer A runs freely in serial output mode the port drains in      *)
(* bounded time: after as many of the longest periods as two bytes have    *)
(* bits, nothing is left in the shift register or in the buffer, however   *)
(* modes, loads and writes of SDR were mixed before.                       *)
SerialDrains ==
    SerialDriven => LET k == cia_step(chip, DrainTicks)
                    IN  ~ k.serial_out_busy /\ ~ k.serial_out_buffer_full

(* Whatever is written to SDR and to the mode bits, and whenever: the      *)
(* port's state is well formed, the bits on SP are whole bytes in order,   *)
(* and a port that is driven drains.                                       *)
SerialSound == TimersTypeOK /\ SerialStreamIntact /\ SerialDrains
=============================================================================

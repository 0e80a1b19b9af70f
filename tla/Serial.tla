------------------------------- MODULE Serial -------------------------------
(***************************************************************************)
(* Paula's serial port: a transmit buffer in front of a shift register,    *)
(* the FIFO from which the host collects what was sent, and the one-byte   *)
(* receive buffer.  src/src/chipset/paula/serial.c,                        *)
(* src/src/domains/serial/serial_domain.c, src/src/core/rigel_serial_api.c *)
(*                                                                         *)
(* A byte is the number of the write that produced it, so that the bytes   *)
(* of a stream can be told apart.                                          *)
(***************************************************************************)
EXTENDS Integers, Sequences

CONSTANTS
    FrameLengths, \* clocks of a frame: 10 * (SERPER + 1) in the code
    FifoSize,     \* RIGEL_PAULA_SERIAL_TX_FIFO_SIZE
    MaxSerStep,   \* bound: colour clocks of one rigel_step
    MaxBytes,     \* bound: SERDAT writes
    MaxHostOps    \* bound: mode switches and resets

ASSUME SerialAssumption ==
    /\ FrameLengths \subseteq Nat \ {0} /\ FrameLengths # {}
    /\ FifoSize \in Nat \ {0}
    /\ MaxSerStep \in Nat \ {0} /\ MaxBytes \in Nat /\ MaxHostOps \in Nat

None == 0

VARIABLES
    ser,        \* serial_state_t
    serreq,     \* TBE and RBF in INTREQ
    sent,       \* history: SERDAT writes of the stream, overwritten ones left out
    got,        \* history: bytes the host has popped
    mixed,      \* history: the mode was switched, or used, in mid-frame
    nbytes,     \* SERDAT writes so far
    hostOps     \* mode switches and resets so far

serialVars == <<ser, serreq, sent, got, mixed, nbytes, hostOps>>

Byte == 0..MaxBytes

SerialTypeOK ==
    /\ ser \in [frame: FrameLengths, tx_buffer: Byte, tx_buffer_valid: BOOLEAN,
                tx_shift_reg: Byte, tx_shift_busy: BOOLEAN,
                tx_cycles_remaining: Nat, rx_buffer_full: BOOLEAN,
                overrun: BOOLEAN, tx_instant: BOOLEAN,
                tx_fifo: Seq(Byte), tx_overflow: BOOLEAN]
    /\ ser.tx_shift_busy => ser.tx_cycles_remaining > 0
    /\ Len(ser.tx_fifo) <= FifoSize
    /\ serreq \subseteq {"TBE", "RBF"}
    /\ sent \in Seq(Byte) /\ got \in Seq(Byte)
    /\ mixed \in BOOLEAN
    /\ nbytes \in 0..MaxBytes /\ hostOps \in 0..MaxHostOps

(* serial_reset: SERPER is 0 again, the shortest frame.                    *)
ShortestFrame == CHOOSE f \in FrameLengths : \A g \in FrameLengths : f <= g

serial_reset ==
    [frame |-> ShortestFrame, tx_buffer |-> None, tx_buffer_valid |-> FALSE,
     tx_shift_reg |-> None, tx_shift_busy |-> FALSE, tx_cycles_remaining |-> 0,
     rx_buffer_full |-> FALSE, overrun |-> FALSE, tx_instant |-> FALSE,
     tx_fifo |-> <<>>, tx_overflow |-> FALSE]

SerialInit ==
    /\ ser \in {serial_reset, [serial_reset EXCEPT !.tx_instant = TRUE]}
    /\ serreq = {} /\ sent = <<>> /\ got = <<>>
    /\ mixed = FALSE /\ nbytes = 0 /\ hostOps = 0

-----------------------------------------------------------------------------
(* Transmitting.                                                           *)

serial_queue_tx_byte(s, b) ==
    IF Len(s.tx_fifo) >= FifoSize THEN [s EXCEPT !.tx_overflow = TRUE]
    ELSE [s EXCEPT !.tx_fifo = Append(@, b)]

CanShift(s) == s.tx_buffer_valid /\ ~s.tx_shift_busy

(* serial_start_tx_shift: the caller raises TBE when CanShift.             *)
serial_start_tx_shift(s) ==
    IF ~CanShift(s) THEN s
    ELSE LET t == [s EXCEPT !.tx_shift_reg = s.tx_buffer, !.tx_shift_busy = TRUE,
                            !.tx_cycles_remaining = s.frame,
                            !.tx_buffer_valid = FALSE]
         IN IF s.tx_instant THEN serial_queue_tx_byte(t, t.tx_shift_reg) ELSE t

(* The shift register is done: its byte reaches the FIFO.                  *)
frame_done(s) ==
    LET t == [s EXCEPT !.tx_cycles_remaining = 0, !.tx_shift_busy = FALSE,
                       !.tx_shift_reg = None]
    IN IF s.tx_instant THEN t ELSE serial_queue_tx_byte(t, s.tx_shift_reg)

(* Mutant: the next byte is not started when a frame ends.                 *)
serial_step_NoChain(s, n) ==
    IF ~s.tx_shift_busy THEN s
    ELSE IF n < s.tx_cycles_remaining
    THEN [s EXCEPT !.tx_cycles_remaining = @ - n]
    ELSE frame_done(s)

(* serial_step: at most one frame ends in a step, whatever its length, and *)
(* a frame that starts in a step does not advance in it.                   *)
serial_step(s, n) ==
    IF ~s.tx_shift_busy THEN serial_start_tx_shift(s)
    ELSE IF n < s.tx_cycles_remaining
    THEN [s EXCEPT !.tx_cycles_remaining = @ - n]
    ELSE serial_start_tx_shift(frame_done(s))

(* A shift that started in the step leaves the buffer free: TBE.           *)
Started(s, t) == s.tx_buffer_valid /\ ~t.tx_buffer_valid

SerStep(n) ==
    /\ ser' = serial_step(ser, n)
    /\ serreq' = IF Started(ser, ser') THEN serreq \cup {"TBE"} ELSE serreq
    /\ UNCHANGED <<sent, got, mixed, nbytes, hostOps>>

(* serial_write_serdat *)
serial_write_serdat(s, b) ==
    IF s.tx_instant THEN serial_queue_tx_byte(s, b)
    ELSE serial_start_tx_shift([s EXCEPT !.tx_buffer = b, !.tx_buffer_valid = TRUE])

(* The byte a write to a full buffer replaces leaves the stream.           *)
WriteSerdat ==
    /\ nbytes < MaxBytes
    /\ nbytes' = nbytes + 1
    /\ ser' = serial_write_serdat(ser, nbytes')
    /\ serreq' = IF ser.tx_instant \/ ~ser'.tx_buffer_valid
                 THEN serreq \cup {"TBE"} ELSE serreq
    /\ sent' = IF ser.tx_buffer_valid /\ ~ser.tx_instant
               THEN [sent EXCEPT ![Len(sent)] = nbytes'] ELSE Append(sent, nbytes')
    /\ mixed' = (mixed \/ (ser.tx_instant /\ (ser.tx_shift_busy \/ ser.tx_buffer_valid)))
    /\ UNCHANGED <<got, hostOps>>

WriteSerper(f) ==
    /\ ser.frame # f
    /\ hostOps < MaxHostOps /\ hostOps' = hostOps + 1
    /\ ser' = [ser EXCEPT !.frame = f]
    /\ UNCHANGED <<serreq, sent, got, mixed, nbytes>>

(* rigel_serial_set_tx_instant *)
SetInstant(b) ==
    /\ b # ser.tx_instant
    /\ hostOps < MaxHostOps /\ hostOps' = hostOps + 1
    /\ ser' = [ser EXCEPT !.tx_instant = b]
    /\ mixed' = (mixed \/ ser.tx_shift_busy \/ ser.tx_buffer_valid)
    /\ UNCHANGED <<serreq, sent, got, nbytes>>

(* rigel_serial_pop_tx_byte *)
Pop ==
    /\ ser.tx_fifo # <<>>
    /\ got' = Append(got, Head(ser.tx_fifo))
    /\ ser' = [ser EXCEPT !.tx_fifo = Tail(@)]
    /\ UNCHANGED <<serreq, sent, mixed, nbytes, hostOps>>

-----------------------------------------------------------------------------
(* Receiving: rigel_serial_receive_byte and the read of SERDATR, which     *)
(* clears the buffer and the overrun flag it reports.                      *)

serial_receive_byte(s) ==
    [s EXCEPT !.overrun = @ \/ s.rx_buffer_full, !.rx_buffer_full = TRUE]

Receive ==
    /\ ser' = serial_receive_byte(ser)
    /\ serreq' = serreq \cup {"RBF"}
    /\ UNCHANGED <<sent, got, mixed, nbytes, hostOps>>

ReadSerdatr ==
    /\ ser' = [ser EXCEPT !.rx_buffer_full = FALSE, !.overrun = FALSE]
    /\ UNCHANGED <<serreq, sent, got, mixed, nbytes, hostOps>>

(* The guest clears a request.                                             *)
AckSerial(r) ==
    /\ r \in serreq
    /\ serreq' = serreq \ {r}
    /\ UNCHANGED <<ser, sent, got, mixed, nbytes, hostOps>>

(* rigel_reset: what is in flight is gone, and tx_instant comes back only  *)
(* if the configuration asks for it.  INTREQ is reset with Paula.          *)
ResetSerial(instant) ==
    /\ hostOps < MaxHostOps /\ hostOps' = hostOps + 1
    /\ ser' = [serial_reset EXCEPT !.tx_instant = instant]
    /\ serreq' = {} /\ sent' = <<>> /\ got' = <<>>
    /\ mixed' = FALSE
    /\ UNCHANGED nbytes

SerialNext ==
    \/ \E n \in 1..MaxSerStep : SerStep(n)
    \/ WriteSerdat \/ Pop \/ Receive \/ ReadSerdatr
    \/ \E f \in FrameLengths : WriteSerper(f)
    \/ \E b \in BOOLEAN : SetInstant(b) \/ ResetSerial(b)
    \/ \E r \in {"TBE", "RBF"} : AckSerial(r)

-----------------------------------------------------------------------------
(* What the shift register and the buffer still have to deliver.           *)
InFlight ==
    (IF ser.tx_shift_busy THEN <<ser.tx_shift_reg>> ELSE <<>>) \o
    (IF ser.tx_buffer_valid THEN <<ser.tx_buffer>> ELSE <<>>)

(* The host receives exactly the bytes the guest wrote, in order, whatever *)
(* the baud rate and the steps are, unless tx_overflow says that some did  *)
(* not fit the FIFO, or the instant mode was switched or used while a      *)
(* frame was under way.                                                    *)
TransmitExact ==
    ~mixed /\ ~ser.tx_overflow => got \o ser.tx_fifo \o InFlight = sent

(* A guest that filled the buffer is told by TBE when it is free again.    *)
BufferFreesUp == ser.tx_buffer_valid ~> ("TBE" \in serreq \/ sent = <<>>)

SerialSpec ==
    /\ SerialInit /\ [][SerialNext]_serialVars
    /\ WF_serialVars(\E n \in 1..MaxSerStep : SerStep(n))

(* The transmitter stays within its limits, delivers what was written, and *)
(* tells the guest when it can take more.                                  *)
SerialDelivers == []SerialTypeOK /\ []TransmitExact /\ BufferFreesUp
=============================================================================

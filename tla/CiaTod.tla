------------------------------- MODULE CiaTod -------------------------------
(***************************************************************************)
(* The time-of-day counter of a CIA: a 24-bit binary event counter read    *)
(* and written a byte at a time while pulses keep arriving.                *)
(* src/src/cia/cia_tod.c; pulses come from rigel_chipset_step.             *)
(*                                                                         *)
(* The guest reads HI, MID, LO in that order, as the latch requires, and   *)
(* is free to take pulses, write the alarm or set the clock in between.    *)
(***************************************************************************)
EXTENDS Interrupts, Sequences

CONSTANTS
    Base,       \* values of one TOD byte (256 in the code)
    MaxPulses,  \* bound: pulses delivered by one rigel_chipset_step
    MaxTodWrites \* bound: TOD and CRB writes of the guest

ASSUME TodAssumption ==
    /\ Base \in Nat \ {0, 1}
    /\ MaxPulses \in Nat
    /\ MaxTodWrites \in Nat

Modulus == Base * Base * Base

Time == 0..(Modulus - 1)

Hi(v)  == v \div (Base * Base)
Mid(v) == (v \div Base) % Base
Lo(v)  == v % Base

VARIABLES
    tod,       \* CIA_TOD_State
    alarmSel,  \* CRB.ALARM: writes go to the alarm
    icr,       \* the chip's interrupt fields
    got,       \* the bytes of the read in progress, oldest first
    shown,     \* the counter when the read in progress began
    todWrites  \* guest writes so far

todVars == <<tod, alarmSel, icr, got, shown, todWrites>>

TodTypeOK ==
    /\ tod \in [counter: Time, alarm: Time, latch: Time, latched: BOOLEAN,
                stopped: BOOLEAN]
    /\ alarmSel \in BOOLEAN
    /\ icr \in CiaIcr
    /\ got \in Seq(0..(Base - 1)) /\ Len(got) <= 3
    /\ shown \in Time
    /\ todWrites \in 0..MaxTodWrites

(* cia_tod_reset: the alarm has its two low bytes at the maximum.          *)
tod_reset == [counter |-> 0, alarm |-> Base * Base - 1, latch |-> 0,
              latched |-> FALSE, stopped |-> FALSE]

TodInit ==
    /\ tod = tod_reset
    /\ alarmSel = FALSE
    /\ icr = cia_icr_reset
    /\ got = <<>>
    /\ shown = 0
    /\ todWrites = 0

-----------------------------------------------------------------------------
Plus(v, n) == (v + n) % Modulus

(* Mutant: the alarm is compared once, after all the pulses of a step.     *)
tod_alarm_hit_Last(t, n) == Plus(t.counter, n) = t.alarm

(* cia_tod_increment compares the alarm after each of the n increments.    *)
tod_alarm_hit(t, n) == \E i \in 1..n : Plus(t.counter, i) = t.alarm

(* cia_tod_pulse.  It does not look at tod.stopped.                        *)
Pulse(n) ==
    /\ tod' = [tod EXCEPT !.counter = Plus(@, n)]
    /\ icr' = IF tod_alarm_hit(tod, n) THEN cia_raise(icr, {"ALRM"}) ELSE icr
    /\ UNCHANGED <<alarmSel, got, shown, todWrites>>

(* cia_tod_read.  HI latches, MID and LO come from the latch, LO releases. *)
ReadHi ==
    /\ tod' = [tod EXCEPT !.latch = tod.counter, !.latched = TRUE]
    /\ got' = <<Hi(tod.counter)>>
    /\ shown' = tod.counter
    /\ UNCHANGED <<alarmSel, icr, todWrites>>

Displayed == IF tod.latched THEN tod.latch ELSE tod.counter

(* Mutant: the middle byte is read from the running counter.               *)
ReadMid_Live ==
    /\ Len(got) = 1
    /\ got' = Append(got, Mid(tod.counter))
    /\ UNCHANGED <<tod, alarmSel, icr, shown, todWrites>>

ReadMid ==
    /\ Len(got) = 1
    /\ got' = Append(got, Mid(Displayed))
    /\ UNCHANGED <<tod, alarmSel, icr, shown, todWrites>>

ReadLo ==
    /\ Len(got) = 2
    /\ got' = Append(got, Lo(Displayed))
    /\ tod' = [tod EXCEPT !.latched = FALSE]
    /\ UNCHANGED <<alarmSel, icr, shown, todWrites>>

(* cia_tod_write: CRB.ALARM selects the target; a write to the time marks  *)
(* the clock stopped until the low byte is written.                        *)
Target == IF alarmSel THEN tod.alarm ELSE tod.counter

Store(v, stop) ==
    /\ todWrites < MaxTodWrites
    /\ todWrites' = todWrites + 1
    /\ tod' = IF alarmSel THEN [tod EXCEPT !.alarm = v]
              ELSE [tod EXCEPT !.counter = v, !.stopped = stop]
    /\ UNCHANGED <<alarmSel, icr, got, shown>>

WriteHi(b)  == Store(b * Base * Base + (Target % (Base * Base)), TRUE)
WriteMid(b) == Store(Hi(Target) * Base * Base + b * Base + Lo(Target), TRUE)
WriteLo(b)  == Store((Target - Lo(Target)) + b, FALSE)

SelectAlarm(b) ==
    /\ b # alarmSel
    /\ todWrites < MaxTodWrites
    /\ todWrites' = todWrites + 1
    /\ alarmSel' = b
    /\ UNCHANGED <<tod, icr, got, shown>>

ReadTodIcr ==
    /\ icr.icr_data # {}
    /\ icr' = cia_read_icr(icr)
    /\ UNCHANGED <<tod, alarmSel, got, shown, todWrites>>

TodNext ==
    \/ \E n \in 1..MaxPulses : Pulse(n)
    \/ ReadHi \/ ReadMid \/ ReadLo
    \/ \E b \in 0..(Base - 1) : WriteHi(b) \/ WriteMid(b) \/ WriteLo(b)
    \/ \E b \in BOOLEAN : SelectAlarm(b)
    \/ ReadTodIcr

TodSpec == TodInit /\ [][TodNext]_todVars

-----------------------------------------------------------------------------
(* A time read HI, MID, LO is one moment of the clock, not a mix of bytes  *)
(* from before and after a carry: cia_tod_read latches on the HI read.     *)
ReadIsOneMoment ==
    Len(got) = 3 => got[1] * Base * Base + got[2] * Base + got[3] = shown

(* A pulse that brings the counter onto the alarm, or past it in a step    *)
(* with several pulses, leaves ALRM latched; no other pulse latches it.    *)
AlarmOnTime ==
    [][(todWrites' = todWrites /\ tod'.counter # tod.counter)
          => LET n == CHOOSE i \in 1..(Modulus - 1) :
                          (tod.counter + i) % Modulus = tod'.counter
                 passed == {(tod.counter + i) % Modulus : i \in 1..n}
             IN  icr'.icr_data = icr.icr_data \cup
                                 (IF tod.alarm \in passed THEN {"ALRM"} ELSE {})]_todVars

(* However pulses fall between the accesses, the clock's state is well     *)
(* formed and a read of its three bytes is one moment.                     *)
TodReadSound == TodTypeOK /\ ReadIsOneMoment
=============================================================================

------------------------------- MODULE MCCia --------------------------------
(***************************************************************************)
(* One CIA: its timers and serial port, with a byte of two values (so the  *)
(* 16-bit counters run from 0 to 3) and a serial register of two bits; and *)
(* its clock.  The halves touch different registers and each keeps the     *)
(* interrupt latches it raises, so a behaviour here moves one of them.     *)
(***************************************************************************)
EXTENDS CiaTimers, CiaTod

MCCraValues == {{}, {"RUNMODE"}, {"START", "LOAD", "RUNMODE"}, {"START", "b5"},
                {"START", "PBON", "OUTMODE", "b6"}, {"START", "LOAD", "b6"}}

MCCrbValues == {{"START", "LOAD"}, {"START", "RUNMODE", "PBON", "b6"},
                {"START", "b5"}, {"START", "b5", "b6"}}

MCSdrBytes == {<<0, 1>>}

VARIABLE mover  \* the half that moves, once one has

ciaVars == <<timersVars, todVars, mover>>

Moves(half) == mover \in {"any", half} /\ mover' = half

CiaInit == TimersInit /\ TodInit /\ mover = "any"

CiaNext ==
    \/ Moves("timers") /\ TimersNext /\ UNCHANGED todVars
    \/ Moves("tod") /\ TodNext /\ UNCHANGED timersVars

(* VBL and HSYNC keep coming, and the guest reads its interrupts.          *)
CiaSpec ==
    /\ CiaInit /\ [][CiaNext]_ciaVars
    /\ WF_todVars(mover = "tod" /\ Pulse(1))
    /\ WF_todVars(mover = "tod" /\ ReadTodIcr)

(* The clock's alarm keeps going off: the counter wraps and meets it again *)
(* (cia_tod_increment).                                                    *)
AlarmRecurs == []<>(mover = "tod") => []<>("ALRM" \in icr.icr_data)

(* The alarm fires on time and at no other, and again each time the        *)
(* counter comes round.                                                    *)
AlarmExact == AlarmOnTime /\ AlarmRecurs
=============================================================================

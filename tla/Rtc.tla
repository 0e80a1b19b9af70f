-------------------------------- MODULE Rtc ---------------------------------
(***************************************************************************)
(* The battery-backed clock: an OKI or a Ricoh chip whose sixteen 4-bit    *)
(* registers are an image of a host clock plus an offset.                  *)
(* src/src/rtc/rtc.c, rigel_rtc_* in src/src/core/rigel.c                  *)
(*                                                                         *)
(* A digit written by the guest sets the whole clock from the image, one   *)
(* digit at a time, while the host clock runs.  The host's calendar        *)
(* callbacks are external: a calendar of equal months stands for them, and *)
(* like mktime it accepts fields that are out of range.                    *)
(***************************************************************************)
EXTENDS Integers, Sequences

CONSTANTS
    SecsPerMin, MinsPerHour, MonthDays,  \* the host's calendar
    StartTimes,     \* host times the program starts at
    SetTimes,       \* times the host sets
    RtcDigits,      \* values the guest writes to a register
    Ticks,          \* seconds the host clock advances at once
    MaxTicks,       \* bound: advances of the host clock
    MaxRtcOps       \* bound: operations of guest and host

ASSUME RtcAssumption ==
    /\ {SecsPerMin, MinsPerHour, MonthDays} \subseteq 1..100  \* two digits each
    /\ StartTimes \subseteq Nat /\ SetTimes \subseteq Nat
    /\ RtcDigits \subseteq 0..255 /\ Ticks \subseteq Int
    /\ MaxTicks \in Nat /\ MaxRtcOps \in Nat

VARIABLES
    rtc,       \* RigelRTC: model, reg, time_offset
    hostNow,   \* the host clock
    hostCal,   \* whether the host's calendar callbacks succeed
    anchor,    \* history: time and host clock when the clock was last set
    fresh,     \* history: the image was refreshed or written this second
    rtcTicks,  \* advances of the host clock so far
    rtcOps     \* operations so far

rtcVars == <<rtc, hostNow, hostCal, anchor, fresh, rtcTicks, rtcOps>>

Models == {"NONE", "OKI", "RICOH"}
Nibbles == 0..15

RtcTypeOK ==
    /\ rtc \in [model: Models, reg: [0..3 -> [0..15 -> Nibbles]], offset: Int]
    /\ hostNow \in Int /\ hostCal \in BOOLEAN /\ fresh \in BOOLEAN
    /\ rtcTicks \in 0..MaxTicks /\ rtcOps \in 0..MaxRtcOps

-----------------------------------------------------------------------------
(* The host's to_calendar and from_calendar; years count from 1900.        *)
to_calendar(t) ==
    LET hours == t \div (SecsPerMin * MinsPerHour)
        days  == hours \div 24
        mons  == days \div MonthDays
    IN [sec |-> t % SecsPerMin, min |-> (t \div SecsPerMin) % MinsPerHour,
        hour |-> hours % 24, mday |-> (days % MonthDays) + 1, mon |-> mons % 12,
        year |-> 70 + (mons \div 12)]

from_calendar(c) ==
    LET days  == ((c.year - 70) * 12 + c.mon) * MonthDays + c.mday - 1
        hours == days * 24 + c.hour
    IN (hours * MinsPerHour + c.min) * SecsPerMin + c.sec

wday(t) == (t \div (SecsPerMin * MinsPerHour * 24)) % 7
yday(c) == c.mon * MonthDays + c.mday - 1

-----------------------------------------------------------------------------
(* The register image.                                                     *)

bcd_lo(v) == v % 10
bcd_hi(v) == v \div 10
from_bcd(lo, hi) == lo + 10 * hi

HasBit(v, b) == (v \div b) % 2 = 1

is_24h(m, r) == IF m = "OKI" THEN HasBit(r[0][15], 4) ELSE HasBit(r[0][10], 1)

(* Hours run 12, 1 .. 11 in each half of a 12-hour day.                    *)
hour_shown(h, h24) == IF h24 THEN h ELSE IF h % 12 = 0 THEN 12 ELSE h % 12
pm_flag(h, h24, bit) == IF ~h24 /\ h >= 12 THEN bit ELSE 0

(* rtc_time_to_regs_oki: registers 0 to 12.                                *)
oki_digits(r, t) ==
    LET c == to_calendar(t)
        h24 == is_24h("OKI", r)
        h == hour_shown(c.hour, h24)
        y == c.year % 100
    IN <<bcd_lo(c.sec), bcd_hi(c.sec), bcd_lo(c.min), bcd_hi(c.min),
         bcd_lo(h), bcd_hi(h) + pm_flag(c.hour, h24, 4),
         bcd_lo(c.mday), bcd_hi(c.mday), bcd_lo(c.mon + 1), bcd_hi(c.mon + 1),
         bcd_lo(y), bcd_hi(y), wday(t)>>

(* rtc_time_to_regs_ricoh: the 24-hour bit shares register 10 with the     *)
(* high digit of the month.                                                *)
ricoh_digits(r, t) ==
    LET c == to_calendar(t)
        h24 == is_24h("RICOH", r)
        h == hour_shown(c.hour, h24)
        y == c.year % 100
    IN <<bcd_lo(c.sec), bcd_hi(c.sec), bcd_lo(c.min), bcd_hi(c.min),
         bcd_lo(h), bcd_hi(h) + pm_flag(c.hour, h24, 2),
         (yday(c) \div 7) % 16, bcd_lo(c.mday), bcd_hi(c.mday),
         bcd_lo(c.mon + 1), (r[0][10] % 2) + 2 * bcd_hi(c.mon + 1),
         bcd_lo(y), bcd_hi(y)>>

(* What the Ricoh keeps of its alarm bank, as the number of values.        *)
AlarmMasks == <<1, 1, 16, 8, 16, 4, 8, 16, 4, 1, 2, 4, 1>>

(* rtc_time_to_regs, which is rtc_update.                                  *)
time_to_regs(c, now) ==
    LET r == c.reg
        d == IF c.model = "OKI" THEN oki_digits(r, now + c.offset)
                                ELSE ricoh_digits(r, now + c.offset)
        image == [n \in 0..15 |-> IF n <= 12 THEN d[n + 1] ELSE r[0][n]]
        alarm == [n \in 0..15 |-> IF n <= 12 /\ c.model = "RICOH"
                                  THEN r[1][n] % AlarmMasks[n + 1] ELSE r[1][n]]
    IN IF c.model = "NONE" \/ ~hostCal THEN c
       ELSE [c EXCEPT !.reg[0] = image, !.reg[1] = alarm]

(* Mutant: noon is taken for an hour past noon like the others.            *)
hour_read_Noon(h, h24, pm) == IF ~h24 /\ pm THEN h + 12 ELSE h

hour_read(h, h24, pm) ==
    IF h24 THEN h ELSE IF h = 12 THEN (IF pm THEN 12 ELSE 0)
    ELSE IF pm THEN h + 12 ELSE h

year_read(y) == IF y < 70 THEN y + 100 ELSE y

(* rtc_regs_to_time_oki, rtc_regs_to_time_ricoh                            *)
regs_to_calendar(m, r) ==
    LET g == r[0]
        h24 == is_24h(m, r)
        sec == from_bcd(g[0], g[1])
        min == from_bcd(g[2], g[3])
    IN IF m = "OKI"
       THEN [sec |-> sec, min |-> min,
             hour |-> hour_read(from_bcd(g[4], g[5] % 4), h24, HasBit(g[5], 4)),
             mday |-> from_bcd(g[6], g[7]), mon |-> from_bcd(g[8], g[9]) - 1,
             year |-> year_read(from_bcd(g[10], g[11]))]
       ELSE [sec |-> sec, min |-> min,
             hour |-> hour_read(from_bcd(g[4], g[5] % 2), h24, HasBit(g[5], 2)),
             mday |-> from_bcd(g[7], g[8]),
             mon |-> from_bcd(g[9], (g[10] \div 2) % 2) - 1,
             year |-> year_read(from_bcd(g[11], g[12]))]

(* rtc_regs_to_time: -1 is mktime's failure.                               *)
regs_to_time(c, now) ==
    LET t == from_calendar(regs_to_calendar(c.model, c.reg))
    IN IF ~hostCal \/ t = -1 THEN c ELSE [c EXCEPT !.offset = t - now]

(* rtc_apply_model_defaults *)
model_defaults(m) ==
    [b \in 0..3 |-> [n \in 0..15 |->
        CASE b = 0 /\ m = "OKI" /\ n = 13   -> 1
          [] b = 0 /\ m = "OKI" /\ n = 15   -> 4
          [] b = 0 /\ m = "RICOH" /\ n = 13 -> 8
          [] OTHER -> 0]]

rtc_bank(c) == c.reg[0][13] % 4

rtc_get_time == IF rtc.model = "NONE" THEN hostNow ELSE hostNow + rtc.offset

(* rtc_set_model *)
with_model(c, m, now) ==
    time_to_regs([c EXCEPT !.model = m, !.reg = model_defaults(m)], now)

(* rigel_chipset_init creates the clock; rigel_create sets its model.      *)
RtcInit ==
    /\ hostNow \in StartTimes /\ hostCal \in BOOLEAN
    /\ rtc = [model |-> "NONE", reg |-> model_defaults("NONE"), offset |-> 0]
    /\ anchor = <<hostNow, hostNow>>
    /\ fresh = FALSE /\ rtcTicks = 0 /\ rtcOps = 0

-----------------------------------------------------------------------------
RtcOp == rtcOps < MaxRtcOps /\ rtcOps' = rtcOps + 1

(* rigel_rtc_set_model *)
SetModel(m) ==
    /\ RtcOp /\ m # rtc.model
    /\ rtc' = with_model(rtc, m, hostNow) /\ fresh' = TRUE
    /\ UNCHANGED <<hostNow, hostCal, anchor, rtcTicks>>

(* rtc_reset keeps model, offset and host.                                 *)
rtc_reset(c, now) == with_model(c, c.model, now)

ResetRtc ==
    /\ RtcOp
    /\ rtc' = rtc_reset(rtc, hostNow) /\ fresh' = TRUE
    /\ UNCHANGED <<hostNow, hostCal, anchor, rtcTicks>>

(* rigel_rtc_set_time: the offset is kept also while there is no clock.    *)
SetTime(t) ==
    /\ RtcOp
    /\ rtc' = time_to_regs([rtc EXCEPT !.offset = t - hostNow], hostNow)
    /\ anchor' = <<t, hostNow>> /\ fresh' = TRUE
    /\ UNCHANGED <<hostNow, hostCal, rtcTicks>>

(* rtc_read_reg: every read refreshes the image.                           *)
ReadReg ==
    /\ rtc.model # "NONE"
    /\ rtc' = time_to_regs(rtc, hostNow) /\ fresh' = TRUE
    /\ UNCHANGED <<hostNow, hostCal, anchor, rtcTicks, rtcOps>>

rtc_nibble(v) == v % 16

(* rtc_write_reg for D, E and F, which leave the clock alone.  The image   *)
(* is not refreshed, so a switch of the OKI's 24-hour bit makes it stale.  *)
WriteSpecial(nr, v) ==
    /\ RtcOp /\ rtc.model # "NONE" /\ nr \in 13..15
    /\ rtc' = [rtc EXCEPT !.reg[0][nr] = rtc_nibble(v)]
    /\ fresh' = FALSE
    /\ UNCHANGED <<hostNow, hostCal, anchor, rtcTicks>>

(* rtc_write_reg for the others: bank 0 sets the clock, the rest is RAM.   *)
WriteDigit(nr, v) ==
    LET c == time_to_regs(rtc, hostNow)
        b == rtc_bank(c)
        w == [c EXCEPT !.reg[b][nr] = rtc_nibble(v)]
    IN /\ RtcOp /\ rtc.model # "NONE" /\ nr \in 0..12
       /\ rtc' = IF b = 0 THEN regs_to_time(w, hostNow) ELSE w
       /\ anchor' = IF b = 0 THEN <<hostNow + rtc'.offset, hostNow>> ELSE anchor
       /\ fresh' = TRUE
       /\ UNCHANGED <<hostNow, hostCal, rtcTicks>>

(* The host clock runs, or is set back.                                    *)
HostTick(n) ==
    /\ rtcTicks < MaxTicks /\ rtcTicks' = rtcTicks + 1
    /\ hostNow' = hostNow + n /\ fresh' = FALSE
    /\ UNCHANGED <<rtc, hostCal, anchor, rtcOps>>

RtcNext ==
    \/ \E m \in Models : SetModel(m)
    \/ \E t \in SetTimes : SetTime(t)
    \/ ResetRtc \/ ReadReg
    \/ \E nr \in 0..15, v \in RtcDigits : WriteSpecial(nr, v) \/ WriteDigit(nr, v)
    \/ \E n \in Ticks : HostTick(n)

RtcSpec == RtcInit /\ [][RtcNext]_rtcVars

-----------------------------------------------------------------------------
(* The clock runs with the host's from the moment it was last set, across  *)
(* resets, changes of model and everything the guest does to the banks     *)
(* other than the clock's.                                                 *)
TimeRuns ==
    rtc.model # "NONE" => rtc_get_time = anchor[1] + (hostNow - anchor[2])

InRange(c) ==
    /\ c.sec < SecsPerMin /\ c.min < MinsPerHour /\ c.hour < 24
    /\ c.mday \in 1..MonthDays /\ c.mon \in 0..11

(* The two digits of the year stand for 1970 to 2069, and the Ricoh image  *)
(* of the hours 20 to 23 cannot be read back (rtc.c:285 keeps one bit of   *)
(* the digit that rtc.c:186 wrote with two).                               *)
Representable(c) ==
    /\ c.year \in 70..169
    /\ ~(rtc.model = "RICOH" /\ is_24h("RICOH", rtc.reg) /\ c.hour >= 20)

(* The digits in the registers, once read or written and until the host    *)
(* clock moves on, are the time of the clock: a digit written by the guest *)
(* changes that digit and no other, in 12-hour and in 24-hour mode, as     *)
(* long as the digits make a date.                                         *)
ImageIsTime ==
    LET c == to_calendar(rtc_get_time)
    IN (fresh /\ hostCal /\ rtc.model # "NONE" /\ Representable(c)
        /\ InRange(regs_to_calendar(rtc.model, rtc.reg)))
        => regs_to_calendar(rtc.model, rtc.reg) = c

(* The registers are nibbles, the clock runs with the host's, and its      *)
(* digits are that time.                                                   *)
ClockTellsTime == RtcTypeOK /\ TimeRuns /\ ImageIsTime
=============================================================================

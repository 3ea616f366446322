------------------------------ MODULE RtcClock ------------------------------
(***************************************************************************)
(* The calendar and the alarm of the real-time clock driver,               *)
(* rtc/driver/rtc.c: rtc_gettime and rtc_settime go through six BCD        *)
(* registers one by one while the clock ticks, and rtc_setalarm changes    *)
(* the alarm registers one by one while the clock compares them.           *)
(*                                                                         *)
(* The RTC core's ops_lock lets one call run at a time, after rtc_valid_tm *)
(* has checked its time.  A tick may come between any two steps of a call. *)
(***************************************************************************)
EXTENDS Integers, Sequences

CONSTANTS
  Last,          \* the highest value of each calendar field
  Times,         \* times given to rtc_settime: functions on Fields, as in struct rtc_time
  Alarms,        \* alarms given to rtc_setalarm: [sec, min, hour, enabled]
  TicksPerScan,  \* bound: ticks while six registers are read or written
  MaxWake        \* bound: how often enable_irq_wake is nested

VARIABLES
  reg,      \* the calendar registers, in BCD
  alm,      \* ALMSEC, ALMMIN and ALMHOUR, in BCD
  en,       \* the bits set in RTCALM: "ALM" and the fields to compare
  af,       \* an alarm event is due to the reader of /dev/rtc
  wake,     \* how often the alarm interrupt is enabled to wake the machine
  call,     \* the call in progress, and what rtc_gettime returns, if it has
  ticks,    \* ticks since the scan of the registers began
  seen,     \* history: what the registers have shown since rtc_gettime began
  new,      \* history: the alarm set last
  old,      \* history: the one before, while a call changes it
  asked     \* history: an alarm has been set since boot

alarmVars   == <<alm, en, af, wake, old, new, asked>>
historyVars == <<ticks, seen>>
vars        == <<reg, alarmVars, call, historyVars>>

ReadOrder   == <<"min", "hour", "mday", "mon", "year", "sec">>
WriteOrder  == <<"sec", "min", "hour", "mday", "mon", "year">>
Fields      == {WriteOrder[i] : i \in 1..6}
AlarmFields == {"sec", "min", "hour"}

First(f) == IF f \in {"mday", "mon"} THEN 1 ELSE 0

Valid(f) == First(f)..Last[f]

ASSUME RtcAssumption ==
  /\ Last \in [Fields -> 0..99] /\ \A f \in Fields : Valid(f) # {}
  /\ Times \subseteq [sec : Int, min : Int, hour : Int, mday : Int, mon : Int, year : Int]
  /\ Alarms \subseteq [sec : Int, min : Int, hour : Int, enabled : BOOLEAN]
  /\ TicksPerScan \in Nat /\ MaxWake \in Nat

bin2bcd(n) == (16 * (n \div 10)) + (n % 10)
bcd2bin(b) == (10 * (b \div 16)) + (b % 16)

Bcd(f) == {bin2bcd(n) : n \in Valid(f)}
Registers == [sec : Bcd("sec"), min : Bcd("min"), hour : Bcd("hour"),
              mday : Bcd("mday"), mon : Bcd("mon"), year : Bcd("year")]

NoTime == [f \in Fields |-> 0]
Idle == [op |-> "none", i |-> 0, tm |-> NoTime, bits |-> {}, retried |-> FALSE]
Boot == [sec |-> Last["sec"], min |-> Last["min"], hour |-> Last["hour"], enabled |-> FALSE]

(* The battery has kept the time, and perhaps an alarm of the last boot. *)
Init ==
  /\ reg \in Registers
  /\ alm = [f \in AlarmFields |-> bin2bcd(Boot[f])]
  /\ en \in {{}, {"ALM", "sec", "hour"}}
  /\ af = FALSE /\ wake = 0
  /\ call = Idle /\ ticks = 0 /\ seen = {}
  /\ old = Boot /\ new = Boot /\ asked = FALSE

Busy(op) == call.op = op
At(op, i) == call.op = op /\ call.i = i
Scanning == ~Busy("none") /\ ~Busy("return")
-----------------------------------------------------------------------------
(* The clock *)

(* One second later: a field advances when those before it are at the end. *)
Advanced(r) ==
  [f \in Fields |->
     LET k == CHOOSE j \in 1..6 : WriteOrder[j] = f
     IN  IF \E j \in 1..(k - 1) : r[WriteOrder[j]] # bin2bcd(Last[WriteOrder[j]])
         THEN r[f]
         ELSE IF r[f] = bin2bcd(Last[f]) THEN bin2bcd(First(f))
                                         ELSE bin2bcd(bcd2bin(r[f]) + 1)]

(* The alarm interrupt is raised if every enabled field has come up. *)
Rings(r) == "ALM" \in en /\ \A f \in en \ {"ALM"} : r[f] = alm[f]

(* The second advances.  rtc_alarmirq passes an alarm on to the reader. *)
Tick ==
  /\ Scanning => ticks < TicksPerScan
  /\ reg' = Advanced(reg)
  /\ ticks' = IF Scanning THEN ticks + 1 ELSE 0
  /\ seen' = IF Busy("gettime") THEN seen \cup {reg'} ELSE seen
  /\ af' = (af \/ Rings(reg'))
  /\ UNCHANGED <<alm, en, wake, old, new, asked, call>>

(* A program reads the event from /dev/rtc. *)
ReadEvent ==
  /\ af /\ af' = FALSE
  /\ UNCHANGED <<reg, alm, en, wake, old, new, asked, call, historyVars>>

Begin(op, tm) ==
  /\ Busy("none")
  /\ call' = [Idle EXCEPT !.op = op, !.i = 1, !.tm = tm]
  /\ ticks' = 0 /\ seen' = IF op = "gettime" THEN {reg} ELSE {}

End == call' = Idle /\ ticks' = 0 /\ seen' = {}
-----------------------------------------------------------------------------
(* rtc_gettime *)

GetTime ==
  /\ Begin("gettime", NoTime)
  /\ UNCHANGED <<reg, alarmVars>>

(* One register is read, the seconds last. *)
ReadField ==
  /\ Busy("gettime") /\ call.i <= 6
  /\ LET f == ReadOrder[call.i]
     IN  call' = [call EXCEPT !.tm[f] = reg[f], !.i = @ + 1]
  /\ UNCHANGED <<reg, alarmVars, historyVars>>

(* Seconds of 0 may mean that the fields read before them are stale. *)
RetryNever(tm) == FALSE
Retry(tm) == tm["sec"] = 0 /\ ~call.retried

ScanAgain ==
  /\ At("gettime", 7) /\ Retry(call.tm)
  /\ call' = [call EXCEPT !.i = 1, !.retried = TRUE]
  /\ ticks' = 0
  /\ UNCHANGED <<reg, alarmVars, seen>>

(* What struct rtc_time counts from: months from 0, years from 1900. *)
Offset(f) == CASE f = "mon" -> -1 [] f = "year" -> 100 [] OTHER -> 0

FromRegisters(r) == [f \in Fields |-> bcd2bin(r[f]) + Offset(f)]

GotTime ==
  /\ At("gettime", 7) /\ ~Retry(call.tm)
  /\ call' = [call EXCEPT !.op = "return", !.tm = FromRegisters(@)]
  /\ UNCHANGED <<reg, alarmVars, historyVars>>
-----------------------------------------------------------------------------
(* rtc_settime *)

ToField(f, n) == n - Offset(f)

(* rtc only supports 100 years: the others are -EINVAL. *)
YearOK(tm) == ToField("year", tm["year"]) \in 0..99

SetTime ==
  \E tm \in Times :
    /\ Begin("settime", tm)
    /\ UNCHANGED <<reg, alarmVars>>

SetTimeRefused ==
  /\ At("settime", 1) /\ ~YearOK(call.tm)
  /\ End
  /\ UNCHANGED <<reg, alarmVars>>

(* The order in which the fields are written. *)
SetOrderSecLast == <<"min", "hour", "mday", "mon", "year", "sec">>
SetOrder == <<"sec", "min", "hour", "mday", "mon", "year">>

WriteField ==
  /\ Busy("settime") /\ YearOK(call.tm) /\ call.i <= 6
  /\ LET f == SetOrder[call.i]
     IN  reg' = [reg EXCEPT ![f] = bin2bcd(ToField(f, call.tm[f]))]
  /\ IF call.i = 6 THEN End
                   ELSE call' = [call EXCEPT !.i = @ + 1] /\ UNCHANGED historyVars
  /\ UNCHANGED alarmVars
-----------------------------------------------------------------------------
(* rtc_setalarm *)

(* RTCALM is remembered and cleared, so that a half-set alarm cannot ring. *)
ClearedNot == en
Cleared == {}

SetAlarm ==
  \E a \in Alarms :
    /\ a.enabled => wake < MaxWake
    /\ Begin("setalarm", [f \in Fields |-> IF f \in AlarmFields THEN a[f] ELSE 0])
    /\ new' = a /\ asked' = TRUE
    /\ UNCHANGED <<reg, alm, en, af, wake, old>>

ClearAlarm ==
  /\ At("setalarm", 1)
  /\ call' = [call EXCEPT !.i = 2, !.bits = en \cap {"ALM"}]
  /\ en' = Cleared
  /\ UNCHANGED <<reg, alm, af, wake, old, new, asked, historyVars>>

(* A field in range is written and enabled.  The minutes are not: their     *)
(* register receives the seconds, and so does their enable bit.             *)
Source(f) == IF f = "min" THEN "sec" ELSE f

WriteAlarmField ==
  \E i \in 2..4 :
    /\ At("setalarm", i)
    /\ LET f == WriteOrder[i - 1]
       IN  IF call.tm[f] \in 0..Last[f]
           THEN /\ alm' = [alm EXCEPT ![f] = bin2bcd(call.tm[Source(f)])]
                /\ call' = [call EXCEPT !.i = i + 1, !.bits = @ \cup {Source(f)}]
           ELSE call' = [call EXCEPT !.i = i + 1] /\ UNCHANGED alm
    /\ UNCHANGED <<reg, en, af, wake, old, new, asked, historyVars>>

WriteEnables ==
  /\ At("setalarm", 5)
  /\ en' = call.bits
  /\ call' = [call EXCEPT !.i = 6]
  /\ UNCHANGED <<reg, alm, af, wake, old, new, asked, historyVars>>

(* rtc_setaie *)
WithAieKept(bits, flag) == bits
WithAie(bits, flag) == IF flag THEN bits \cup {"ALM"} ELSE bits \ {"ALM"}

SetAie ==
  /\ At("setalarm", 6)
  /\ en' = WithAie(en, new.enabled)
  /\ call' = [call EXCEPT !.i = 7]
  /\ UNCHANGED <<reg, alm, af, wake, old, new, asked, historyVars>>

(* enable_irq_wake nests; disable_irq_wake of an interrupt that is not      *)
(* enabled only warns.                                                      *)
WakeDepthNever(flag) == IF wake > 0 THEN wake - 1 ELSE 0
WakeDepth(flag) == IF flag THEN wake + 1 ELSE IF wake > 0 THEN wake - 1 ELSE 0

SetWake ==
  /\ At("setalarm", 7)
  /\ wake' = WakeDepth(new.enabled)
  /\ End
  /\ old' = new
  /\ UNCHANGED <<reg, alm, en, af, new, asked>>
-----------------------------------------------------------------------------
(* rtc_getalarm: what it returns is a function of the alarm registers, and  *)
(* no call changes them while it runs.  255 stands for any value.           *)
EnableMaskMonth == {"mon"}
EnableMask == {"ALM", "mon"}  \* the bits of the register's address, 0x50

GetAlarm ==
  [sec     |-> IF "sec" \in en THEN bcd2bin(alm["sec"]) ELSE 255,
   min     |-> IF "min" \in en THEN bcd2bin(alm["min"]) ELSE 255,
   hour    |-> IF "hour" \in en THEN bcd2bin(alm["hour"]) ELSE 255,
   enabled |-> en \cap EnableMask # {}]

(* The caller takes the time away. *)
Return ==
  /\ Busy("return")
  /\ End
  /\ UNCHANGED <<reg, alarmVars>>

GetTimeStep == ReadField \/ ScanAgain \/ GotTime
SetTimeStep == SetTimeRefused \/ WriteField
SetAlarmStep == ClearAlarm \/ WriteAlarmField \/ WriteEnables \/ SetAie \/ SetWake

Next == \/ Tick \/ ReadEvent \/ Return
        \/ GetTime \/ GetTimeStep
        \/ SetTime \/ SetTimeStep
        \/ SetAlarm \/ SetAlarmStep

Spec == Init /\ [][Next]_vars

(* The oscillator runs, and a call that has begun goes on.  Nobody has to   *)
(* begin one, or to read events.                                            *)
FairSpec == /\ Spec /\ WF_vars(Tick) /\ WF_vars(Return)
            /\ WF_vars(GetTimeStep) /\ WF_vars(SetTimeStep) /\ WF_vars(SetAlarmStep)
-----------------------------------------------------------------------------
(* Properties *)

(* rtc_gettime returns a time that the clock has shown during the call,     *)
(* even if seconds, minutes, hours, ... all roll over between two of its    *)
(* register reads.  The one retry is enough if the second advances at most  *)
(* once while six registers are read.                                       *)
GetTimeTrue == Busy("return") => \E r \in seen : call.tm = FromRegisters(r)

(* When rtc_settime returns, the clock shows the time that was set, or one  *)
(* second more, whatever it showed before.  The exception is a time in the  *)
(* last second of a minute: rtc_settime does not stop the clock, and a tick *)
(* after the first write carries into the fields that are still to come.    *)
Settled(tm) == [f \in Fields |-> bin2bcd(ToField(f, tm[f]))]
SetTimeTrue ==
  [][At("settime", 6) /\ Busy("none")' /\ call.tm["sec"] # Last["sec"]
       => reg' \in {Settled(call.tm), Advanced(Settled(call.tm))}]_vars

(* Whenever the alarm can ring, all the fields it compares come from one    *)
(* and the same call of rtc_setalarm: it cannot ring for the seconds of one *)
(* alarm and the hour of another.                                           *)
OneRequestArmed ==
  "ALM" \in en => \E q \in {old, new} : \A f \in en \ {"ALM"} : alm[f] = bin2bcd(q[f])

(* Between calls, rtc_getalarm gives back whether the alarm set last is     *)
(* enabled, its hour and its second.  Its minute is lost: rtc_setalarm      *)
(* never enables it (rtc.c:421), so that it reads back as any minute.       *)
AlarmReadBack ==
  Busy("none") /\ asked =>
    /\ GetAlarm.enabled = new.enabled
    /\ \A f \in AlarmFields : GetAlarm[f] = IF f = "min" THEN 255 ELSE new[f]

(* Between calls, an alarm that can ring can also wake the machine, in      *)
(* whatever order alarms were set enabled and disabled before.              *)
AlarmWakes == Busy("none") /\ asked /\ "ALM" \in en => wake > 0

(* An enabled alarm rings in the end, unless another is set before.         *)
AlarmRings ==
  Busy("none") /\ asked /\ new.enabled ~> af \/ Busy("setalarm") \/ Busy("settime")

(* An alarm rings at the time it was set for (rtc_unit_test.c:420 "Set      *)
(* alarm time"), and not at another minute of the hour.                     *)
AlarmOnTime ==
  [][Busy("none") /\ asked /\ ~af /\ af'
       => \A f \in AlarmFields : reg'[f] = bin2bcd(new[f])]_vars
=============================================================================

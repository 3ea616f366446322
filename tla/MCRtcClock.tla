----------------------------- MODULE MCRtcClock -----------------------------
(***************************************************************************)
(* RtcClock with short minutes, hours, days and years: every rollover      *)
(* occurs, seconds need two BCD digits, and an alarm can differ from       *)
(* another in each of its fields.                                          *)
(***************************************************************************)
EXTENDS RtcClock

Time(s, m, h, d, mo, y) ==
  [sec |-> s, min |-> m, hour |-> h, mday |-> d, mon |-> mo, year |-> y]

ClockLast == Time(10, 1, 1, 1, 2, 0)

(* Times of this century, the second in the last second of a minute, then   *)
(* 1999 and 2100.                                                           *)
SomeTimes == {Time(4, 1, 0, 1, 1, 100), Time(10, 1, 0, 1, 1, 100),
              Time(0, 0, 0, 1, 0, 99), Time(0, 0, 0, 1, 0, 200)}

Alarm(s, m, h, e) == [sec |-> s, min |-> m, hour |-> h, enabled |-> e]
SomeAlarms == {Alarm(0, 1, 1, TRUE), Alarm(1, 0, 0, TRUE), Alarm(1, 1, 1, FALSE)}
=============================================================================

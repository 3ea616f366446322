----------------------------- MODULE MCWatchdog -----------------------------
(***************************************************************************)
(* Watchdog on a scaled-down timer: one count per second, a counter that   *)
(* holds 0..2, a prescaler that divides by 1 or 2 and 4-bit words.  Then   *)
(* 1 and 2 seconds need no prescaling, 3 .. 5 need it, 6 .. 8 reach the    *)
(* divisor one past the last, 9 .. 15 are refused, and 17 wraps to 1.      *)
(***************************************************************************)
EXTENDS Watchdog

CONSTANTS t1, t2

OneThread  == {t1}
TwoThreads == {t1, t2}
=============================================================================

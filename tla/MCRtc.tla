-------------------------------- MODULE MCRtc -------------------------------
(***************************************************************************)
(* Rtc with rates that the tick counter can produce, one of them the       *)
(* fastest, the rate of the unit test, which it cannot, and rates that     *)
(* rtc_setfreq refuses.                                                    *)
(***************************************************************************)
EXTENDS Rtc

SomeFreqs == {0, 4, 100, 128, 512}
=============================================================================

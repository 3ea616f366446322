------------------------------- MODULE MCAdc --------------------------------
(***************************************************************************)
(* Adc with three readers: one inside, one that is refused, and one that   *)
(* takes the lock next.                                                    *)
(***************************************************************************)
EXTENDS Adc

CONSTANTS r1, r2, r3

ThreeReaders == {r1, r2, r3}
=============================================================================

------------------------------- MODULE MCKeys -------------------------------
(***************************************************************************)
(* Keys with two or three keys.  Two keys make every order of two handlers *)
(* and every partial failure of open; a short read of one byte leaves the  *)
(* second out.                                                             *)
(***************************************************************************)
EXTENDS Keys, TLC

CONSTANTS r1, r2

OneReader  == {r1}
TwoReaders == {r1, r2}

(* The readers are interchangeable. *)
ReaderSymmetry == Permutations(TwoReaders)
=============================================================================

------------------------------- MODULE MCLink -------------------------------
(***************************************************************************)
(* CaptureLink for TLC: the calls are interchangeable.                     *)
(***************************************************************************)
EXTENDS CaptureLink, TLC

CallSymmetry == Permutations(Calls)
=============================================================================

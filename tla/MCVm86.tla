------------------------------- MODULE MCVm86 -------------------------------
(* Instances of Vm86 for TLC. *)
EXTENDS Vm86

(* The states in which two calls have read their files at once are checked,  *)
(* but not gone on from: all that is claimed of what follows are the types,  *)
(* which Vm86Proofs proves without this bound.                              *)
UpToOverlap == ~overlapped
=============================================================================

------------------------------- MODULE MCVCache -------------------------------
(* Instances of VCache for TLC. *)
EXTENDS VCache, TLC

(* What a state goes on from: the record of the last call is read by the     *)
(* properties of the step that makes it, and by nothing else.               *)
CacheView == <<disk, readVars, writeVars>>

(* No value of a sector is special. *)
Symmetry == Permutations(Data)
=============================================================================

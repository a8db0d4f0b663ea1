------------------------------- MODULE MCPaging -------------------------------
(* The instance of Paging for TLC.                                           *)
EXTENDS Paging

(* Behaviours are followed up to the first step that acts on an outdated    *)
(* test or copy, or that the disk fails: from there on the properties that  *)
(* depend on them say nothing, and the others are proved in PagingProofs.   *)
UpToCollision == ~collided /\ ~missed

(* What a frame holds that is free, and a slot that no page is in, is never  *)
(* read: states that differ in it only are one.                             *)
UsedSlot == {id \in Slot : \E p \in Process, v \in Page : InSwapfile(p, v, id)}
UsedView ==
  <<physVars, [f \in bitmap |-> contents[f]], swapfileBitmap,
    [id \in UsedSlot |-> swapfile[id]], vasVars, call, panic, collided, missed>>
=============================================================================

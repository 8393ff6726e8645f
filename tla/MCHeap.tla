------------------------------- MODULE MCHeap -------------------------------
(* Instances of AriaHeap for TLC, together with the inductive invariant of its *)
(* proofs.  The slots are interchangeable: no definition picks one out, so     *)
(* their permutations are a symmetry of the runs.                              *)
EXTENDS AriaHeapProofs, TLC

MCArity == "pair" :> 2 @@ "lam" :> 1
MCSymmetry == Permutations(Slot)
=============================================================================

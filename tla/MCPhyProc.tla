----------------------------- MODULE MCPhyProc -----------------------------
(***************************************************************************)
(* Instances of PhyProc for TLC.                                           *)
(***************************************************************************)
EXTENDS PhyProc, TLC

\* Frames are told apart only by equality, and so are the threads in safety
\* runs (no property orders them).
Symmetric == Permutations(Threads) \cup Permutations(Frames)
FrameSymmetric == Permutations(Frames)
=============================================================================

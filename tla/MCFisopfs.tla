----------------------------- MODULE MCFisopfs -----------------------------
(***************************************************************************)
(* Instances of Fisopfs for TLC.  Nothing but equality tells names apart,  *)
(* nor threads.                                                            *)
(***************************************************************************)
EXTENDS FisopfsLost, TLC

Symmetry == Permutations(Names) \cup Permutations(Threads)
=============================================================================

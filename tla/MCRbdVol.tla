------------------------------ MODULE MCRbdVol ------------------------------
(***************************************************************************)
(* RbdVol for TLC.                                                         *)
(***************************************************************************)
EXTENDS RbdVol, TLC

CONSTANT Scanner        \* the hosts on which SR.ls keeps being called

Symmetry == Permutations(Task) \cup Permutations(Worker) \cup Permutations(Host)
              \cup Permutations(Image) \cup Permutations(Snap)

LiveSpec == Spec /\ Fairness(Scanner)
=============================================================================

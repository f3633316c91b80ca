------------------------------ MODULE MCRbdIo -------------------------------
(* RbdIo for TLC: two objects of two blocks, the second half covered by the    *)
(* parent and zero there.                                                     *)
EXTENDS RbdIo, TLC

ParentData == <<9, 9, 0>>
IoExtents == {<<0, 1>>, <<0, 2>>, <<1, 2>>, <<2, 2>>}
Symmetry == Permutations(Slots)
=============================================================================

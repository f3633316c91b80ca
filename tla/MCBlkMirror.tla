---------------------------- MODULE MCBlkMirror ----------------------------
\* Instances of BlkMirror for TLC; blocks are interchangeable.
EXTENDS BlkMirror, TLC

Blocks == Permutations(Block)
=============================================================================

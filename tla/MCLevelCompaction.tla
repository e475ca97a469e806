-------------------------- MODULE MCLevelCompaction --------------------------
(* A small instance of LevelCompaction for TLC.                              *)
EXTENDS LevelCompaction

TwoKeys == {1, 2}

=============================================================================

------------------------------ MODULE MCLevelDB ------------------------------
(* A small instance of LevelDB for TLC.                                      *)
EXTENDS LevelDB

CONSTANTS w1, w2, w3

MCWrites == {w1, w2, w3}
MCSync   == {w1, w3}

\* Two threads: one calls w1 and then w3, the other one w2.
MCBefore == [w \in MCWrites |-> IF w = w3 THEN {w1} ELSE {}]

=============================================================================

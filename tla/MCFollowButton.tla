---------------------------- MODULE MCFollowButton ----------------------------
(* Small instances of FollowButton for TLC.                                  *)
EXTENDS FollowButton

CONSTANTS me, alice, bob, cell

MCUsers == {me, alice, bob}
OneCell == {cell}

=============================================================================

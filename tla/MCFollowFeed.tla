----------------------------- MODULE MCFollowFeed -----------------------------
(* Small instances of FollowFeed for TLC.                                    *)
EXTENDS FollowFeed

CONSTANTS alice, bob, p1

MCUsers == {alice, bob}
OnePost == {p1}

\* Whose the post is.
AliceOwnsOne == [p \in OnePost |-> alice]

\* Bounds: how often each user taps, or each client fails or disconnects.
AliceOnce == [c \in MCUsers |-> IF c = alice THEN 1 ELSE 0]
BobOnce   == [c \in MCUsers |-> IF c = bob THEN 1 ELSE 0]
BobTwice  == [c \in MCUsers |-> IF c = bob THEN 2 ELSE 0]
BobThrice == [c \in MCUsers |-> IF c = bob THEN 3 ELSE 0]

\* Bounds: who signs out.
NoLeavers    == {}
AliceLeaves  == {alice}

=============================================================================

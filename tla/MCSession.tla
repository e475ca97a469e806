------------------------------- MODULE MCSession -------------------------------
(* Small instances of Session for TLC.                                       *)
EXTENDS Session

CONSTANTS alice, bob

MCUsers      == {alice, bob}
AliceOnly    == {alice}

=============================================================================

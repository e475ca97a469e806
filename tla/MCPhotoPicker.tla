---------------------------- MODULE MCPhotoPicker ----------------------------
(* Small instances of PhotoPicker for TLC.                                   *)
EXTENDS PhotoPicker

\* Which thumbnails are missing.
SecondBroken == {2}
LastBroken   == {N}

=============================================================================

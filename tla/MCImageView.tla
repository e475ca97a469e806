----------------------------- MODULE MCImageView -----------------------------
(* A small instance of ImageView for TLC.                                    *)
EXTENDS ImageView

CONSTANTS v1, v2, u1, u2, bad

TwoViews == {v1, v2}
MCUrls   == {u1, u2, bad}
OneBad   == {bad}

=============================================================================

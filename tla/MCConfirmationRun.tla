------------------------- MODULE MCConfirmationRun -------------------------
(* Three of the four streams, the last one shared.                          *)
EXTENDS ConfirmationRun

MCStreamOrder == <<"direct", "j_fs", "shared">>
=============================================================================

---------------------------- MODULE MCFrameLayout ----------------------------
(* Frames of up to eight words; variables below and above the CFA.         *)
EXTENDS FrameLayout
MCOffsets == {-3, 0, 1}
=============================================================================

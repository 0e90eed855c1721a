---------------------------- MODULE MCFrameLoop ----------------------------
(* An instance of FrameLoop for TLC.                                        *)
EXTENDS FrameLoop

MCPages  == {"power_swr", "waveform", "spectrum"}
MCVerbs  == {"mode_step"}
MCManual == {1}
MCAlert  == {"Reduce power"}
=============================================================================

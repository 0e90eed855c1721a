------------------------------- MODULE MCPanel -------------------------------
(* An instance of Panel for TLC.                                              *)
EXTENDS Panel

MCButtons == {"channel_step", "range_step", "alarm_toggle", "peak_toggle"}
MCSteps   == {"setup", "peak_toggle"}
=============================================================================

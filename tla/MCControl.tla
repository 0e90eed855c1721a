----------------------------- MODULE MCControl ------------------------------
(* An instance of Control for TLC.                                          *)
EXTENDS Control

MCPerChannel == {"channel_step", "alarm_toggle"}
=============================================================================

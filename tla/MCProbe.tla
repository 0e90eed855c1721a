------------------------------ MODULE MCProbe -------------------------------
(* Instances of Probe for TLC: the meter on every page in auto, and on a     *)
(* trace page in a manual channel and range.                                *)
EXTENDS Probe

MCStarts ==
  {[page |-> p, channel |-> 0, range |-> 0] : p \in 1..PageCount}
    \cup {[page |-> 3, channel |-> 1, range |-> 1]}
MCChannelTargets == {0, 1}
MCRangeTargets   == {None, 1}
=============================================================================

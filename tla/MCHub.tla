------------------------------- MODULE MCHub -------------------------------
(***************************************************************************)
(* Instances of Hub for TLC: the sets a configuration file cannot write.    *)
(***************************************************************************)
EXTENDS Hub

MCOneSnapshot == {[auto |-> FALSE, power |-> 0]}
\* Neighbours are within a deadband of 2, the ends are not: drift is possible.
\* A range_step passes the gate until the first of these arrives.
MCSnapshots   == {[auto |-> TRUE, power |-> p] : p \in 0..2}

MCNoSamples == {}
MCScope     == {"scope"}

MCResync          == {"resync"}
MCFreeze          == {"freeze"}
MCRefusedRequests == {"resync", "freeze"}
MCControlRequests == {"resync", "range_step"}
=============================================================================

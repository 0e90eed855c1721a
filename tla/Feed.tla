-------------------------------- MODULE Feed --------------------------------
(***************************************************************************)
(* What the hub promises to whoever watches the meter, without queues,      *)
(* goroutines or frames other than telemetry: frames are numbered as they   *)
(* are published, and a display shows newer and newer ones of them until    *)
(* its connection is gone, for good.  A display may skip frames, also the   *)
(* newest, when it is too slow.  Hub implements this specification.         *)
(***************************************************************************)
EXTENDS Integers

CONSTANT Viewers

VARIABLES
  current,   \* the number of the newest published frame, 0 before the first
  shown,     \* per viewer: the number of the frame on display, 0 for none
  phase      \* per viewer: "away", "watching" or "gone"
feedVars == <<current, shown, phase>>

FeedInit ==
  /\ current = 0
  /\ shown = [v \in Viewers |-> 0]
  /\ phase = [v \in Viewers |-> "away"]

Publish ==
  /\ current' \in Nat /\ current' > current
  /\ UNCHANGED <<shown, phase>>

\* A connection may also be turned away at the door.
Arrive(v) ==
  /\ phase[v] = "away"
  /\ \E p \in {"watching", "gone"} : phase' = [phase EXCEPT ![v] = p]
  /\ UNCHANGED <<current, shown>>

\* A frame published by now, and none older than the one on display.
Show(v) ==
  /\ phase[v] = "watching"
  /\ \E n \in shown[v]..current : shown' = [shown EXCEPT ![v] = n]
  /\ UNCHANGED <<current, phase>>

Leave(v) ==
  /\ phase[v] = "watching"
  /\ phase' = [phase EXCEPT ![v] = "gone"]
  /\ UNCHANGED <<current, shown>>

FeedNext == Publish \/ \E v \in Viewers : Arrive(v) \/ Show(v) \/ Leave(v)

FeedSpec == FeedInit /\ [][FeedNext]_feedVars
=============================================================================

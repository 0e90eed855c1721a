------------------------------ MODULE Control -------------------------------
(***************************************************************************)
(* A verb's way from a client to the meter, and the state that decides its  *)
(* fate on the way back: each client's readPump gates a verb on the hub's   *)
(* latestSnap, then submits it to the HID owner's queue (hub.go,            *)
(* handleClientMsg); the owner writes it before its next poll (owner.go,    *)
(* drainCommands); the poll's snapshot crosses a channel to the hub, which  *)
(* stores it for the next gate.  The firmware, external, ignores Range and  *)
(* Alarm verbs while its channel is on Auto.                                *)
(***************************************************************************)
EXTENDS Integers, Sequences

CONSTANTS
  Clients,
  Verbs,           \* the verbs clients send
  OperatorSteps,   \* the operator changes the channel at the meter
  QueueCap,        \* capacity of the command queue (16)
  SnapCap,         \* capacity of the snapshots channel (8)
  MaxFaults        \* model bound on sessions lost

ASSUME ControlConstants ==
  /\ Verbs \subseteq {"channel_step", "range_step", "alarm_toggle", "peak_toggle"}
  /\ OperatorSteps \in BOOLEAN /\ QueueCap \in Nat /\ SnapCap \in Nat \ {0} /\ MaxFaults \in Nat

None == [none |-> TRUE]

\* A verb on its way; blind: it was judged before any snapshot arrived.
Judged(v, s) == [verb |-> v, blind |-> s = None]
NoVerb == [verb |-> "none", blind |-> FALSE]

VARIABLES
  meter,          \* the meter's channel mode and settings
  connected,      \* a session is open
  pending,        \* per client: the verb between the gate and Submit
  commands,       \* the owner's queue: verbs with what the gate made of them
  snapIn,         \* snapshots on their way to the hub
  latestSnap,
  fate,           \* what the last step did to a verb, if anything
  faults,
  moved           \* history: the channel moved, and some verb or snapshot in
                  \* flight may still be of before
vars == <<meter, connected, pending, commands, snapIn, latestSnap, fate, faults, moved>>

NoFate == [verb |-> NoVerb, fate |-> "none"]
Fate(v, f) == [verb |-> v, fate |-> f]

Init ==
  /\ meter \in [auto : BOOLEAN, range : {0}, alarm : {TRUE}]
  /\ connected = FALSE
  /\ pending = [c \in Clients |-> NoVerb]
  /\ commands = <<>> /\ snapIn = <<>> /\ latestSnap = None
  /\ fate = NoFate /\ faults = 0 /\ moved = FALSE

\* Nothing in flight was judged or read on another channel mode.
Settled ==
  /\ latestSnap # None => latestSnap.auto = meter.auto
  /\ \A i \in 1..Len(snapIn) : snapIn[i].auto = meter.auto
  /\ commands = <<>> /\ \A c \in Clients : pending[c] = NoVerb

\* A conjunct of every action.
Remember == moved' = ((moved /\ ~Settled) \/ meter'.auto # meter.auto)

-----------------------------------------------------------------------------
(* handleClientMsg.                                                         *)

PerChannel == {"range_step", "alarm_toggle"}

\* Fault: the gate forgets the alarm.
GateRangeOnly(v, s) == v = "range_step" /\ s # None /\ s.auto

\* VerbAvailableInState: no snapshot lets every verb through.
Gated(v, s) == v \in PerChannel /\ s # None /\ s.auto

\* latestSnap is loaded and the verb judged; a refused one is NACKed.
Gate(c, v) ==
  /\ pending[c] = NoVerb
  /\ IF Gated(v, latestSnap)
     THEN fate' = Fate(Judged(v, latestSnap), "refused") /\ UNCHANGED pending
     ELSE fate' = NoFate /\ pending' = [pending EXCEPT ![c] = Judged(v, latestSnap)]
  /\ UNCHANGED <<meter, connected, commands, snapIn, latestSnap, faults>>
  /\ Remember

\* Submit never blocks: ACK when there is room, NACK when the queue is full.
Submit(c) ==
  /\ pending[c] # NoVerb
  /\ pending' = [pending EXCEPT ![c] = NoVerb]
  /\ IF Len(commands) < QueueCap
     THEN fate' = Fate(pending[c], "acked") /\ commands' = Append(commands, pending[c])
     ELSE fate' = Fate(pending[c], "queue full") /\ UNCHANGED commands
  /\ UNCHANGED <<meter, connected, snapIn, latestSnap, faults>>
  /\ Remember

-----------------------------------------------------------------------------
(* The owner and the meter.                                                 *)

\* What the firmware makes of a verb; one alternative per channel it may go to.
Effects(m, v) ==
  CASE v = "channel_step" -> {[m EXCEPT !.auto = a] : a \in BOOLEAN}
    [] v = "range_step" /\ ~m.auto   -> {[m EXCEPT !.range = 1 - @]}
    [] v = "alarm_toggle" /\ ~m.auto -> {[m EXCEPT !.alarm = ~@]}
    [] OTHER -> {m}

Ignored(m, v) == v \in PerChannel /\ m.auto

DrainCommand ==
  /\ connected /\ commands # <<>>
  /\ commands' = Tail(commands)
  /\ meter' \in Effects(meter, Head(commands).verb)
  /\ fate' = Fate(Head(commands), IF Ignored(meter, Head(commands).verb) THEN "ignored" ELSE "acted")
  /\ UNCHANGED <<connected, pending, snapIn, latestSnap, faults>>
  /\ Remember

\* Faults: the first snapshot is the only one; the channel has no bound.
PublishWhenEmpty(s) == IF snapIn = <<>> /\ latestSnap = None THEN <<s>> ELSE snapIn

PublishAlways(s) == Append(snapIn, s)

\* The snapshot is dropped when the hub is slow.
Publish(s) == IF Len(snapIn) < SnapCap THEN Append(snapIn, s) ELSE snapIn

\* A poll follows the drain: its report is decoded and published.
Poll ==
  /\ connected /\ commands = <<>>
  /\ snapIn' = Publish(meter)
  /\ fate' = NoFate
  /\ UNCHANGED <<meter, connected, pending, commands, latestSnap, faults>>
  /\ Remember

HubTakes ==
  /\ snapIn # <<>>
  /\ snapIn' = Tail(snapIn) /\ latestSnap' = Head(snapIn)
  /\ fate' = NoFate
  /\ UNCHANGED <<meter, connected, pending, commands, faults>>
  /\ Remember

\* A session ends, by unplugging or an I/O error; a verb whose write failed is
\* lost, the queue and latestSnap stay as they are.
SessionEnds ==
  /\ connected /\ faults < MaxFaults
  /\ faults' = faults + 1 /\ connected' = FALSE
  /\ \/ UNCHANGED commands
     \/ commands # <<>> /\ commands' = Tail(commands)
  /\ fate' = NoFate
  /\ UNCHANGED <<meter, pending, snapIn, latestSnap>>
  /\ Remember

SessionOpens ==
  /\ ~connected
  /\ connected' = TRUE /\ fate' = NoFate
  /\ UNCHANGED <<meter, pending, commands, snapIn, latestSnap, faults>>
  /\ Remember

Operator ==
  /\ OperatorSteps
  /\ meter' = [meter EXCEPT !.auto = ~@]
  /\ fate' = NoFate
  /\ UNCHANGED <<connected, pending, commands, snapIn, latestSnap, faults>>
  /\ Remember

System == DrainCommand \/ Poll \/ HubTakes \/ SessionOpens
Next ==
  \/ System \/ SessionEnds \/ Operator
  \/ \E c \in Clients : Submit(c) \/ \E v \in Verbs : Gate(c, v)

Spec == Init /\ [][Next]_vars

\* The owner's ticker and Run loop, and the hub's loop, keep going.  A poll
\* waits for an empty queue, which clients may keep from it.
FairSpec == Spec /\ WF_vars(DrainCommand) /\ WF_vars(Poll) /\ WF_vars(HubTakes) /\ WF_vars(SessionOpens)

-----------------------------------------------------------------------------
(* Properties.                                                              *)

\* The gate is exact whenever the channel has not moved since what is in
\* flight was judged and read: what it refuses the meter would ignore, and
\* what it lets through on a snapshot, however old, the meter acts on, over
\* reconnects, full queues and dropped snapshots too.
GateExact ==
  ~moved => /\ fate.fate = "refused" => meter.auto
            /\ fate.fate = "ignored" => fate.verb.blind

\* When the meter rests and is served, the gate's view catches up with it,
\* although snapshots are dropped whenever the hub is slow.
GateCatchesUp ==
  <>[][meter' = meter /\ commands = <<>> /\ connected']_vars => <>[](latestSnap = meter)
=============================================================================

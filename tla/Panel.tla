------------------------------- MODULE Panel --------------------------------
(***************************************************************************)
(* Buttons and what they do.  The reference web client                      *)
(* (internal/web/static/index.html) turns a click into a verb and, from the *)
(* last snapshot it rendered, a value; the hub gates and queues it; the     *)
(* simulator (internal/lpmeter/simulator.go) interprets verb and value.     *)
(* Other clients send the verb alone, as the protocol documents it.         *)
(*                                                                         *)
(* Powers are in watts, their waveform is reduced to the extremes of its    *)
(* range.  SWR and the alarm's trip are left out: SWR stays below 1.17 and  *)
(* power below 151 W, so that the thresholds of 2.0 and 1500 W never trip.  *)
(***************************************************************************)
EXTENDS Integers, Sequences, FiniteSetsExt

CONSTANTS
  RangeCount,   \* entries of rangeNames (12); the last one is auto
  Clients,
  Buttons,      \* the verbs the web clients' buttons send
  Verbs,        \* the verbs other clients send without a value
  ChannelButtons, \* the channel buttons clicked, of 0 (Auto) .. 4
  Powers,       \* the average powers of a run, of PowerExtremes
  QueueCap,     \* capacity of the command queue (16)
  OutCap        \* capacity of the snapshots channel (8)

KnownVerbs == {"mode_step", "channel_step", "range_step", "alarm_toggle",
               "peak_toggle", "setup", "freeze"}

\* base + noise is 100 +- 40 +- 8 +- 2.
PowerExtremes == {50, 150}

ASSUME PanelConstants ==
  /\ RangeCount \in Nat \ {0} /\ QueueCap \in Nat /\ OutCap \in Nat
  /\ Buttons \subseteq {"channel_step", "range_step", "alarm_toggle", "peak_toggle"}
  /\ Verbs \subseteq KnownVerbs /\ ChannelButtons \subseteq 0..4
  /\ Powers \subseteq PowerExtremes

None == [none |-> TRUE]
NoValue == -1
Ranges == 0..(RangeCount - 1)    \* rangeNames: 5W .. 10K, auto
TopModes == 0..3                 \* power_swr, waveform, spectrum, setup
PeakModes == 0..2                \* peak_hold, average, tune

VARIABLES
  state,        \* the Snapshot the source works on
  commands,     \* its command queue
  out,          \* snapshots on their way to the hub
  latestSnap,   \* the hub's
  last          \* per client: what the buttons use of the snapshot rendered last
vars == <<state, commands, out, latestSnap, last>>

Init ==
  /\ state = [topMode |-> 0, channel |-> 1, auto |-> FALSE, range |-> 4 % RangeCount, peakMode |-> 0,
              alarm |-> TRUE, peak |-> 140, hold |-> 140]
  /\ commands = <<>> /\ out = <<>> /\ latestSnap = None
  /\ last = [c \in Clients |-> None]

-----------------------------------------------------------------------------
(* Applying a command.                                                      *)

\* The range the value selects, the next one when it selects none.
SimRange(st, v) == IF v \in Ranges THEN v ELSE (st.range + 1) % RangeCount

\* Fault: the step past the last mode does not wrap.
SimPeakNoWrap(st, v) == IF v \in PeakModes THEN v ELSE st.peakMode + 1

SimPeakMode(st, v) == IF v \in PeakModes THEN v ELSE (st.peakMode + 1) % 3

ToggleSetup(st) == IF st.topMode = 3 THEN 0 ELSE 3

SimChannel(st, v) ==
  IF v = 0 THEN [st EXCEPT !.auto = TRUE, !.channel = 1]
  ELSE [st EXCEPT !.auto = FALSE, !.channel = v]

\* Fault: the simulator relies on the hub's gate alone.
LockedNever(st) == FALSE

\* Range and Alarm don't change in CH Auto.
Locked(st) == st.auto

SimApply(st, cmd) ==
  CASE cmd.verb = "mode_step"    -> [st EXCEPT !.topMode = (@ + 1) % 4]
    [] cmd.verb = "channel_step" -> SimChannel(st, cmd.value)
    [] cmd.verb = "range_step"   -> IF Locked(st) THEN st ELSE [st EXCEPT !.range = SimRange(st, cmd.value)]
    [] cmd.verb = "alarm_toggle" -> IF Locked(st) THEN st ELSE [st EXCEPT !.alarm = ~@]
    [] cmd.verb = "peak_toggle"  -> [st EXCEPT !.peakMode = SimPeakMode(st, cmd.value), !.hold = 0]
    [] cmd.verb = "setup"        -> [st EXCEPT !.topMode = ToggleSetup(st)]
    [] OTHER                     -> st

ApplyCommand ==
  /\ commands # <<>>
  /\ commands' = Tail(commands)
  /\ state' = SimApply(state, Head(commands))
  /\ UNCHANGED <<out, latestSnap, last>>

-----------------------------------------------------------------------------
(* The tick: new readings, and a snapshot unless the hub is behind.         *)

\* Fault: the held peak rises only while it is displayed.
HoldWhenShown(st, peak) == IF st.peakMode = 0 THEN Max({st.hold, peak}) ELSE st.hold

Hold(st, peak) == Max({st.hold, peak})

\* Of a snapshot, what the hub's gate, the buttons and the properties read.
Snap(st) == [auto |-> st.auto, range |-> st.range, alarm |-> st.alarm, peak |-> st.peak, hold |-> st.hold]

\* The peak is the average times 1.4.
Reading(st, avg) ==
  LET peak == (avg * 14) \div 10 IN [st EXCEPT !.peak = peak, !.hold = Hold(st, peak)]

Tick ==
  /\ \E avg \in Powers : state' = Reading(state, avg)
  /\ out' = IF Len(out) < OutCap THEN Append(out, Snap(state')) ELSE out
  /\ UNCHANGED <<commands, latestSnap, last>>

HubTakes ==
  /\ out # <<>>
  /\ out' = Tail(out)
  /\ latestSnap' = Head(out)
  /\ UNCHANGED <<state, commands, last>>

Rendered(s) == [auto |-> s.auto, range |-> s.range, alarm |-> s.alarm]

\* The client renders what the hub broadcast.
Render(c) ==
  /\ latestSnap # None /\ last[c] # Rendered(latestSnap)
  /\ last' = [last EXCEPT ![c] = Rendered(latestSnap)]
  /\ UNCHANGED <<state, commands, out, latestSnap>>

-----------------------------------------------------------------------------
(* The clients.  A message is gated, and queued or refused, at once.        *)

Available(verb) == verb \in {"range_step", "alarm_toggle"} => latestSnap = None \/ ~latestSnap.auto

Send(verb, value) ==
  /\ commands' = IF Available(verb) /\ Len(commands) < QueueCap
                 THEN Append(commands, [verb |-> verb, value |-> value]) ELSE commands
  /\ UNCHANGED <<state, out, latestSnap, last>>

\* RANGE_NAMES of the client lists auto first, 5W .. 10K after it.
ShownIndex(range) == (range + 1) % RangeCount

\* The button is greyed out in CH Auto.
PressRange(c) ==
  /\ "range_step" \in Buttons
  /\ last[c] # None => ~last[c].auto
  /\ Send("range_step", IF last[c] = None THEN 1 ELSE (ShownIndex(last[c].range) + 1) % RangeCount)

\* The row of buttons is built by the first snapshot.
PressChannel(c, n) ==
  /\ "channel_step" \in Buttons /\ last[c] # None
  /\ Send("channel_step", n)

PressPeak(v) == "peak_toggle" \in Buttons /\ Send("peak_toggle", v)

PressAlarm(c) ==
  /\ "alarm_toggle" \in Buttons
  /\ last[c] # None => ~last[c].auto
  /\ Send("alarm_toggle", IF last[c] # None /\ last[c].alarm THEN 0 ELSE 1)

Next ==
  \/ Tick \/ ApplyCommand \/ HubTakes
  \/ \E c \in Clients : Render(c) \/ PressRange(c) \/ PressAlarm(c) \/ \E n \in ChannelButtons : PressChannel(c, n)
  \/ \E v \in PeakModes : PressPeak(v)
  \/ \E v \in Verbs : Send(v, NoValue)

Spec == Init /\ [][Next]_vars

-----------------------------------------------------------------------------
(* Properties.                                                              *)

Published == {latestSnap} \ {None}

\* Settings stay within their tables; the channels stay within capacity.
TypeOK ==
  /\ state.topMode \in TopModes /\ state.range \in Ranges /\ state.peakMode \in PeakModes
  /\ state.auto \in BOOLEAN /\ state.alarm \in BOOLEAN
  /\ Len(commands) <= QueueCap /\ Len(out) <= OutCap

\* The held peak every client displays in Peak Hold mode is never below the
\* live peak of the same snapshot, though commands reset it between ticks.
HoldCoversPeak == \A s \in Published : s.hold >= s.peak

\* Range and Alarm never change while the channel is on Auto, even when a
\* verb passed the hub's gate on an older snapshot.
LockedInAuto == [][state.auto /\ state'.auto => state'.range = state.range /\ state'.alarm = state.alarm]_vars
=============================================================================

---------------------------- MODULE PanelProofs -----------------------------
(* The simulator's settings, its held peak and its locks, for any number of *)
(* ranges, clients, buttons and verbs and any capacities.                   *)
EXTENDS Panel, TLAPS

States == [topMode : TopModes, channel : Int, auto : BOOLEAN, range : Ranges, peakMode : PeakModes,
           alarm : BOOLEAN, peak : Int, hold : Int]
Snaps == [auto : BOOLEAN, range : Ranges, alarm : BOOLEAN, peak : Int, hold : Int]
Shown == [auto : BOOLEAN, range : Ranges, alarm : BOOLEAN]
Commands == [verb : KnownVerbs, value : Int]

\* A snapshot is taken right after the held peak was raised.
Covered == {s \in Snaps : s.hold >= s.peak}

PanelInv ==
  /\ state \in States
  /\ commands \in Seq(Commands) /\ Len(commands) <= QueueCap
  /\ out \in Seq(Covered) /\ Len(out) <= OutCap
  /\ latestSnap \in Covered \cup {None}
  /\ last \in [Clients -> Shown \cup {None}]

LEMMA Constants ==
  /\ RangeCount \in Nat /\ RangeCount # 0 /\ QueueCap \in Nat /\ OutCap \in Nat
  /\ Powers \subseteq Int /\ ChannelButtons \subseteq Int /\ Verbs \subseteq KnownVerbs
<1>1. PowerExtremes \subseteq Int /\ 0..4 \subseteq Int
  BY DEF PowerExtremes
<1> QED
  BY <1>1, PanelConstants

LEMMA ButtonVerbs == {"channel_step", "range_step", "alarm_toggle", "peak_toggle"} \subseteq KnownVerbs
BY DEF KnownVerbs

LEMMA NextRange == \A n \in Int : n % RangeCount \in Ranges
BY Constants DEF Ranges

LEMMA MaxOfTwo ==
  ASSUME NEW a \in Int, NEW b \in Int
  PROVE  Max({a, b}) \in Int /\ Max({a, b}) >= a /\ Max({a, b}) >= b
<1>1. \E x \in {a, b} : \A y \in {a, b} : x >= y
  OBVIOUS
<1> QED
  BY <1>1 DEF Max

LEMMA SomethingIsNotNone == \A s \in Shown \cup Snaps : s # None
<1>1. \A s \in Shown \cup Snaps : "auto" \in DOMAIN s
  BY DEF Shown, Snaps
<1>2. "auto" \notin DOMAIN None
  BY DEF None
<1> QED
  BY <1>1, <1>2

LEMMA InitPanel == Init => PanelInv
<1> SUFFICES ASSUME Init PROVE PanelInv
  OBVIOUS
<1>1. state \in States
  BY NextRange DEF Init, States, TopModes, PeakModes
<1>2. /\ commands \in Seq(Commands) /\ Len(commands) <= QueueCap
      /\ out \in Seq(Covered) /\ Len(out) <= OutCap
  BY Constants DEF Init
<1>3. last \in [Clients -> Shown \cup {None}]
  BY DEF Init
<1> QED
  BY <1>1, <1>2, <1>3 DEF Init, PanelInv

LEMMA TopModeOK ==
  ASSUME NEW st \in States, NEW m \in TopModes
  PROVE  /\ [st EXCEPT !.topMode = m] \in States
         /\ [st EXCEPT !.topMode = m].range = st.range /\ [st EXCEPT !.topMode = m].alarm = st.alarm
BY DEF States

LEMMA ChannelOK ==
  ASSUME NEW st \in States, NEW n \in Int
  PROVE  /\ LET new == [st EXCEPT !.auto = TRUE, !.channel = n]
            IN  new \in States /\ new.range = st.range /\ new.alarm = st.alarm
         /\ LET new == [st EXCEPT !.auto = FALSE, !.channel = n]
            IN  new \in States /\ new.range = st.range /\ new.alarm = st.alarm
<1>1. ASSUME NEW s \in States
      PROVE  LET new == [s EXCEPT !.channel = n]
             IN  new \in States /\ new.range = s.range /\ new.alarm = s.alarm
  BY DEF States
<1>2. LET new == [st EXCEPT !.auto = TRUE]
      IN  new \in States /\ new.range = st.range /\ new.alarm = st.alarm
  BY DEF States
<1>3. LET new == [st EXCEPT !.auto = FALSE]
      IN  new \in States /\ new.range = st.range /\ new.alarm = st.alarm
  BY DEF States
<1> QED
  BY <1>1, <1>2, <1>3

LEMMA PeakModeOK ==
  ASSUME NEW st \in States, NEW m \in PeakModes
  PROVE  LET new == [st EXCEPT !.peakMode = m, !.hold = 0]
         IN  new \in States /\ new.range = st.range /\ new.alarm = st.alarm
<1>1. ASSUME NEW s \in States
      PROVE  LET new == [s EXCEPT !.hold = 0]
             IN  new \in States /\ new.range = s.range /\ new.alarm = s.alarm
  BY DEF States
<1>2. LET new == [st EXCEPT !.peakMode = m]
      IN  new \in States /\ new.range = st.range /\ new.alarm = st.alarm
  BY DEF States
<1> QED
  BY <1>1, <1>2

\* A command keeps the settings within their tables, the reading as it is,
\* and in CH Auto the range and the alarm.
LEMMA ApplyOK ==
  ASSUME NEW st \in States, NEW cmd \in Commands
  PROVE  /\ SimApply(st, cmd) \in States
         /\ st.auto /\ SimApply(st, cmd).auto =>
              SimApply(st, cmd).range = st.range /\ SimApply(st, cmd).alarm = st.alarm
<1> DEFINE new == SimApply(st, cmd)
           Kept == new.range = st.range /\ new.alarm = st.alarm
<1> SUFFICES new \in States /\ (st.auto = FALSE \/ new.auto = FALSE \/ Kept)
  BY Zenon
<1>1. CASE cmd.verb = "mode_step"
  <2>1. new = [st EXCEPT !.topMode = (st.topMode + 1) % 4]
    BY <1>1 DEF SimApply
  <2>2. (st.topMode + 1) % 4 \in TopModes
    BY DEF States, TopModes
  <2>3. PICK m \in TopModes : new = [st EXCEPT !.topMode = m]
    BY <2>1, <2>2
  <2>4. new \in States /\ Kept
    BY <2>3, TopModeOK
  <2> QED
    BY <2>4
<1>2. CASE cmd.verb = "channel_step"
  <2>1. new = [st EXCEPT !.auto = TRUE, !.channel = 1] \/ new = [st EXCEPT !.auto = FALSE, !.channel = cmd.value]
    BY <1>2 DEF SimApply, SimChannel
  <2>2. cmd.value \in Int
    BY DEF Commands
  <2>3. CASE new = [st EXCEPT !.auto = TRUE, !.channel = 1]
    <3>1. 1 \in Int
      OBVIOUS
    <3>2. new \in States /\ Kept
      BY <2>3, <3>1, ChannelOK, Zenon
    <3> QED
      BY <3>2
  <2>4. CASE new = [st EXCEPT !.auto = FALSE, !.channel = cmd.value]
    <3>1. new \in States /\ Kept
      BY <2>2, <2>4, ChannelOK, Zenon
    <3> QED
      BY <3>1
  <2> QED
    BY <2>1, <2>3, <2>4
<1>3. CASE cmd.verb = "range_step"
  <2>1. new = IF st.auto THEN st ELSE [st EXCEPT !.range = SimRange(st, cmd.value)]
    BY <1>3 DEF SimApply, Locked
  <2>2. SimRange(st, cmd.value) \in Ranges
    BY NextRange DEF SimRange, States, Ranges
  <2>3. [st EXCEPT !.range = SimRange(st, cmd.value)] \in States
    BY <2>2 DEF States
  <2>4. [st EXCEPT !.range = SimRange(st, cmd.value)].auto = st.auto
    BY DEF States
  <2> QED
    BY <2>1, <2>3, <2>4
<1>4. CASE cmd.verb = "alarm_toggle"
  <2>1. new = IF st.auto THEN st ELSE [st EXCEPT !.alarm = ~st.alarm]
    BY <1>4 DEF SimApply, Locked
  <2>2. (~st.alarm) \in BOOLEAN
    OBVIOUS
  <2>3. [st EXCEPT !.alarm = ~st.alarm] \in States /\ [st EXCEPT !.alarm = ~st.alarm].auto = st.auto
    BY <2>2 DEF States
  <2> QED
    BY <2>1, <2>3
<1>5. CASE cmd.verb = "peak_toggle"
  <2>1. new = [st EXCEPT !.peakMode = SimPeakMode(st, cmd.value), !.hold = 0]
    BY <1>5 DEF SimApply
  <2>2. SimPeakMode(st, cmd.value) \in PeakModes
    BY DEF SimPeakMode, States, PeakModes
  <2>3. PICK m \in PeakModes : new = [st EXCEPT !.peakMode = m, !.hold = 0]
    BY <2>1, <2>2
  <2>4. new \in States /\ Kept
    BY <2>3, PeakModeOK
  <2> QED
    BY <2>4
<1>6. CASE cmd.verb = "setup"
  <2>1. ToggleSetup(st) \in TopModes
    BY DEF ToggleSetup, TopModes
  <2>2. PICK m \in TopModes : new = [st EXCEPT !.topMode = m]
    BY <1>6, <2>1 DEF SimApply
  <2>3. new \in States /\ Kept
    BY <2>2, TopModeOK
  <2> QED
    BY <2>3
<1>7. CASE cmd.verb \notin {"mode_step", "channel_step", "range_step", "alarm_toggle", "peak_toggle", "setup"}
  BY <1>7 DEF SimApply
<1> QED
  BY <1>1, <1>2, <1>3, <1>4, <1>5, <1>6, <1>7

\* A reading raises the held peak to the peak, and leaves the settings alone.
LEMMA ReadingOK ==
  ASSUME NEW st \in States, NEW avg \in Int
  PROVE  /\ Reading(st, avg) \in States /\ Snap(Reading(st, avg)) \in Covered
         /\ Reading(st, avg).range = st.range /\ Reading(st, avg).alarm = st.alarm
<1> DEFINE peak == (avg * 14) \div 10
           hold == Hold(st, peak)
<1>1. peak \in Int
  OBVIOUS
<1>2. hold \in Int /\ hold >= peak
  BY <1>1, MaxOfTwo DEF Hold, States
<1>3. Reading(st, avg) = [st EXCEPT !.peak = peak, !.hold = hold]
  BY DEF Reading
<1> HIDE DEF peak, hold
<1>4. /\ Reading(st, avg) \in States /\ Reading(st, avg).peak = peak /\ Reading(st, avg).hold = hold
      /\ Reading(st, avg).range = st.range /\ Reading(st, avg).alarm = st.alarm
  BY <1>1, <1>2, <1>3 DEF States
<1>5. Snap(Reading(st, avg)) \in Covered
  BY <1>2, <1>4 DEF Snap, Snaps, Covered, States
<1> QED
  BY <1>4, <1>5

LEMMA SendOK ==
  ASSUME PanelInv, NEW verb \in KnownVerbs, NEW value \in Int, Send(verb, value)
  PROVE  PanelInv' /\ state' = state
<1>1. [verb |-> verb, value |-> value] \in Commands
  BY DEF Commands
<1>2. commands' \in Seq(Commands) /\ Len(commands') <= QueueCap
  BY <1>1, Constants DEF Send, PanelInv
<1> QED
  BY <1>2 DEF Send, PanelInv

LEMMA ButtonsOK ==
  ASSUME PanelInv, NEW c \in Clients,
         PressRange(c) \/ PressAlarm(c) \/ \E n \in ChannelButtons : PressChannel(c, n)
  PROVE  PanelInv' /\ state' = state
<1>1. CASE PressRange(c)
  <2>1. last[c] # None => (ShownIndex(last[c].range) + 1) % RangeCount \in Int
    <3>1. last[c] # None => last[c].range + 1 \in Int
      BY DEF PanelInv, Shown, Ranges
    <3>2. last[c] # None => ShownIndex(last[c].range) + 1 \in Int
      BY <3>1, NextRange DEF ShownIndex, Ranges
    <3> QED
      BY <3>2, NextRange DEF Ranges
  <2> DEFINE value == IF last[c] = None THEN 1 ELSE (ShownIndex(last[c].range) + 1) % RangeCount
  <2>2. value \in Int
    BY <2>1
  <2>3. Send("range_step", value)
    BY <1>1 DEF PressRange
  <2> HIDE DEF value
  <2> QED
    BY <2>2, <2>3, SendOK, ButtonVerbs
<1>2. CASE PressAlarm(c)
  <2>1. Send("alarm_toggle", 0) \/ Send("alarm_toggle", 1)
    BY <1>2 DEF PressAlarm
  <2> QED
    BY <2>1, SendOK, ButtonVerbs
<1>3. CASE \E n \in ChannelButtons : PressChannel(c, n)
  <2>1. PICK n \in ChannelButtons : Send("channel_step", n)
    BY <1>3 DEF PressChannel
  <2>2. n \in Int
    BY <2>1, Constants
  <2> QED
    BY <2>1, <2>2, SendOK, ButtonVerbs
<1> QED
  BY <1>1, <1>2, <1>3

LEMMA OthersOK ==
  ASSUME PanelInv, (\E v \in PeakModes : PressPeak(v)) \/ (\E v \in Verbs : Send(v, NoValue))
  PROVE  PanelInv' /\ state' = state
<1>1. CASE \E v \in PeakModes : PressPeak(v)
  <2>1. PICK v \in PeakModes : Send("peak_toggle", v)
    BY <1>1 DEF PressPeak
  <2>2. v \in Int
    BY <2>1 DEF PeakModes
  <2> QED
    BY <2>1, <2>2, SendOK, ButtonVerbs
<1>2. CASE \E v \in Verbs : Send(v, NoValue)
  <2>1. PICK v \in Verbs : Send(v, NoValue)
    BY <1>2
  <2>2. v \in KnownVerbs /\ NoValue \in Int
    BY <2>1, Constants DEF NoValue
  <2> QED
    BY <2>1, <2>2, SendOK
<1> QED
  BY <1>1, <1>2

LEMMA StepPanel ==
  ASSUME PanelInv, [Next]_vars
  PROVE  /\ PanelInv'
         /\ state.auto /\ state'.auto => state'.range = state.range /\ state'.alarm = state.alarm
<1>1. CASE Tick
  <2>1. PICK avg \in Powers : state' = Reading(state, avg)
    BY <1>1 DEF Tick
  <2>2. /\ state' \in States /\ Snap(state') \in Covered
        /\ state'.range = state.range /\ state'.alarm = state.alarm
    BY <2>1, ReadingOK, Constants DEF PanelInv
  <2>3. out' \in Seq(Covered) /\ Len(out') <= OutCap
    BY <1>1, <2>2, Constants DEF Tick, PanelInv
  <2> QED
    BY <1>1, <2>2, <2>3 DEF Tick, PanelInv
<1>2. CASE ApplyCommand
  <2>1. commands \in Seq(Commands) /\ commands # <<>> /\ commands' = Tail(commands) /\ Len(commands) <= QueueCap
    BY <1>2 DEF ApplyCommand, PanelInv
  <2>2. Head(commands) \in Commands
    BY <2>1
  <2>3. commands' \in Seq(Commands) /\ Len(commands') <= QueueCap
    BY <2>1, Constants
  <2>4. state' = SimApply(state, Head(commands)) /\ UNCHANGED <<out, latestSnap, last>>
    BY <1>2 DEF ApplyCommand
  <2> QED
    BY <2>2, <2>3, <2>4, ApplyOK DEF PanelInv
<1>3. CASE HubTakes
  <2>1. out \in Seq(Covered) /\ out # <<>> /\ out' = Tail(out) /\ Len(out) <= OutCap
    BY <1>3 DEF HubTakes, PanelInv
  <2>2. Head(out) \in Covered /\ out' \in Seq(Covered) /\ Len(out') <= OutCap
    BY <2>1, Constants
  <2> QED
    BY <1>3, <2>2 DEF HubTakes, PanelInv
<1>4. ASSUME NEW c \in Clients, Render(c) PROVE PanelInv' /\ state' = state
  <2>1. latestSnap \in Snaps
    BY <1>4 DEF Render, PanelInv, Covered
  <2>2. Rendered(latestSnap) \in Shown
    BY <2>1 DEF Rendered, Shown, Snaps
  <2> QED
    BY <1>4, <2>2 DEF Render, PanelInv
<1>5. CASE UNCHANGED vars
  BY <1>5 DEF vars, PanelInv
<1> QED
  BY <1>1, <1>2, <1>3, <1>4, <1>5, ButtonsOK, OthersOK DEF Next

LEMMA PanelInvariant == Spec => []PanelInv
BY InitPanel, StepPanel, PTL DEF Spec

\* Every setting stays within its table and every channel within its capacity,
\* for any verb and any value (simulator.go).
THEOREM TypeCorrect == Spec => []TypeOK
<1>1. PanelInv => TypeOK
  BY DEF PanelInv, TypeOK, States
<1> QED
  BY PanelInvariant, <1>1, PTL

\* In every published snapshot the held peak covers the live one (simulator.go).
THEOREM HeldPeakCoversPeak == Spec => []HoldCoversPeak
<1>1. PanelInv => HoldCoversPeak
  BY DEF PanelInv, HoldCoversPeak, Published, Covered
<1> QED
  BY PanelInvariant, <1>1, PTL

\* In CH Auto no command, from any client and past any stale gate, changes the
\* range or the alarm (simulator.go).
THEOREM AutoLocksSettings == Spec => LockedInAuto
<1>1. PanelInv /\ [Next]_vars =>
        [state.auto /\ state'.auto => state'.range = state.range /\ state'.alarm = state.alarm]_vars
  BY StepPanel
<1> QED
  BY PanelInvariant, <1>1, PTL DEF Spec, LockedInAuto
=============================================================================

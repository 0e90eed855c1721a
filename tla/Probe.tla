------------------------------- MODULE Probe --------------------------------
(***************************************************************************)
(* probe -samples (runSamples of internal/lpmeter/probe.go): it learns the   *)
(* meter's state, presses keys until the page, channel and range asked for   *)
(* are there, sweeps through the OUT commands on every page and goes back to *)
(* the page it found.  Its plan is the sequence of goals still ahead.        *)
(*                                                                         *)
(* The meter is external: it sends one IN report for every OUT report; its   *)
(* keys are as the comments of the code describe them (probe.go:445, 470,    *)
(* 514).  Faults: a lost report, an answer that comes after the probe has    *)
(* stopped waiting, a meter unplugged, ^C.                                  *)
(***************************************************************************)
EXTENDS Integers, Sequences

CONSTANTS
  Starts,          \* states the meter may be found in
  ChannelTargets,  \* what -channel may ask for, 0: nothing
  RangeTargets,    \* what -range may ask for, None: nothing
  ChannelCount,    \* manual channels (4); 0 is auto
  RangeCount,      \* manual ranges (11); 0 is auto
  ModeSteps, ChannelSteps, RangeSteps,   \* presses before giving up (8, 8, 14)
  Tries,           \* reads for the answer to a poll (4)
  LastCmd,         \* the commands of a sweep are 0..LastCmd ('0' to '6')
  FramesPerCmd,    \* OUT reports per sample command (16)
  OtherFrames,     \* OUT reports for the first and the last command (4)
  MaxFaults        \* model bound on faults

None == -1
PageCount == 4                      \* power_swr, waveform, spectrum, setup
PowerSwr == 1
SweptPages == <<1, 2, 3>>
TracePages == {2, 3}

ASSUME ProbeConstants ==
  /\ ChannelCount \in Nat /\ RangeCount \in Nat
  /\ Starts \subseteq [page : 1..PageCount, channel : 0..ChannelCount, range : 0..RangeCount]
  /\ ChannelTargets \subseteq 0..ChannelCount /\ RangeTargets \subseteq None..RangeCount
  /\ ModeSteps \in Nat \ {0} /\ ChannelSteps \in Nat \ {0} /\ RangeSteps \in Nat \ {0}
  /\ Tries \in Nat \ {0} /\ LastCmd \in Nat /\ FramesPerCmd \in Nat \ {0} /\ OtherFrames \in Nat \ {0}
  /\ MaxFaults \in Nat

\* The presses allowed to a step loop cover one turn of its key.
ASSUME ProbeBudgets ==
  ModeSteps >= PageCount /\ ChannelSteps > ChannelCount /\ RangeSteps > RangeCount

VARIABLES
  meter, plugged,
  wire,           \* the meter's answers on their way: its state, or Other
  reads,          \* the same in the pump's channel, or Gone for a read error
  pumping,        \* the read pump runs
  cycleModes, targetChannel, targetRange,
  plan, pc,       \* the goals ahead, and the place in the first
  step, tries,    \* presses and reads, in a sweep commands and reports
  original,       \* the snapshot read first
  failed,         \* runSamples has returned an error
  interrupted,
  faults,
  late,           \* history: some answer came after its wait
  warned          \* history: goals given up
options == <<cycleModes, targetChannel, targetRange>>
link    == <<plugged, pumping, interrupted>>
vars == <<meter, wire, reads, link, options, plan, pc, step, tries, original, failed, faults, late, warned>>

Snapshots == [page : 0..PageCount, channel : 0..ChannelCount, range : 0..RangeCount]
NoSnapshot == [page |-> 0, channel |-> 0, range |-> 0]
Other == [NoSnapshot EXCEPT !.page = None]     \* Decode refuses it
Gone  == [NoSnapshot EXCEPT !.page = None - 1]

Goal(kind, target) == [kind |-> kind, target |-> target]
Ended == failed \/ plan = <<>>
Aim == Head(plan)

Init ==
  /\ meter \in Starts /\ plugged = TRUE
  /\ wire = <<>> /\ reads = <<>> /\ pumping = TRUE
  /\ cycleModes \in BOOLEAN /\ targetChannel \in ChannelTargets /\ targetRange \in RangeTargets
  /\ plan = <<Goal("learn", 0)>> /\ pc = "poll" /\ step = 0 /\ tries = 0
  /\ original = NoSnapshot /\ failed = FALSE /\ interrupted = FALSE
  /\ faults = 0 /\ late = FALSE /\ warned = {}

-----------------------------------------------------------------------------
(* The meter, the line and the read pump.                                   *)

Fault == faults < MaxFaults /\ faults' = faults + 1

Unplug ==
  /\ ~Ended /\ plugged /\ Fault
  /\ plugged' = FALSE /\ wire' = <<>>
  /\ UNCHANGED <<meter, reads, pumping, interrupted, options, plan, pc, step, tries, original, failed, late, warned>>

Interrupt ==
  /\ ~Ended /\ ~interrupted /\ Fault
  /\ interrupted' = TRUE
  /\ UNCHANGED <<meter, wire, reads, plugged, pumping, options, plan, pc, step, tries, original, failed, late, warned>>

\* The pump hands on what the line brings; a read error ends it, and after ^C it
\* hands on at most one more report.  What comes then is read by nobody.
Pump ==
  /\ ~Ended /\ pumping
  /\ \/ /\ wire # <<>> /\ reads' = Append(reads, Head(wire))
        /\ wire' = IF interrupted THEN <<>> ELSE Tail(wire)
        /\ pumping' = ~interrupted
     \/ ~plugged /\ reads' = Append(reads, Gone) /\ pumping' = FALSE /\ UNCHANGED wire
     \/ wire # <<>> /\ interrupted /\ pumping' = FALSE /\ wire' = <<>> /\ UNCHANGED reads
  /\ UNCHANGED <<meter, plugged, interrupted, options, plan, pc, step, tries, original, failed, faults, late, warned>>

\* The meter handles an OUT report that turns its state into next and is
\* answered by r; or the report, or its answer, is lost.
Sends(next, r) ==
  IF ~plugged THEN UNCHANGED <<meter, wire, faults>>
  ELSE \/ meter' = next /\ wire' = (IF pumping THEN Append(wire, r) ELSE wire) /\ UNCHANGED faults
       \/ Fault /\ meter' \in {meter, next} /\ UNCHANGED wire

\* Cycles end with auto; F2 does nothing on the trace pages, F3 neither there
\* nor in auto-channel.
Pressed(key) ==
  CASE key = "page"    -> [meter EXCEPT !.page = (@ % PageCount) + 1]
    [] key = "channel" -> IF meter.page \in TracePages THEN meter
                          ELSE [meter EXCEPT !.channel = (@ + 1) % (ChannelCount + 1)]
    [] key = "range"   -> IF meter.page \in TracePages \/ meter.channel = 0 THEN meter
                          ELSE [meter EXCEPT !.range = (@ + 1) % (RangeCount + 1)]

-----------------------------------------------------------------------------
(* The plan.                                                                *)

If(condition, goals) == IF condition THEN goals ELSE <<>>

\* Fault: keys are pressed on whatever page the meter is on.
NeedsNoSwitch(s) == FALSE

\* F2 and F3 need the power page.
NeedsSwitch(s) ==
  (targetChannel > 0 \/ targetRange # None) /\ s # NoSnapshot /\ s.page # PowerSwr

\* What is ahead once s is the first snapshot.
Plan(s) ==
  If(NeedsSwitch(s), <<Goal("page", PowerSwr)>>)
  \o If(targetChannel > 0, <<Goal("channel", targetChannel)>>)
  \o If(targetRange # None, <<Goal("range", targetRange)>>)
  \o If(cycleModes, [i \in 1..2 * Len(SweptPages) |->
       Goal(IF i % 2 = 1 THEN "page" ELSE "sweep", SweptPages[(i + 1) \div 2])])
  \o If(~cycleModes, <<Goal("sweep", 0)>>)
  \o If(cycleModes /\ s # NoSnapshot, <<Goal("page", s.page)>>)

\* On to the next goal; the sweep of a page that was not reached is left out.
\* A page that was reached, or that F2 and F3 need, is followed by a drain.
Advance(goals, reached) ==
  LET rest == IF ~reached /\ goals # <<>> /\ Head(goals).kind = "sweep" /\ cycleModes
              THEN Tail(goals) ELSE goals
  IN  /\ plan' = rest /\ step' = 0 /\ tries' = 0
      /\ pc' = IF rest # <<>> /\ (Aim.kind = "page" \/ Head(rest).kind = "sweep") THEN "drain" ELSE "poll"

\* Fault: no more steps than the mode key has pages.
BudgetOfOneCycle(goal) ==
  CASE goal.kind = "page" -> PageCount - 1 [] goal.kind = "channel" -> ChannelSteps
    [] goal.kind = "range" -> RangeSteps

Budget(goal) ==
  CASE goal.kind = "page" -> ModeSteps [] goal.kind = "channel" -> ChannelSteps
    [] goal.kind = "range" -> RangeSteps

Met(goal, s) ==
  CASE goal.kind = "page" -> s.page = goal.target [] goal.kind = "channel" -> s.channel = goal.target
    [] goal.kind = "range" -> s.range = goal.target

\* Without a snapshot only the page key is pressed; F3 not in auto-channel.
Hopeless(goal, s) ==
  \/ goal.kind # "page" /\ s = NoSnapshot
  \/ goal.kind = "range" /\ ~Met(goal, s) /\ s.channel = 0

\* Fault: a step loop that gives up returns no error.
GiveUpSilently == Advance(Tail(plan), TRUE) /\ UNCHANGED warned

GiveUp == Advance(Tail(plan), FALSE) /\ warned' = warned \cup {Aim.kind}

-----------------------------------------------------------------------------
(* readCurrentMode, readCurrentSnap and the step loops.                     *)

\* A write error is ignored here.
Poll ==
  /\ ~Ended /\ pc = "poll"
  /\ Sends(meter, meter)
  /\ pc' = "await" /\ tries' = 0
  /\ UNCHANGED <<reads, link, options, plan, step, original, failed, late, warned>>

\* The state s, or none, was read.
Learns(s) ==
  \/ /\ Aim.kind = "learn"
     /\ original' = s
     /\ Advance(Plan(s), TRUE) /\ UNCHANGED warned
  \/ /\ Aim.kind # "learn" /\ UNCHANGED original
     /\ \/ Hopeless(Aim, s) /\ GiveUp
        \/ ~Hopeless(Aim, s) /\ Met(Aim, s) /\ Advance(Tail(plan), TRUE) /\ UNCHANGED warned
        \/ ~Hopeless(Aim, s) /\ ~Met(Aim, s) /\ pc' = "press" /\ UNCHANGED <<plan, step, tries, warned>>

\* One read brought nothing that Decode takes.
ReadsNothing ==
  IF tries + 1 = Tries THEN Learns(NoSnapshot)
  ELSE tries' = tries + 1 /\ UNCHANGED <<plan, pc, step, original, warned>>

Await ==
  /\ ~Ended /\ pc = "await"
  /\ \/ /\ reads # <<>> /\ reads' = Tail(reads) /\ UNCHANGED <<late, faults>>
        /\ CASE Head(reads) = Gone  -> Learns(NoSnapshot)
             [] Head(reads) = Other -> ReadsNothing
             [] OTHER               -> Learns(Head(reads))
     \/ /\ reads = <<>> /\ UNCHANGED reads
        /\ IF wire = <<>> THEN UNCHANGED <<late, faults>> ELSE Fault /\ late' = TRUE
        /\ ReadsNothing
     \/ /\ interrupted /\ UNCHANGED <<reads, late, faults>>
        /\ Learns(NoSnapshot)
  /\ UNCHANGED <<meter, wire, link, options, failed>>

\* Fault: a press is not counted.
Uncounted == step

Counted == step + 1

Press ==
  /\ ~Ended /\ pc = "press"
  /\ IF plugged THEN /\ Sends(Pressed(Aim.kind), Other)
                     /\ step' = Counted /\ pc' = "drain" /\ UNCHANGED <<plan, tries, warned>>
     ELSE GiveUp /\ UNCHANGED <<meter, wire, faults>>
  /\ UNCHANGED <<reads, link, options, original, failed, late>>

\* The pause and drain after a press, and the drains between goals; ^C cuts
\* them short.
Drain ==
  /\ ~Ended /\ pc = "drain"
  /\ \/ reads' = <<>>
     \/ interrupted /\ UNCHANGED reads
  /\ IF wire = <<>> \/ interrupted THEN UNCHANGED <<late, faults>> ELSE Fault /\ late' = TRUE
  /\ \/ Aim.kind = "sweep" /\ pc' = "write" /\ UNCHANGED <<plan, step, tries, warned>>
     \/ Aim.kind # "sweep" /\ step = Budget(Aim) /\ GiveUp
     \/ Aim.kind # "sweep" /\ step < Budget(Aim) /\ pc' = "poll" /\ UNCHANGED <<plan, step, tries, warned>>
  /\ UNCHANGED <<meter, wire, link, options, original, failed>>

-----------------------------------------------------------------------------
(* captureOne, for each of the commands (step).                              *)

Frames(cmd) == IF cmd \in 1..LastCmd - 1 THEN FramesPerCmd ELSE OtherFrames

Write ==
  /\ ~Ended /\ pc = "write"
  /\ IF plugged THEN pc' = "answer" /\ UNCHANGED failed ELSE failed' = TRUE /\ UNCHANGED pc
  /\ Sends(meter, IF step = 0 THEN meter ELSE Other)
  /\ UNCHANGED <<reads, link, options, plan, step, tries, original, late, warned>>

Captured ==
  IF tries + 1 < Frames(step) THEN tries' = tries + 1 /\ pc' = "write" /\ UNCHANGED <<plan, step>>
  ELSE IF step < LastCmd THEN step' = step + 1 /\ tries' = 0 /\ pc' = "drain" /\ UNCHANGED plan
  ELSE Advance(Tail(plan), TRUE)

Fails == failed' = TRUE /\ UNCHANGED <<plan, pc, step, tries>>

Answer ==
  /\ ~Ended /\ pc = "answer"
  /\ \/ /\ reads # <<>> /\ reads' = Tail(reads) /\ UNCHANGED <<late, faults>>
        /\ IF Head(reads) = Gone THEN Fails ELSE Captured /\ UNCHANGED failed
     \/ /\ reads = <<>> /\ UNCHANGED reads
        /\ IF wire = <<>> THEN UNCHANGED <<late, faults>> ELSE Fault /\ late' = TRUE
        /\ Captured /\ UNCHANGED failed
     \/ interrupted /\ Fails /\ UNCHANGED <<reads, late, faults>>
  /\ UNCHANGED <<meter, wire, link, options, original, warned>>

Next ==
  \/ Unplug \/ Interrupt \/ Pump
  \/ Poll \/ Await \/ Press \/ Drain
  \/ Write \/ Answer

Spec == Init /\ [][Next]_vars

\* The runtime runs the pump and the probe, whose waits all have a time limit.
FairSpec == Spec /\ WF_vars(Pump) /\ WF_vars(Poll \/ Await \/ Press \/ Drain \/ Write \/ Answer)

-----------------------------------------------------------------------------
(* Properties.                                                              *)

Undisturbed == plugged /\ ~interrupted /\ ~late

\* What is printed under a page's heading was captured on that page, and on the
\* channel and range asked for unless the probe said it could not reach them,
\* also when a report was lost on the way (probe.go:543).
SweepAsPromised ==
  Undisturbed /\ ~Ended /\ Aim.kind = "sweep" =>
    /\ Aim.target # 0 => meter.page = Aim.target
    /\ targetChannel > 0 /\ "channel" \notin warned => meter.channel = targetChannel
    /\ targetRange # None /\ "range" \notin warned => meter.range = targetRange

\* When nothing goes wrong the probe reaches whatever it was asked for, whatever
\* page the meter was found on: F2 and F3 do nothing on two of them.  A range
\* needs a manual channel (probe.go:514, main.go:225).
NothingGivenUp ==
  faults = 0 /\ (targetRange # None => targetChannel > 0 \/ original.channel > 0)
    => warned = {}

\* A probe that ends leaves the meter on the page it found it on, also when one
\* report was lost on the way (probe.go:570).
Restored ==
  Undisturbed /\ ~failed /\ plan = <<>> /\ cycleModes /\ original # NoSnapshot =>
    meter.page = original.page

\* The probe ends: a meter that is silent, late, unplugged or that never gets to
\* the page does not keep it, nor does ^C make it wait (probe.go:407).
ProbeEnds == <>Ended
=============================================================================

----------------------------- MODULE FrameLoop -----------------------------
(***************************************************************************)
(* One session of the HID owner (internal/lpmeter/owner.go, the select loop *)
(* of runOnce): on every tick it drains the queued verbs and writes one     *)
(* poll, status or sample request; every IN report is routed by its shape   *)
(* alone.  The meter is external: it answers requests in order, while the   *)
(* operator changes page, channel and alert at its front panel.             *)
(*                                                                         *)
(* An IN report is what isCommandEcho and isLikelyTelemetry make of it      *)
(* (shape), with what Decode reads from it; seg is its true origin: the     *)
(* sample segment it answers, 0 for the other requests, and steady says of a *)
(* sample that the page has not turned since the last poll was answered.    *)
(* scopeBuf and spectrumBuf are overwritten from the start in every cycle,   *)
(* and the page that chooses between them only changes where sampleSegIdx is *)
(* reset: segs is what the chosen one holds up to sampleSegIdx.              *)
(***************************************************************************)
EXTENDS Integers, Sequences

CONSTANTS
  Segments,       \* sample segments per buffer (5)
  StatusEveryN,   \* a status request every so many ticks (10)
  TickPeriod,     \* tickN is kept modulo this, a multiple of both cycles
  QueueCap,       \* capacity of the command queue (16)
  Verbs,          \* the verbs clients submit
  Pages,          \* the LCD pages the operator visits
  Channels,       \* subset of 0..4; 0 is Auto
  Alerts,         \* status texts
  MaxWire,        \* model bound on unhandled IN reports
  MaxFaults       \* model bound on short reads and blank traces

SampleCycleLen == Segments + 1
SamplePages == {"waveform", "spectrum"}

ASSUME FrameLoopConstants ==
  /\ Segments \in Nat \ {0} /\ StatusEveryN \in Nat \ {0} /\ TickPeriod \in Nat \ {0}
  /\ TickPeriod % StatusEveryN = 0 /\ TickPeriod % SampleCycleLen = 0
  /\ Verbs \subseteq {"mode_step", "setup", "channel_step", "freeze"}
  /\ Pages \subseteq {"power_swr", "waveform", "spectrum", "setup"} /\ Channels \subseteq 0..4
  /\ "" \notin Alerts /\ QueueCap \in Nat
  /\ MaxWire \in Nat /\ MaxFaults \in Nat

VARIABLES
  page, channel, alert,                    \* the meter's front panel
  wire,                                    \* IN reports not yet handled
  commands,                                \* verbs queued by Submit
  draining,                                \* between a tick and its request
  tickN,
  lastStatus, lastTopMode, lastChannel,    \* lastChannel 0: lastAutoCh
  segs,                                    \* the segments assembled so far
  sent,                                    \* what the last step sent to the hub
  faults,
  meterSaid,                               \* history: the last status answer handled
  turned,                                  \* history: the page, since the last poll answered
  aligned                                  \* history: no loss since the last telemetry

meterVars == <<page, channel, alert>>
stateVars == <<lastStatus, lastTopMode, lastChannel, segs>>
history   == <<meterSaid, turned, aligned>>
vars == <<meterVars, wire, commands, draining, tickN, stateVars, sent, faults, history>>

Report(shape, pg, ch, status, seg) ==
  [shape |-> shape, page |-> pg, channel |-> ch, status |-> status, seg |-> seg,
   steady |-> shape = "sample" /\ ~turned]
Echo == Report("echo", "", 0, "", 0)
Segment(r) == [page |-> r.page, seg |-> r.seg, steady |-> r.steady]
Nothing == [kind |-> "nothing"]

Init ==
  /\ page \in Pages /\ channel \in Channels /\ alert = ""
  /\ wire = <<>> /\ commands = <<>> /\ draining = FALSE /\ tickN = 0
  /\ lastStatus = "" /\ lastTopMode = "" /\ lastChannel = 0
  /\ segs = <<>>
  /\ sent = Nothing /\ meterSaid = ""
  /\ faults = 0 /\ turned = FALSE /\ aligned = TRUE

-----------------------------------------------------------------------------
(* The meter (external) and the clients.                                    *)

Operator ==
  /\ \/ page' \in Pages \ {page} /\ UNCHANGED <<channel, alert>>
     \/ channel' \in Channels \ {channel} /\ UNCHANGED <<page, alert>>
     \/ alert' \in (Alerts \cup {""}) \ {alert} /\ UNCHANGED <<page, channel>>
  /\ turned' = (turned \/ page' # page)
  /\ sent' = Nothing
  /\ UNCHANGED <<wire, commands, draining, tickN, stateVars, faults, meterSaid, aligned>>

\* The answer to a poll carries no text, the answer to '6' the alert's; a
\* sample request is answered with the trace of the page, elsewhere refused.
\* The 64 zeros of an idle trace pass for telemetry.
AnswerPoll   == {Report("telemetry", page, channel, "", 0)}
AnswerStatus == {[Report("telemetry", page, channel, alert, 0) EXCEPT !.shape = "status"]}
BlankTrace(n) == Report("telemetry", "power_swr", 0, "", n)
AnswerSample(n) ==
  IF page \notin SamplePages THEN {Echo}
  ELSE {Report("sample", page, channel, "", n)} \cup
       (IF faults < MaxFaults THEN {BlankTrace(n)} ELSE {})

\* The firmware steps to some other page or channel, and may echo the verb.
MeterTakesVerb(v) ==
  /\ page' \in IF v \in {"mode_step", "setup"} THEN Pages \ {page} ELSE {page}
  /\ channel' \in IF v = "channel_step" THEN Channels \ {channel} ELSE {channel}
  /\ wire' \in {wire} \cup (IF Len(wire) + 1 < MaxWire THEN {Append(wire, Echo)} ELSE {})
  /\ UNCHANGED alert

Submit(v) ==
  /\ Len(commands) < QueueCap
  /\ commands' = Append(commands, v)
  /\ sent' = Nothing
  /\ UNCHANGED <<meterVars, wire, draining, tickN, stateVars, faults, history>>

-----------------------------------------------------------------------------
(* The ticker case: drainCommands, then one request.                        *)

Tick ==
  /\ ~draining /\ Len(wire) < MaxWire
  /\ draining' = TRUE /\ sent' = Nothing
  /\ UNCHANGED <<meterVars, wire, commands, tickN, stateVars, faults, history>>

\* One iteration of drainCommands; it sleeps 50 ms before the next.
DrainCommand ==
  /\ draining /\ commands # <<>>
  /\ commands' = Tail(commands)
  /\ MeterTakesVerb(Head(commands))
  /\ turned' = (turned \/ page' # page)
  /\ sent' = Nothing
  /\ UNCHANGED <<draining, tickN, stateVars, faults, meterSaid, aligned>>

\* Fault: the cycle on a sample page has no telemetry phase.
AnswersNoPoll(n) ==
  IF lastTopMode \in SamplePages THEN AnswerSample(1 + (n % Segments))
  ELSE IF n % StatusEveryN = 0 THEN AnswerStatus ELSE AnswerPoll

\* The payload of tick n, by the last known page, and what the meter answers.
Answers(n) ==
  IF lastTopMode \in SamplePages
  THEN IF n % SampleCycleLen = 0 THEN AnswerPoll ELSE AnswerSample(n % SampleCycleLen)
  ELSE IF n % StatusEveryN = 0 THEN AnswerStatus ELSE AnswerPoll

WriteRequest ==
  /\ draining /\ commands = <<>>
  /\ draining' = FALSE /\ sent' = Nothing
  /\ tickN' = (tickN + 1) % TickPeriod
  /\ \E r \in Answers(tickN + 1) :
       /\ wire' = Append(wire, r)
       /\ faults' = IF r = BlankTrace(r.seg) /\ r.seg # 0 THEN faults + 1 ELSE faults
       /\ turned' = (turned /\ ~(r.shape = "telemetry" /\ r.seg = 0))
  /\ UNCHANGED <<meterVars, commands, stateVars, meterSaid, aligned>>

-----------------------------------------------------------------------------
(* The read goroutine skips a short read; the loop handles the next report. *)

LoseReport ==
  /\ wire # <<>> /\ faults < MaxFaults
  /\ faults' = faults + 1
  /\ wire' = Tail(wire)
  /\ aligned' = FALSE /\ sent' = Nothing
  /\ UNCHANGED <<meterVars, commands, draining, tickN, stateVars, meterSaid, turned>>

Receive(shapes) ==
  /\ ~draining /\ wire # <<>> /\ Head(wire).shape \in shapes
  /\ wire' = Tail(wire)
  /\ UNCHANGED <<meterVars, commands, draining, tickN, faults>>

HandleEcho ==
  /\ Receive({"echo"})
  /\ segs' = <<>> /\ sent' = Nothing
  /\ UNCHANGED <<lastStatus, lastTopMode, lastChannel, history>>

\* Faults: the text is not carried forward; the index is kept on the same page.
StatusNotCarried(f) == f.status
SegsUntilPageChange(f) == IF f.page # lastTopMode THEN <<>> ELSE segs

\* Only the answer to '6' has text: it is carried over the other frames.
StatusText(f) == IF f.status = "" THEN lastStatus ELSE f.status

\* A telemetry frame starts a fresh cycle.
SegsAfterTelemetry(f) == <<>>

\* The snapshot is sent to the hub, or dropped when the hub is slow.
HandleTelemetry ==
  /\ Receive({"telemetry", "status"})
  /\ LET f == Head(wire)
     IN  /\ lastStatus' = StatusText(f)
         /\ segs' = SegsAfterTelemetry(f)
         /\ lastTopMode' = f.page
         /\ lastChannel' = f.channel
         /\ sent' \in {Nothing, [kind |-> "snapshot", page |-> f.page, channel |-> f.channel,
                                 status |-> StatusText(f)]}
         /\ meterSaid' = IF f.shape = "status" THEN f.status ELSE meterSaid
  /\ aligned' = TRUE
  /\ UNCHANGED turned

\* Fault: nothing stops the assembly after the last segment.
AssemblingUnbounded == lastTopMode \in SamplePages

\* The report is the next segment of a buffer.
Assembling == lastTopMode \in SamplePages /\ Len(segs) < Segments

\* Off the sample pages, or past the last segment.
DropSample ==
  /\ Receive({"sample"})
  /\ ~Assembling
  /\ sent' = Nothing
  /\ UNCHANGED <<stateVars, history>>

\* emitScope and emitSpectrum: nothing in Auto; dropped when the hub is slow.
Emit(buf) ==
  IF lastChannel = 0 THEN {Nothing}
  ELSE {Nothing, [kind |-> lastTopMode, channel |-> lastChannel, segs |-> buf]}

HandleSample ==
  /\ Receive({"sample"})
  /\ Assembling
  /\ segs' = Append(segs, Segment(Head(wire)))
  /\ sent' \in IF Len(segs') = Segments THEN Emit(segs') ELSE {Nothing}
  /\ UNCHANGED <<lastStatus, lastTopMode, lastChannel, history>>

Loop ==
  \/ Tick \/ DrainCommand \/ WriteRequest
  \/ HandleEcho \/ HandleTelemetry \/ DropSample \/ HandleSample

Next == Operator \/ LoseReport \/ Loop \/ \E v \in Verbs : Submit(v)

Spec == Init /\ [][Next]_vars

\* The ticker keeps firing, select takes a ready case, reads keep arriving.
Fairness ==
  /\ WF_vars(Tick) /\ WF_vars(DrainCommand) /\ WF_vars(WriteRequest)
  /\ SF_vars(HandleEcho \/ HandleTelemetry \/ DropSample \/ HandleSample)

FairSpec == Spec /\ Fairness

-----------------------------------------------------------------------------
(* Properties.                                                              *)

Reports == [shape : {"echo", "telemetry", "status", "sample"}, page : Pages \cup {"", "power_swr"},
            channel : Channels \cup {0}, status : Alerts \cup {""}, seg : 0..Segments, steady : BOOLEAN]

\* Every variable keeps its type; no more than a buffer is ever assembled.
TypeOK ==
  /\ page \in Pages /\ channel \in Channels /\ alert \in Alerts \cup {""}
  /\ wire \in Seq(Reports) /\ Len(wire) <= MaxWire
  /\ commands \in Seq(Verbs) /\ Len(commands) <= QueueCap /\ draining \in BOOLEAN
  /\ tickN \in 0..(TickPeriod - 1) /\ lastStatus \in Alerts \cup {""}
  /\ lastTopMode \in Pages \cup {"", "power_swr"} /\ lastChannel \in Channels \cup {0}
  /\ segs \in Seq([page : SamplePages, seg : 1..Segments, steady : BOOLEAN]) /\ Len(segs) <= Segments
  /\ meterSaid \in Alerts \cup {""} /\ faults \in 0..MaxFaults
  /\ turned \in BOOLEAN /\ aligned \in BOOLEAN

\* Segments 1..n of the buffer just sent, in order.
InOrder == \A i \in 1..Segments : sent.segs[i].seg = i

\* They were answered on the page of the poll that began their cycle.
Steady == \A i \in 1..Segments : sent.segs[i].steady

\* The loop is self-correcting: through page changes, echoes, verbs and blank
\* traces, a buffer sent to the clients holds segments 1..n in order, unless a
\* report was lost since the last telemetry frame, and holds them of the page
\* it is labelled with, unless the page turned within the cycle.
SelfCorrecting ==
  sent.kind \in SamplePages /\ aligned =>
    /\ InOrder
    /\ Steady => \A i \in 1..Segments : sent.segs[i].page = sent.kind

\* Between two alerts the text is stable: polls, samples, page changes and
\* verbs never blank or change the text the meter gave last.
AlertStable == sent.kind = "snapshot" /\ meterSaid # "" => sent.status = meterSaid

\* The operator and the clients leave the meter alone, on page p.
RestsOn(p) == <>[](page = p /\ commands = <<>>)

\* The loop finds the page the meter rests on and polls accordingly.
LoopFollowsPage == \A p \in Pages : RestsOn(p) => <>[](lastTopMode = p)

\* On a sample page, buffers are completed again and again.
BuffersKeepComing ==
  (\E p \in SamplePages : RestsOn(p)) =>
     []<><<Len(segs) < Segments /\ Len(segs') = Segments>>_vars
=============================================================================

-------------------------- MODULE FrameLoopProofs ---------------------------
(* Types, the alert's text, and the order and page of the buffers, for any  *)
(* number of segments, pages, alerts, lost reports, unhandled reports and    *)
(* any cadence of the requests.                                             *)
EXTENDS FrameLoop, TLAPS

\* Reports as the meter makes them: only the answer to '6' carries text, and
\* only sample pages give samples.
Genuine(r) ==
  /\ r.shape = "telemetry" => r.status = ""
  /\ r.shape = "sample" => r.page \in SamplePages /\ r.seg \in 1..Segments

Arriving == {r \in Reports : Genuine(r)}

MeterTypes == page \in Pages /\ channel \in Channels /\ alert \in Alerts \cup {""}
WireTypes == wire \in Seq(Arriving) /\ Len(wire) <= MaxWire /\ (draining => Len(wire) < MaxWire)
CommandTypes == commands \in Seq(Verbs) /\ Len(commands) <= QueueCap
LoopTypes ==
  /\ draining \in BOOLEAN /\ tickN \in 0..(TickPeriod - 1) /\ faults \in 0..MaxFaults
  /\ turned \in BOOLEAN /\ aligned \in BOOLEAN
StateTypes ==
  /\ lastStatus \in Alerts \cup {""} /\ meterSaid \in Alerts \cup {""}
  /\ lastTopMode \in Pages \cup {"", "power_swr"} /\ lastChannel \in Channels \cup {0}
SegsTypes ==
  segs \in Seq([page : SamplePages, seg : 1..Segments, steady : BOOLEAN]) /\ Len(segs) <= Segments

\* TypeOK, in the parts a step can disturb one at a time, with what keeps the
\* wire within its bound and its reports genuine.
TypeInv ==
  MeterTypes /\ WireTypes /\ CommandTypes /\ LoopTypes /\ StateTypes /\ SegsTypes

LEMMA TypesOK == TypeInv => TypeOK
<1>1. wire \in Seq(Arriving) => wire \in Seq(Reports)
  BY DEF Arriving
<1> QED
  BY <1>1 DEF TypeInv, TypeOK, MeterTypes, WireTypes, CommandTypes, LoopTypes, StateTypes, SegsTypes

LEMMA Constants ==
  /\ Segments \in Nat /\ Segments # 0 /\ StatusEveryN \in Nat /\ TickPeriod \in Nat /\ TickPeriod # 0
  /\ QueueCap \in Nat /\ MaxWire \in Nat /\ MaxFaults \in Nat
BY FrameLoopConstants, Zenon

LEMMA SampleCycle == SampleCycleLen = Segments + 1 /\ 0 \in 0..Segments
BY Constants DEF SampleCycleLen

LEMMA ReportArrives ==
  ASSUME TypeOK, NEW sh \in {"echo", "telemetry", "status", "sample"},
         NEW pg \in Pages \cup {"", "power_swr"}, NEW ch \in Channels \cup {0},
         NEW st \in Alerts \cup {""}, NEW sg \in 0..Segments,
         sh = "telemetry" => st = "",
         sh = "sample" => pg \in SamplePages /\ sg \in 1..Segments
  PROVE  Report(sh, pg, ch, st, sg) \in Arriving
<1>1. Report(sh, pg, ch, st, sg) \in Reports
  BY DEF Report, Reports, TypeOK
<1> QED
  BY <1>1 DEF Arriving, Genuine, Report

LEMMA EchoArrives == TypeOK => Echo \in Arriving
BY SampleCycle, ReportArrives DEF Echo

\* Whatever the tick asks for, the meter's answer is a genuine report.
LEMMA AnswersArrive ==
  ASSUME TypeOK, NEW n \in Nat
  PROVE  Answers(n) \subseteq Arriving
<1>1. page \in Pages /\ channel \in Channels /\ alert \in Alerts \cup {""}
  BY DEF TypeOK
<1>2. AnswerPoll \subseteq Arriving
  <2>1. Report("telemetry", page, channel, "", 0) \in Arriving
    BY <1>1, SampleCycle, ReportArrives
  <2> QED
    BY <2>1 DEF AnswerPoll
<1>3. AnswerStatus \subseteq Arriving
  <2> DEFINE r == Report("telemetry", page, channel, alert, 0)
             s == [r EXCEPT !.shape = "status"]
  <2>1. s.shape = "status" /\ s \in Reports
    BY <1>1, SampleCycle DEF Report, Reports, TypeOK
  <2> QED
    BY <2>1 DEF AnswerStatus, Arriving, Genuine
<1>4. ASSUME NEW k \in 1..Segments PROVE AnswerSample(k) \subseteq Arriving
  <2>1. k \in 0..Segments
    BY Constants
  <2>2. BlankTrace(k) \in Arriving
    BY <2>1, ReportArrives DEF BlankTrace
  <2>3. Echo \in Arriving
    BY EchoArrives
  <2>4. page \in SamplePages => Report("sample", page, channel, "", k) \in Arriving
    BY <1>1, <2>1, ReportArrives
  <2> QED
    BY <2>2, <2>3, <2>4 DEF AnswerSample
<1>5. n % SampleCycleLen # 0 => n % SampleCycleLen \in 1..Segments
  BY Constants, SampleCycle
<1> QED
  BY <1>2, <1>3, <1>4, <1>5 DEF Answers

LEMMA InitTypes == Init => TypeInv
<1> SUFFICES ASSUME Init PROVE TypeInv
  OBVIOUS
<1>1. 0 \in 0..(TickPeriod - 1) /\ 0 \in 0..MaxFaults /\ 0 <= Segments /\ 0 <= MaxWire /\ 0 <= QueueCap
  BY Constants
<1>2. Len(wire) = 0 /\ Len(segs) = 0 /\ Len(commands) = 0
  BY DEF Init
<1>3. /\ wire \in Seq(Arriving) /\ commands \in Seq(Verbs)
      /\ segs \in Seq([page : SamplePages, seg : 1..Segments, steady : BOOLEAN])
  <2>1. \A S : <<>> \in Seq(S)
    OBVIOUS
  <2> QED
    BY <2>1, Zenon DEF Init
<1> QED
  BY <1>1, <1>2, <1>3 DEF Init, TypeInv, MeterTypes, WireTypes, CommandTypes, LoopTypes, StateTypes, SegsTypes

LEMMA OperatorTypes == TypeInv /\ Operator => TypeInv'
<1> SUFFICES ASSUME TypeInv, Operator PROVE TypeInv'
  OBVIOUS
<1>1. MeterTypes'
  BY DEF TypeInv, Operator, MeterTypes
<1>2. LoopTypes'
  BY DEF TypeInv, Operator, LoopTypes
<1>3. WireTypes' /\ CommandTypes' /\ StateTypes' /\ SegsTypes'
  BY DEF TypeInv, Operator, WireTypes, CommandTypes, StateTypes, SegsTypes, stateVars
<1> QED
  BY <1>1, <1>2, <1>3 DEF TypeInv

LEMMA SubmitTypes ==
  ASSUME TypeInv, NEW v \in Verbs, Submit(v)
  PROVE  TypeInv'
<1>1. commands \in Seq(Verbs) /\ Len(commands) < QueueCap /\ commands' = Append(commands, v)
  BY DEF TypeInv, Submit, CommandTypes
<1>2. CommandTypes'
  BY <1>1, Constants DEF CommandTypes
<1>3. MeterTypes' /\ WireTypes' /\ LoopTypes' /\ StateTypes' /\ SegsTypes'
  BY DEF TypeInv, Submit, MeterTypes, WireTypes, LoopTypes, StateTypes, SegsTypes, meterVars, stateVars, history
<1> QED
  BY <1>2, <1>3 DEF TypeInv

LEMMA TickTypes == TypeInv /\ Tick => TypeInv'
<1> SUFFICES ASSUME TypeInv, Tick PROVE TypeInv'
  OBVIOUS
<1>1. MeterTypes' /\ CommandTypes' /\ StateTypes' /\ SegsTypes'
  BY DEF TypeInv, Tick, MeterTypes, CommandTypes, StateTypes, SegsTypes, meterVars, stateVars, history
<1>2. WireTypes' /\ LoopTypes'
  BY DEF TypeInv, Tick, WireTypes, LoopTypes, history
<1> QED
  BY <1>1, <1>2 DEF TypeInv

LEMMA DrainTypes == TypeInv /\ DrainCommand => TypeInv'
<1> SUFFICES ASSUME TypeInv, DrainCommand PROVE TypeInv'
  OBVIOUS
<1>1. MeterTypes'
  BY DEF TypeInv, DrainCommand, MeterTakesVerb, MeterTypes
<1>2. WireTypes'
  <2>1. wire \in Seq(Arriving) /\ Len(wire) < MaxWire /\ Echo \in Arriving
    BY EchoArrives, TypesOK DEF TypeInv, WireTypes, DrainCommand
  <2>2. wire' = wire \/ (Len(wire) + 1 < MaxWire /\ wire' = Append(wire, Echo))
    BY DEF DrainCommand, MeterTakesVerb
  <2>3. wire' \in Seq(Arriving) /\ Len(wire') < MaxWire
    BY <2>1, <2>2, Constants
  <2> QED
    BY <2>3, Constants DEF WireTypes
<1>3. CommandTypes'
  <2>1. commands \in Seq(Verbs) /\ Len(commands) <= QueueCap /\ commands # <<>> /\ commands' = Tail(commands)
    BY DEF TypeInv, DrainCommand, CommandTypes
  <2> QED
    BY <2>1, Constants DEF CommandTypes
<1>4. LoopTypes'
  BY DEF TypeInv, DrainCommand, LoopTypes
<1>5. StateTypes' /\ SegsTypes'
  BY DEF TypeInv, DrainCommand, StateTypes, SegsTypes, stateVars
<1> QED
  BY <1>1, <1>2, <1>3, <1>4, <1>5 DEF TypeInv

LEMMA RequestTypes == TypeInv /\ WriteRequest => TypeInv'
<1> SUFFICES ASSUME TypeInv, WriteRequest PROVE TypeInv'
  OBVIOUS
<1>1. tickN + 1 \in Nat /\ (tickN + 1) % TickPeriod \in 0..(TickPeriod - 1)
  BY Constants DEF TypeInv, LoopTypes
<1>2. PICK r \in Answers(tickN + 1) :
        /\ wire' = Append(wire, r)
        /\ faults' = IF r = BlankTrace(r.seg) /\ r.seg # 0 THEN faults + 1 ELSE faults
        /\ turned' = (turned /\ ~(r.shape = "telemetry" /\ r.seg = 0))
  BY DEF WriteRequest
<1>3. r \in Arriving
  BY <1>1, <1>2, AnswersArrive, TypesOK
<1>4. WireTypes'
  <2>1. wire \in Seq(Arriving) /\ Len(wire) < MaxWire /\ draining' = FALSE
    BY DEF TypeInv, WireTypes, WriteRequest
  <2>2. wire' \in Seq(Arriving) /\ Len(wire') = Len(wire) + 1
    BY <2>1, <1>2, <1>3
  <2> QED
    BY <2>1, <2>2, Constants DEF WireTypes
<1>5. faults' \in 0..MaxFaults
  <2>1. r = BlankTrace(r.seg) /\ r.seg # 0 => faults < MaxFaults
    <3>1. \A x \in AnswerPoll \cup AnswerStatus : x.seg = 0
      <4>1. Report("telemetry", page, channel, "", 0).seg = 0
        BY DEF Report
      <4>2. [Report("telemetry", page, channel, alert, 0) EXCEPT !.shape = "status"].seg = 0
        BY DEF Report
      <4> QED
        BY <4>1, <4>2 DEF AnswerPoll, AnswerStatus
    <3>2. ASSUME NEW k, NEW x \in AnswerSample(k), ~(faults < MaxFaults)
          PROVE  x # BlankTrace(x.seg)
      <4>1. AnswerSample(k) \subseteq {Echo, Report("sample", page, channel, "", k)}
        BY <3>2, Zenon DEF AnswerSample
      <4>2. x.shape # "telemetry"
        <5>1. Echo.shape = "echo" /\ Report("sample", page, channel, "", k).shape = "sample"
          BY DEF Echo, Report
        <5> QED
          BY <3>2, <4>1, <5>1
      <4>3. BlankTrace(x.seg).shape = "telemetry"
        BY DEF BlankTrace, Report
      <4> QED
        BY <4>2, <4>3
    <3>3. faults \in Int /\ MaxFaults \in Int
      BY Constants DEF TypeInv, LoopTypes
    <3> QED
      BY <1>2, <3>1, <3>2, <3>3 DEF Answers
  <2> QED
    BY <1>2, <2>1, Constants DEF TypeInv, LoopTypes
<1>6. LoopTypes'
  BY <1>1, <1>2, <1>5 DEF TypeInv, WriteRequest, LoopTypes
<1>7. MeterTypes' /\ CommandTypes' /\ StateTypes' /\ SegsTypes'
  BY DEF TypeInv, WriteRequest, MeterTypes, CommandTypes, StateTypes, SegsTypes, meterVars, stateVars
<1> QED
  BY <1>4, <1>6, <1>7 DEF TypeInv

LEMMA LoseTypes == TypeInv /\ LoseReport => TypeInv'
<1> SUFFICES ASSUME TypeInv, LoseReport PROVE TypeInv'
  OBVIOUS
<1>1. wire \in Seq(Arriving) /\ wire # <<>> /\ wire' = Tail(wire)
  BY DEF TypeInv, WireTypes, LoseReport
<1>2. WireTypes'
  BY <1>1, Constants DEF TypeInv, WireTypes, LoseReport
<1>3. LoopTypes'
  <2>1. faults \in 0..MaxFaults /\ faults < MaxFaults /\ faults' = faults + 1
    BY DEF TypeInv, LoopTypes, LoseReport
  <2>2. faults' \in 0..MaxFaults
    BY <2>1, Constants
  <2> QED
    BY <2>2 DEF TypeInv, LoopTypes, LoseReport
<1>4. MeterTypes' /\ CommandTypes' /\ StateTypes' /\ SegsTypes'
  BY DEF TypeInv, LoseReport, MeterTypes, CommandTypes, StateTypes, SegsTypes, meterVars, stateVars
<1> QED
  BY <1>2, <1>3, <1>4 DEF TypeInv

\* What the loop receives is genuine, and taking it off the wire is harmless.
LEMMA ReceiveTypes ==
  ASSUME TypeInv, NEW shapes, Receive(shapes)
  PROVE  /\ Head(wire) \in Arriving /\ Head(wire).shape \in shapes
         /\ MeterTypes' /\ WireTypes' /\ CommandTypes'
         /\ UNCHANGED <<draining, tickN, faults>>
<1>1. wire \in Seq(Arriving) /\ wire # <<>> /\ wire' = Tail(wire)
  BY DEF TypeInv, WireTypes, Receive
<1>2. Head(wire) \in Arriving
  BY <1>1
<1>3. WireTypes'
  BY <1>1, Constants DEF TypeInv, WireTypes, Receive
<1>4. MeterTypes' /\ CommandTypes'
  BY DEF TypeInv, Receive, MeterTypes, CommandTypes, meterVars
<1> QED
  BY <1>2, <1>3, <1>4 DEF Receive

LEMMA HandleTypes ==
  ASSUME TypeInv, HandleEcho \/ HandleTelemetry \/ DropSample \/ HandleSample
  PROVE  TypeInv'
<1>1. CASE HandleEcho
  <2>1. MeterTypes' /\ WireTypes' /\ CommandTypes' /\ UNCHANGED <<draining, tickN, faults>>
    BY <1>1, ReceiveTypes DEF HandleEcho
  <2>2. LoopTypes' /\ StateTypes'
    BY <1>1, <2>1 DEF TypeInv, LoopTypes, StateTypes, HandleEcho, history
  <2>3. SegsTypes'
    BY <1>1, Constants DEF SegsTypes, HandleEcho
  <2> QED
    BY <2>1, <2>2, <2>3 DEF TypeInv
<1>2. CASE HandleTelemetry
  <2>1. /\ MeterTypes' /\ WireTypes' /\ CommandTypes' /\ UNCHANGED <<draining, tickN, faults>>
        /\ Head(wire) \in Arriving
    BY <1>2, ReceiveTypes DEF HandleTelemetry
  <2>2. LoopTypes'
    BY <1>2, <2>1 DEF TypeInv, LoopTypes, HandleTelemetry
  <2>3. /\ Head(wire).page \in Pages \cup {"", "power_swr"} /\ Head(wire).channel \in Channels \cup {0}
        /\ Head(wire).status \in Alerts \cup {""}
    BY <2>1 DEF Arriving, Reports
  <2>4. StateTypes'
    BY <1>2, <2>3 DEF TypeInv, StateTypes, HandleTelemetry, StatusText
  <2>5. SegsTypes'
    BY <1>2, Constants DEF SegsTypes, HandleTelemetry, SegsAfterTelemetry
  <2> QED
    BY <2>1, <2>2, <2>4, <2>5 DEF TypeInv
<1>3. CASE DropSample
  <2>1. MeterTypes' /\ WireTypes' /\ CommandTypes' /\ UNCHANGED <<draining, tickN, faults>>
    BY <1>3, ReceiveTypes DEF DropSample
  <2>2. LoopTypes' /\ StateTypes' /\ SegsTypes'
    BY <1>3, <2>1 DEF TypeInv, LoopTypes, StateTypes, SegsTypes, DropSample, history, stateVars
  <2> QED
    BY <2>1, <2>2 DEF TypeInv
<1>4. CASE HandleSample
  <2>1. /\ MeterTypes' /\ WireTypes' /\ CommandTypes' /\ UNCHANGED <<draining, tickN, faults>>
        /\ Head(wire) \in Arriving /\ Head(wire).shape = "sample"
    BY <1>4, ReceiveTypes DEF HandleSample
  <2>2. LoopTypes' /\ StateTypes'
    BY <1>4, <2>1 DEF TypeInv, LoopTypes, StateTypes, HandleSample, history
  <2>3. Segment(Head(wire)) \in [page : SamplePages, seg : 1..Segments, steady : BOOLEAN]
    BY <2>1 DEF Arriving, Reports, Genuine, Segment
  <2>4. SegsTypes'
    BY <1>4, <2>3, Constants DEF TypeInv, SegsTypes, HandleSample, Assembling
  <2> QED
    BY <2>1, <2>2, <2>4 DEF TypeInv
<1> QED
  BY <1>1, <1>2, <1>3, <1>4

LEMMA StepTypes == TypeInv /\ [Next]_vars => TypeInv'
<1> SUFFICES ASSUME TypeInv, [Next]_vars PROVE TypeInv'
  OBVIOUS
<1>1. CASE UNCHANGED vars
  BY <1>1 DEF vars, TypeInv, MeterTypes, WireTypes, CommandTypes, LoopTypes, StateTypes, SegsTypes,
              meterVars, stateVars, history
<1>2. CASE Loop
  BY <1>2, TickTypes, DrainTypes, RequestTypes, HandleTypes DEF Loop
<1>3. CASE Operator \/ LoseReport \/ \E v \in Verbs : Submit(v)
  BY <1>3, OperatorTypes, LoseTypes, SubmitTypes
<1> QED
  BY <1>1, <1>2, <1>3 DEF Next

LEMMA TypeInvariant == Spec => []TypeInv
BY InitTypes, StepTypes, PTL DEF Spec

\* The wire stays within its bound, and a buffer never holds more than its
\* segments, whatever the page, the echoes and the losses (owner.go, nextSeg).
THEOREM TypeCorrect == Spec => []TypeOK
BY TypeInvariant, TypesOK, PTL

-----------------------------------------------------------------------------
\* The loop remembers the last text the meter gave, and nothing else.
AlertInv == (meterSaid # "" => lastStatus = meterSaid) /\ AlertStable

LEMMA InitAlert == Init => AlertInv
BY DEF Init, AlertInv, AlertStable, Nothing

LEMMA StepAlert == TypeInv /\ AlertInv /\ [Next]_vars => AlertInv'
<1> SUFFICES ASSUME TypeInv, AlertInv, [Next]_vars PROVE AlertInv'
  OBVIOUS
<1>1. CASE HandleTelemetry
  <2> DEFINE f == Head(wire)
  <2>1. f \in Arriving /\ f.shape \in {"telemetry", "status"}
    BY <1>1, ReceiveTypes DEF HandleTelemetry
  <2>2. f.shape = "telemetry" => f.status = ""
    BY <2>1 DEF Arriving, Genuine
  <2>3. /\ lastStatus' = StatusText(f)
        /\ meterSaid' = IF f.shape = "status" THEN f.status ELSE meterSaid
        /\ sent' = Nothing \/ (sent'.kind = "snapshot" /\ sent'.status = StatusText(f))
    BY <1>1 DEF HandleTelemetry
  <2>4. meterSaid' # "" => StatusText(f) = meterSaid'
    BY <2>1, <2>2, <2>3 DEF AlertInv, StatusText
  <2>5. sent'.kind = "snapshot" => sent'.status = StatusText(f)
    BY <2>3 DEF Nothing
  <2> QED
    BY <2>3, <2>4, <2>5 DEF AlertInv, AlertStable
<1>2. CASE HandleSample
  <2>1. sent'.kind # "snapshot" /\ UNCHANGED <<lastStatus, meterSaid>>
    BY <1>2 DEF HandleSample, Emit, Nothing, Assembling, SamplePages, history
  <2> QED
    BY <2>1 DEF AlertInv, AlertStable
<1>3. CASE Operator \/ LoseReport \/ Tick \/ DrainCommand \/ WriteRequest \/ HandleEcho \/ DropSample
  <2>1. sent' = Nothing /\ UNCHANGED <<lastStatus, meterSaid>>
    BY <1>3 DEF Operator, LoseReport, Tick, DrainCommand, WriteRequest, HandleEcho, DropSample,
                stateVars, history
  <2>2. sent'.kind # "snapshot"
    BY <2>1 DEF Nothing
  <2> QED
    BY <2>1, <2>2 DEF AlertInv, AlertStable
<1>4. CASE \E v \in Verbs : Submit(v)
  <2>1. sent' = Nothing /\ UNCHANGED <<lastStatus, meterSaid>>
    BY <1>4 DEF Submit, stateVars, history
  <2>2. sent'.kind # "snapshot"
    BY <2>1 DEF Nothing
  <2> QED
    BY <2>1, <2>2 DEF AlertInv, AlertStable
<1>5. CASE UNCHANGED vars
  BY <1>5 DEF vars, AlertInv, AlertStable, stateVars, history
<1> QED
  BY <1>1, <1>2, <1>3, <1>4, <1>5 DEF Next, Loop

\* Between two alerts the text clients see is the meter's last one, whatever
\* polls, samples, page changes, losses and verbs come between (owner.go, the
\* lastStatus carried from frame to frame).
THEOREM AlertIsStable == Spec => []AlertStable
<1>1. AlertInv => AlertStable
  BY DEF AlertInv
<1> QED
  BY InitAlert, TypeInvariant, StepAlert, <1>1, PTL DEF Spec

-----------------------------------------------------------------------------
(* Buffers hold segments 1..n in order, and of the page they are labelled   *)
(* with.  What is on the wire, or assembled, is as far apart as the requests *)
(* were, and a cycle without a gap ends where the next poll begins.         *)

Sample(r) == r.shape = "sample"
Tel(r) == r.shape \in {"telemetry", "status"}

LEMMA NextModulo ==
  ASSUME NEW a \in Nat, NEW c \in Nat, c # 0
  PROVE  (a + 1) % c = 0 \/ (a + 1) % c = (a % c) + 1
<1> DEFINE q == a \div c
           p == (a + 1) \div c
           r == a % c
           s == (a + 1) % c
<1>1. q \in Int /\ r \in 0..(c - 1) /\ a = c * q + r
  OBVIOUS
<1>2. p \in Int /\ s \in 0..(c - 1) /\ a + 1 = c * p + s
  OBVIOUS
<1> HIDE DEF q, p, r, s
<1>3. PICK d \in Int : d = p - q
  BY <1>1, <1>2
<1>4. c * d = c * p - c * q
  BY <1>1, <1>2, <1>3
<1>5. c * d = r + 1 - s
  BY <1>1, <1>2, <1>4
<1>6. CASE d <= -1
  <2>1. c * d <= c * (-1)
    BY <1>6, <1>3
  <2> QED
    BY <2>1, <1>1, <1>2, <1>5
<1>7. CASE d >= 2
  <2>1. c * d >= c * 2
    BY <1>7, <1>3
  <2> QED
    BY <2>1, <1>1, <1>2, <1>5
<1>8. CASE d = 0
  BY <1>8, <1>1, <1>2, <1>5 DEF r, s
<1>9. CASE d = 1
  BY <1>9, <1>1, <1>2, <1>5 DEF r, s
<1> QED
  BY <1>3, <1>6, <1>7, <1>8, <1>9

\* Where the last request stood in the cycle of a sample page.
Clock == tickN % SampleCycleLen

\* The request of a tick follows the one before it in the cycle, or begins one.
LEMMA ClockAdvances ==
  ASSUME TypeInv, tickN' = (tickN + 1) % TickPeriod
  PROVE  /\ Clock' = (tickN + 1) % SampleCycleLen
         /\ (tickN + 1) % SampleCycleLen \in 1..Segments => Clock' = Clock + 1
<1>1. tickN \in Nat /\ tickN < TickPeriod /\ TickPeriod \in Nat /\ SampleCycleLen \in Nat /\ SampleCycleLen # 0
  BY Constants, SampleCycle DEF TypeInv, LoopTypes
<1>2. TickPeriod % SampleCycleLen = 0
  BY FrameLoopConstants, Zenon
<1>3. CASE tickN + 1 < TickPeriod
  <2>1. tickN' = tickN + 1
    BY <1>1, <1>3
  <2>2. (tickN + 1) % SampleCycleLen = 0 \/ (tickN + 1) % SampleCycleLen = Clock + 1
    BY <1>1, NextModulo DEF Clock
  <2>3. Clock' = (tickN + 1) % SampleCycleLen
    BY <2>1 DEF Clock
  <2> QED
    BY <2>2, <2>3, Constants
<1>4. CASE tickN + 1 = TickPeriod
  <2>1. tickN' = 0
    BY <1>1, <1>4
  <2>2. 0 % SampleCycleLen = 0
    BY <1>1
  <2> QED
    BY <1>2, <1>4, <2>1, <2>2 DEF Clock
<1> QED
  BY <1>1, <1>3, <1>4

\* Neighbours on the wire answer neighbouring requests; what is assembled has
\* no gap and goes on where the wire begins.
Neighbours(q) ==
  \A i \in 1..Len(q) : i > 1 /\ Sample(q[i - 1]) /\ Sample(q[i]) => q[i].seg = q[i - 1].seg + 1
EndsAtClock(q) == q # <<>> /\ Sample(q[Len(q)]) => q[Len(q)].seg = Clock
Gapless == \A i, j \in 1..Len(segs) : segs[j].seg - segs[i].seg = j - i
GoesOn ==
  segs # <<>> => IF wire = <<>> THEN segs[Len(segs)].seg = Clock
                 ELSE Sample(wire[1]) => wire[1].seg = segs[Len(segs)].seg + 1

CycleInv ==
  /\ Neighbours(wire) /\ EndsAtClock(wire)
  /\ lastTopMode \notin SamplePages => segs = <<>>
  /\ aligned => Gapless /\ GoesOn

LEMMA Elements ==
  ASSUME NEW S, NEW q \in Seq(S)
  PROVE  /\ Len(q) \in Nat /\ \A i \in 1..Len(q) : q[i] \in S
         /\ q = <<>> <=> Len(q) = 0
OBVIOUS

LEMMA WireTail ==
  ASSUME NEW S, NEW q \in Seq(S), q # <<>>
  PROVE  /\ Tail(q) \in Seq(S) /\ Len(Tail(q)) = Len(q) - 1 /\ Len(q) \in Nat
         /\ Head(q) = q[1] /\ 1 \in 1..Len(q)
         /\ \A i \in 1..Len(Tail(q)) : i \in Nat /\ i + 1 \in 1..Len(q) /\ i + 1 > 1 /\ Tail(q)[i] = q[i + 1]
         /\ Tail(q) # <<>> => Len(q) > 1 /\ Tail(q)[Len(Tail(q))] = q[Len(q)] /\ Tail(q)[1] = q[2]
         /\ Tail(q) = <<>> => Len(q) = 1
<1>1. Tail(q) \in Seq(S) /\ Len(Tail(q)) = Len(q) - 1 /\ Len(q) \in Nat /\ Head(q) = q[1] /\ 1 \in 1..Len(q)
  OBVIOUS
<1>2. \A i \in 1..Len(Tail(q)) : i \in Nat /\ i + 1 \in 1..Len(q) /\ i + 1 > 1 /\ Tail(q)[i] = q[i + 1]
  OBVIOUS
<1>3. ASSUME Tail(q) # <<>>
      PROVE  Len(q) > 1 /\ Tail(q)[Len(Tail(q))] = q[Len(q)] /\ Tail(q)[1] = q[2]
  <2>1. Len(q) - 1 \in Nat /\ Len(q) - 1 # 0
    BY <1>1, <1>3, Elements
  <2>2. 1 \in 1..Len(Tail(q)) /\ Len(Tail(q)) \in 1..Len(Tail(q))
    BY <1>1, <2>1
  <2> QED
    BY <1>1, <1>2, <2>1, <2>2
<1>4. ASSUME Tail(q) = <<>> PROVE Len(q) = 1
  <2>1. CASE Len(q) # 1
    <3>1. Len(q) # 0
      BY Elements
    <3>2. Len(Tail(q)) # 0
      BY <1>1, <2>1, <3>1
    <3>3. Tail(q) # <<>>
      BY <1>1, <3>2, Elements
    <3> QED
      BY <1>4, <3>3
  <2> QED
    BY <2>1
<1> QED
  BY <1>1, <1>2, <1>3, <1>4

LEMMA WireAppend ==
  ASSUME NEW S, NEW q \in Seq(S), NEW r \in S
  PROVE  /\ Append(q, r) \in Seq(S) /\ Len(Append(q, r)) = Len(q) + 1 /\ Len(q) \in Nat
         /\ \A i \in 1..Len(q) : i \in Nat /\ Append(q, r)[i] = q[i]
         /\ Append(q, r)[Len(q) + 1] = r /\ Append(q, r) # <<>>
         /\ 1..(Len(q) + 1) = 1..Len(q) \cup {Len(q) + 1}
         /\ q # <<>> => 1 \in 1..Len(q) /\ Len(q) \in 1..Len(q) /\ Append(q, r)[1] = q[1]
         /\ q = <<>> => Append(q, r)[1] = r
OBVIOUS

LEMMA NeighboursTail ==
  ASSUME NEW q \in Seq(Reports), q # <<>>, Neighbours(q), EndsAtClock(q)
  PROVE  /\ Neighbours(Tail(q)) /\ EndsAtClock(Tail(q))
         /\ Sample(q[1]) => IF Tail(q) = <<>> THEN q[1].seg = Clock
                            ELSE Sample(Tail(q)[1]) => Tail(q)[1].seg = q[1].seg + 1
<1>1. Neighbours(Tail(q))
  <2> SUFFICES ASSUME NEW i \in 1..Len(Tail(q)), i > 1, Sample(Tail(q)[i - 1]), Sample(Tail(q)[i])
               PROVE  Tail(q)[i].seg = Tail(q)[i - 1].seg + 1
    BY DEF Neighbours
  <2>1. i - 1 \in 1..Len(Tail(q)) /\ i + 1 \in 1..Len(q) /\ Tail(q)[i] = q[i + 1] /\ Tail(q)[i - 1] = q[i]
    BY WireTail
  <2> QED
    BY <2>1 DEF Neighbours
<1>2. EndsAtClock(Tail(q))
  BY WireTail DEF EndsAtClock
<1>3. CASE Tail(q) = <<>>
  BY <1>1, <1>2, <1>3, WireTail DEF EndsAtClock
<1>4. CASE Tail(q) # <<>>
  <2>1. 2 \in 1..Len(q) /\ Tail(q)[1] = q[2]
    BY <1>4, WireTail
  <2>2. Sample(q[1]) /\ Sample(q[2]) => q[2].seg = q[1].seg + 1
    BY <2>1 DEF Neighbours
  <2> QED
    BY <1>1, <1>2, <1>4, <2>1, <2>2
<1> QED
  BY <1>3, <1>4

\* The answer to a tick follows the one before it.
LEMMA RequestCycle == TypeInv /\ CycleInv /\ WriteRequest => CycleInv'
<1> SUFFICES ASSUME TypeInv, CycleInv, WriteRequest PROVE CycleInv'
  OBVIOUS
<1>1. PICK r \in Answers(tickN + 1) : wire' = Append(wire, r)
  BY DEF WriteRequest
<1>2. tickN' = (tickN + 1) % TickPeriod /\ UNCHANGED <<lastTopMode, segs, aligned>>
  BY DEF WriteRequest, stateVars
<1>3. tickN + 1 \in Nat /\ r \in Arriving /\ wire \in Seq(Arriving)
  BY <1>1, AnswersArrive, TypesOK, Constants DEF TypeInv, LoopTypes, WireTypes
<1>4. Sample(r) => /\ r.seg = (tickN + 1) % SampleCycleLen
                   /\ r.seg = Clock' /\ r.seg = Clock + 1
  <2>1. \A x \in AnswerPoll \cup AnswerStatus : ~Sample(x)
    <3>1. Report("telemetry", page, channel, "", 0).shape = "telemetry"
      BY DEF Report
    <3>2. [Report("telemetry", page, channel, alert, 0) EXCEPT !.shape = "status"].shape = "status"
      BY DEF Report
    <3> QED
      BY <3>1, <3>2 DEF AnswerPoll, AnswerStatus, Sample
  <2>2. ASSUME NEW k, NEW x \in AnswerSample(k), Sample(x) PROVE x.seg = k
    <3>1. Echo.shape = "echo" /\ BlankTrace(k).shape = "telemetry"
      BY DEF Echo, BlankTrace, Report
    <3>2. x = Report("sample", page, channel, "", k)
      BY <2>2, <3>1 DEF AnswerSample, Sample
    <3> QED
      BY <3>2 DEF Report
  <2>3. Sample(r) => r.seg = (tickN + 1) % SampleCycleLen
    BY <1>1, <2>1, <2>2 DEF Answers
  <2>4. Sample(r) => r.seg \in 1..Segments
    BY <1>3 DEF Arriving, Genuine, Sample
  <2> QED
    BY <1>2, <2>3, <2>4, ClockAdvances
<1>5. Neighbours(wire') /\ EndsAtClock(wire)
  <2> SUFFICES ASSUME NEW i \in 1..Len(wire'), i > 1, Sample(wire'[i - 1]), Sample(wire'[i])
               PROVE  wire'[i].seg = wire'[i - 1].seg + 1
    BY DEF Neighbours, CycleInv
  <2>1. CASE i \in 1..Len(wire)
    BY <1>1, <1>3, <2>1, WireAppend DEF CycleInv, Neighbours
  <2>2. CASE i = Len(wire) + 1
    <3>1. wire # <<>> /\ wire'[i - 1] = wire[Len(wire)] /\ wire'[i] = r
      BY <1>1, <1>3, <2>2, WireAppend
    <3> QED
      BY <1>4, <3>1 DEF CycleInv, EndsAtClock
  <2> QED
    BY <1>1, <1>3, <2>1, <2>2, WireAppend
<1>6. EndsAtClock(wire)'
  BY <1>1, <1>3, <1>4, WireAppend DEF EndsAtClock
<1>7. aligned => Gapless' /\ GoesOn'
  <2>1. aligned => Gapless'
    BY <1>2 DEF CycleInv, Gapless
  <2>2. ASSUME aligned, segs # <<>>, Sample(wire'[1]) PROVE wire'[1].seg = segs[Len(segs)].seg + 1
    <3>1. CASE wire = <<>>
      BY <1>1, <1>3, <1>4, <2>2, <3>1, WireAppend DEF CycleInv, GoesOn
    <3>2. CASE wire # <<>>
      BY <1>1, <1>3, <2>2, <3>2, WireAppend DEF CycleInv, GoesOn
    <3> QED
      BY <3>1, <3>2
  <2> QED
    BY <1>1, <1>2, <1>3, <2>1, <2>2, WireAppend DEF GoesOn
<1> QED
  BY <1>2, <1>5, <1>6, <1>7 DEF CycleInv

LEMMA StepCycle == TypeInv /\ CycleInv /\ [Next]_vars => CycleInv'
<1> SUFFICES ASSUME TypeInv, CycleInv, [Next]_vars PROVE CycleInv'
  OBVIOUS
<1>w. wire \in Seq(Reports) /\ wire \in Seq(Arriving) /\ segs \in Seq([page : SamplePages, seg : 1..Segments, steady : BOOLEAN])
  BY TypesOK DEF TypeInv, TypeOK, WireTypes
<1>1. CASE UNCHANGED vars \/ Operator \/ Tick \/ \E v \in Verbs : Submit(v)
  <2>1. UNCHANGED <<wire, tickN, lastTopMode, segs, aligned>>
    BY <1>1 DEF vars, Operator, Tick, Submit, stateVars, history
  <2> QED
    BY <2>1 DEF CycleInv, Neighbours, EndsAtClock, Gapless, GoesOn, Clock
<1>2. CASE DrainCommand
  <2>1. UNCHANGED <<tickN, lastTopMode, segs, aligned>> /\ wire' \in {wire, Append(wire, Echo)}
    BY <1>2 DEF DrainCommand, MeterTakesVerb, stateVars
  <2>2. Echo \in Reports /\ ~Sample(Echo)
    <3>1. Echo \in Arriving
      BY EchoArrives, TypesOK
    <3> QED
      BY <3>1 DEF Arriving, Sample, Echo, Report
  <2>3. CASE wire' = wire
    BY <2>1, <2>3 DEF CycleInv, Neighbours, EndsAtClock, Gapless, GoesOn, Clock
  <2>4. CASE wire' = Append(wire, Echo)
    <3>1. Neighbours(wire') /\ EndsAtClock(wire)'
      BY <1>w, <2>2, <2>4, WireAppend DEF CycleInv, Neighbours, EndsAtClock
    <3>2. aligned => Gapless' /\ GoesOn'
      BY <1>w, <2>1, <2>2, <2>4, WireAppend DEF CycleInv, Gapless, GoesOn
    <3> QED
      BY <2>1, <3>1, <3>2 DEF CycleInv
  <2> QED
    BY <2>1, <2>3, <2>4
<1>3. CASE WriteRequest
  BY <1>3, RequestCycle
<1>4. ASSUME wire # <<>>, wire' = Tail(wire), UNCHANGED tickN
      PROVE  Neighbours(wire)' /\ EndsAtClock(wire)' /\ Clock' = Clock
             /\ (Sample(wire[1]) => IF wire' = <<>> THEN wire[1].seg = Clock
                                   ELSE Sample(wire'[1]) => wire'[1].seg = wire[1].seg + 1)
  <2>1. Clock' = Clock
    BY <1>4 DEF Clock
  <2>2. Neighbours(Tail(wire)) /\ EndsAtClock(Tail(wire))
        /\ (Sample(wire[1]) => IF Tail(wire) = <<>> THEN wire[1].seg = Clock
                              ELSE Sample(Tail(wire)[1]) => Tail(wire)[1].seg = wire[1].seg + 1)
    BY <1>w, <1>4, NeighboursTail DEF CycleInv
  <2> QED
    BY <1>4, <2>1, <2>2 DEF Neighbours, EndsAtClock
<1>5. CASE LoseReport
  <2>1. UNCHANGED <<lastTopMode, segs>> /\ aligned' = FALSE
    BY <1>5 DEF LoseReport, stateVars
  <2> QED
    BY <1>4, <1>5, <2>1 DEF LoseReport, CycleInv
<1>6. CASE HandleEcho \/ HandleTelemetry
  <2>1. segs' = <<>> /\ wire # <<>> /\ wire' = Tail(wire) /\ UNCHANGED tickN
    BY <1>6 DEF HandleEcho, HandleTelemetry, Receive, SegsAfterTelemetry
  <2> QED
    BY <1>4, <2>1 DEF CycleInv, Gapless, GoesOn
<1>7. CASE DropSample
  <2>1. /\ wire # <<>> /\ wire' = Tail(wire) /\ UNCHANGED <<tickN, lastTopMode, segs, aligned>>
        /\ Sample(wire[1]) /\ ~Assembling /\ wire[1].seg \in 1..Segments
    <3>1. wire # <<>> /\ wire' = Tail(wire) /\ Head(wire).shape = "sample"
          /\ UNCHANGED <<tickN, lastTopMode, segs, aligned>> /\ ~Assembling
      BY <1>7 DEF DropSample, Receive, stateVars, history
    <3>2. Head(wire) = wire[1] /\ wire[1] \in Arriving
      BY <1>w, <3>1
    <3> QED
      BY <3>1, <3>2 DEF Sample, Arriving, Genuine
  <2>2. aligned => segs = <<>>
    <3> SUFFICES ASSUME aligned, segs # <<>> PROVE FALSE
      OBVIOUS
    <3>1. Len(segs) = Segments
      BY <2>1, Constants DEF CycleInv, Assembling, TypeInv, SegsTypes
    <3>2. 1 \in 1..Len(segs) /\ Len(segs) \in 1..Len(segs)
      BY <1>w, <3>1, Constants
    <3>3. segs[Len(segs)].seg - segs[1].seg = Len(segs) - 1
      BY <3>2 DEF CycleInv, Gapless
    <3>4. segs[1].seg \in 1..Segments /\ segs[Len(segs)].seg \in 1..Segments
      <4>1. \A i \in 1..Len(segs) : segs[i] \in [page : SamplePages, seg : 1..Segments, steady : BOOLEAN]
        BY <1>w, Elements
      <4> QED
        BY <3>2, <4>1
    <3>5. wire[1].seg = segs[Len(segs)].seg + 1
      BY <2>1 DEF CycleInv, GoesOn
    <3> QED
      BY <2>1, <3>1, <3>3, <3>4, <3>5, Constants
  <2> QED
    BY <1>4, <2>1, <2>2 DEF CycleInv, Gapless, GoesOn
<1>8. CASE HandleSample
  <2>1. /\ wire # <<>> /\ wire' = Tail(wire) /\ UNCHANGED <<tickN, lastTopMode, aligned>>
        /\ Sample(wire[1]) /\ lastTopMode \in SamplePages /\ segs' = Append(segs, Segment(wire[1]))
        /\ wire[1] \in Arriving /\ wire[1].seg \in 1..Segments
    <3>1. wire # <<>> /\ wire' = Tail(wire) /\ Head(wire).shape = "sample"
          /\ UNCHANGED <<tickN, lastTopMode, aligned>> /\ lastTopMode \in SamplePages
          /\ segs' = Append(segs, Segment(Head(wire)))
      BY <1>8 DEF HandleSample, Receive, history, Assembling
    <3>2. Head(wire) = wire[1] /\ wire[1] \in Arriving
      BY <1>w, <3>1
    <3> QED
      BY <3>1, <3>2 DEF Sample, Arriving, Genuine
  <2>2. Segment(wire[1]) \in [page : SamplePages, seg : 1..Segments, steady : BOOLEAN]
        /\ Segment(wire[1]).seg = wire[1].seg
    BY <2>1 DEF Segment, Arriving, Genuine, Sample, Reports
  <2>3. /\ Len(segs') = Len(segs) + 1 /\ Len(segs) \in Nat /\ segs' # <<>>
        /\ \A i \in 1..Len(segs) : segs'[i] = segs[i] /\ segs[i].seg \in Int
        /\ segs'[Len(segs) + 1].seg = wire[1].seg
    <3> DEFINE S == [page : SamplePages, seg : 1..Segments, steady : BOOLEAN]
    <3>1. segs \in Seq(S) /\ Segment(wire[1]) \in S
      BY <1>w, <2>2
    <3>2. \A x \in S : x.seg \in Int
      BY Constants
    <3>3. \A i \in 1..Len(segs) : segs[i] \in S
      BY <3>1, Elements
    <3> HIDE DEF S
    <3> QED
      BY <2>1, <2>2, <3>1, <3>2, <3>3, WireAppend
  <2>4. ASSUME aligned PROVE Gapless'
    <3>1. ASSUME NEW i \in 1..Len(segs) PROVE wire[1].seg - segs[i].seg = Len(segs) + 1 - i
      <4>1. segs # <<>> /\ Len(segs) \in 1..Len(segs)
        BY <1>w, <2>3, Elements
      <4>2. wire[1].seg = segs[Len(segs)].seg + 1
        BY <2>1, <2>4, <4>1 DEF CycleInv, GoesOn
      <4>3. segs[Len(segs)].seg - segs[i].seg = Len(segs) - i
        BY <2>4, <4>1 DEF CycleInv, Gapless
      <4>4. segs[Len(segs)].seg \in Int /\ segs[i].seg \in Int /\ i \in Int /\ Len(segs) \in Int
        BY <2>3, <4>1
      <4> QED
        BY <4>2, <4>3, <4>4
    <3>2. \A i, j \in 1..Len(segs) : segs[j].seg - segs[i].seg = j - i
      BY <2>4 DEF CycleInv, Gapless
    <3> SUFFICES ASSUME NEW i \in 1..(Len(segs) + 1), NEW j \in 1..(Len(segs) + 1)
                 PROVE  segs'[j].seg - segs'[i].seg = j - i
      BY <2>3 DEF Gapless
    <3>3. CASE i \in 1..Len(segs) /\ j \in 1..Len(segs)
      BY <2>3, <3>2, <3>3
    <3>4. CASE i \in 1..Len(segs) /\ j = Len(segs) + 1
      BY <2>3, <3>1, <3>4
    <3>5. CASE i = Len(segs) + 1 /\ j \in 1..Len(segs)
      BY <2>1, <2>3, <3>1, <3>5
    <3>6. CASE i = Len(segs) + 1 /\ j = Len(segs) + 1
      BY <2>1, <2>3, <3>6
    <3> QED
      BY <2>3, <3>3, <3>4, <3>5, <3>6
  <2>5. GoesOn'
    BY <1>4, <2>1, <2>3 DEF GoesOn
  <2> QED
    BY <1>4, <2>1, <2>4, <2>5 DEF CycleInv
<1> QED
  BY <1>1, <1>2, <1>3, <1>5, <1>6, <1>7, <1>8 DEF Next, Loop

\* A sample page is known to be p by whoever was told q.
Agrees(p, q) == p \in SamplePages => p = q

\* What is told last before place i of the wire, by a telemetry frame ahead of
\* it or else by the one handled last, agrees with page pg.
LastTel(q, j, i) == Tel(q[j]) /\ \A m \in (j + 1)..(i - 1) : ~Tel(q[m])
Agreed(q, top, al, i, pg) ==
  /\ \A j \in 1..(i - 1) : LastTel(q, j, i) => Agrees(q[j].page, pg)
  /\ al /\ (\A m \in 1..(i - 1) : ~Tel(q[m])) => Agrees(top, pg)

PageInv ==
  /\ \A i \in 1..Len(wire) :
       Sample(wire[i]) /\ wire[i].steady => Agreed(wire, lastTopMode, aligned, i, wire[i].page)
  /\ ~turned => Agreed(wire, lastTopMode, aligned, Len(wire) + 1, page)
  /\ aligned => \A i \in 1..Len(segs) : segs[i].steady => segs[i].page = lastTopMode

LEMMA AgreedTail ==
  ASSUME NEW S, NEW q \in Seq(S), q # <<>>, NEW i \in 1..Len(q), NEW pg,
         NEW top, NEW al, NEW top2, NEW al2,
         al2 => IF Tel(q[1]) THEN top2 = q[1].page ELSE al /\ top2 = top,
         Agreed(q, top, al, i + 1, pg)
  PROVE  Agreed(Tail(q), top2, al2, i, pg)
<1>1. /\ i \in Nat /\ Len(q) \in Nat /\ Len(Tail(q)) = Len(q) - 1
      /\ \A m \in 1..(i - 1) : m \in Nat /\ m + 1 \in 2..i /\ Tail(q)[m] = q[m + 1]
  BY WireTail
<1>2. \A m \in 2..i : m - 1 \in 1..(i - 1) /\ Tail(q)[m - 1] = q[m]
  <2> SUFFICES ASSUME NEW m \in 2..i PROVE m - 1 \in 1..(i - 1) /\ Tail(q)[m - 1] = q[m]
    OBVIOUS
  <2>1. m - 1 \in 1..(i - 1) /\ (m - 1) + 1 = m
    BY <1>1
  <2> QED
    BY <1>1, <2>1
<1>3. ASSUME NEW j \in 1..(i - 1), LastTel(Tail(q), j, i) PROVE Agrees(Tail(q)[j].page, pg)
  <2>1. LastTel(q, j + 1, i + 1)
    <3>1. Tel(q[j + 1])
      BY <1>1, <1>3 DEF LastTel
    <3>2. ASSUME NEW m \in (j + 2)..i PROVE ~Tel(q[m])
      <4>1. m - 1 \in (j + 1)..(i - 1) /\ m \in 2..i
        BY <1>1, <1>3
      <4> QED
        BY <1>2, <1>3, <4>1 DEF LastTel
    <3>3. (j + 1) + 1 = j + 2 /\ (i + 1) - 1 = i
      BY <1>1
    <3> QED
      BY <3>1, <3>2, <3>3 DEF LastTel
  <2>2. j + 1 \in 1..((i + 1) - 1)
    BY <1>1
  <2> QED
    BY <1>1, <2>1, <2>2 DEF Agreed
<1>4. ASSUME al2, \A m \in 1..(i - 1) : ~Tel(Tail(q)[m]) PROVE Agrees(top2, pg)
  <2>1. \A m \in 2..i : ~Tel(q[m])
    BY <1>2, <1>4
  <2>2. CASE Tel(q[1])
    <3>1. LastTel(q, 1, i + 1) /\ 1 \in 1..((i + 1) - 1)
      <4>1. 1 + 1 = 2 /\ (i + 1) - 1 = i /\ 1 \in 1..i
        BY <1>1
      <4> QED
        BY <2>1, <2>2, <4>1 DEF LastTel
    <3> QED
      BY <1>4, <2>2, <3>1 DEF Agreed
  <2>3. CASE ~Tel(q[1])
    <3>1. \A m \in 1..((i + 1) - 1) : m = 1 \/ m \in 2..i
      BY <1>1
    <3>2. \A m \in 1..((i + 1) - 1) : ~Tel(q[m])
      BY <2>1, <2>3, <3>1
    <3> QED
      BY <1>4, <2>3, <3>2 DEF Agreed
  <2> QED
    BY <2>2, <2>3
<1> QED
  BY <1>3, <1>4 DEF Agreed

LEMMA AgreedAppend ==
  ASSUME NEW S, NEW q \in Seq(S), NEW r \in S, NEW top, NEW al, NEW pg
  PROVE  /\ \A i \in 1..(Len(q) + 1) :
              Agreed(q, top, al, i, pg) => Agreed(Append(q, r), top, al, i, pg)
         /\ Agreed(q, top, al, Len(q) + 1, pg) /\ (Tel(r) => Agrees(r.page, pg))
              => Agreed(Append(q, r), top, al, Len(q) + 2, pg)
<1> DEFINE n == Len(q)
           a == Append(q, r)
<1>1. n \in Nat /\ a[n + 1] = r /\ \A m \in 1..n : a[m] = q[m]
  BY WireAppend
<1> HIDE DEF n, a
<1>2. ASSUME NEW i \in 1..(n + 1), Agreed(q, top, al, i, pg)
      PROVE  Agreed(a, top, al, i, pg)
  <2>1. \A m \in 1..(i - 1) : m \in 1..n /\ a[m] = q[m]
    BY <1>1
  <2>2. ASSUME NEW j \in 1..(i - 1), LastTel(a, j, i) PROVE Agrees(a[j].page, pg)
    <3>1. \A m \in (j + 1)..(i - 1) : m \in 1..(i - 1)
      BY <1>1
    <3>2. LastTel(q, j, i)
      BY <2>1, <2>2, <3>1 DEF LastTel
    <3> QED
      BY <1>2, <2>1, <3>2 DEF Agreed
  <2>3. al /\ (\A m \in 1..(i - 1) : ~Tel(a[m])) => Agrees(top, pg)
    BY <1>2, <2>1 DEF Agreed
  <2> QED
    BY <2>2, <2>3 DEF Agreed
<1>3. ASSUME Agreed(q, top, al, n + 1, pg), Tel(r) => Agrees(r.page, pg)
      PROVE  Agreed(a, top, al, n + 2, pg)
  <2>1. (n + 1) - 1 = n /\ (n + 2) - 1 = n + 1 /\ n + 1 \in 1..(n + 1)
    BY <1>1
  <2>2. ASSUME NEW j \in 1..(n + 1), LastTel(a, j, n + 2) PROVE Agrees(a[j].page, pg)
    <3>1. CASE j = n + 1
      BY <1>1, <1>3, <2>2, <3>1 DEF LastTel
    <3>2. CASE j \in 1..n
      <4>1. \A m \in (j + 1)..n : m \in (j + 1)..(n + 1) /\ m \in 1..n
        BY <1>1, <3>2
      <4>2. LastTel(q, j, n + 1)
        BY <1>1, <2>1, <2>2, <3>2, <4>1 DEF LastTel
      <4> QED
        BY <1>1, <1>3, <2>1, <3>2, <4>2 DEF Agreed
    <3> QED
      BY <1>1, <3>1, <3>2
  <2>3. ASSUME al, \A m \in 1..(n + 1) : ~Tel(a[m]) PROVE Agrees(top, pg)
    <3>1. \A m \in 1..n : m \in 1..(n + 1)
      BY <1>1
    <3>2. \A m \in 1..n : ~Tel(q[m])
      BY <1>1, <2>3, <3>1
    <3> QED
      BY <1>3, <2>1, <2>3, <3>2 DEF Agreed
  <2> QED
    BY <2>1, <2>2, <2>3 DEF Agreed
<1> QED
  BY <1>2, <1>3 DEF n, a

\* Handling or losing the first report leaves every later one agreed upon.
LEMMA TailPages ==
  ASSUME TypeInv, PageInv, wire # <<>>, wire' = Tail(wire), UNCHANGED <<page, turned>>,
         aligned' => IF Tel(wire[1]) THEN lastTopMode' = wire[1].page
                     ELSE aligned /\ lastTopMode' = lastTopMode
  PROVE  /\ \A i \in 1..Len(wire') :
              Sample(wire'[i]) /\ wire'[i].steady
                => Agreed(wire', lastTopMode', aligned', i, wire'[i].page)
         /\ ~turned' => Agreed(wire', lastTopMode', aligned', Len(wire') + 1, page')
<1>1. wire \in Seq(Arriving)
  BY DEF TypeInv, WireTypes
<1>2. /\ Len(wire) \in Nat /\ Len(wire) \in 1..Len(wire) /\ Len(wire') + 1 = Len(wire)
      /\ \A i \in 1..Len(wire') : i \in 1..Len(wire) /\ i + 1 \in 1..Len(wire) /\ wire'[i] = wire[i + 1]
  <2>1. \A i \in 1..Len(Tail(wire)) : i + 1 \in 1..Len(wire) /\ Tail(wire)[i] = wire[i + 1]
    BY <1>1, WireTail
  <2>2. Len(wire) \in Nat /\ 1 \in 1..Len(wire) /\ Len(Tail(wire)) = Len(wire) - 1
    BY <1>1, WireTail
  <2> QED
    BY <2>1, <2>2
<1>3. ASSUME NEW i \in 1..Len(wire), NEW pg, Agreed(wire, lastTopMode, aligned, i + 1, pg)
      PROVE  Agreed(wire', lastTopMode', aligned', i, pg)
  BY <1>1, <1>3, AgreedTail
<1>4. ASSUME NEW i \in 1..Len(wire'), Sample(wire'[i]), wire'[i].steady
      PROVE  Agreed(wire', lastTopMode', aligned', i, wire'[i].page)
  BY <1>2, <1>3, <1>4 DEF PageInv
<1>5. ~turned' => Agreed(wire', lastTopMode', aligned', Len(wire') + 1, page')
  BY <1>2, <1>3 DEF PageInv
<1> QED
  BY <1>4, <1>5

\* So does an answer that does not contradict the page.
LEMMA AppendPages ==
  ASSUME TypeInv, PageInv, NEW r \in Arriving, wire' = Append(wire, r),
         UNCHANGED <<lastTopMode, aligned>>,
         ~turned' => page' = page /\ (turned => Tel(r)) /\ (Tel(r) => Agrees(r.page, page)),
         Sample(r) /\ r.steady => ~turned /\ r.page = page
  PROVE  /\ \A i \in 1..Len(wire') :
              Sample(wire'[i]) /\ wire'[i].steady
                => Agreed(wire', lastTopMode', aligned', i, wire'[i].page)
         /\ ~turned' => Agreed(wire', lastTopMode', aligned', Len(wire') + 1, page')
<1>1. wire \in Seq(Arriving)
  BY DEF TypeInv, WireTypes
<1>2. /\ Len(wire) \in Nat /\ Len(wire') = Len(wire) + 1 /\ wire'[Len(wire) + 1] = r
      /\ \A i \in 1..Len(wire) : i \in 1..(Len(wire) + 1) /\ wire'[i] = wire[i]
      /\ \A i \in 1..Len(wire') : i \in 1..Len(wire) \/ i = Len(wire) + 1
      /\ Len(wire) + 1 \in 1..(Len(wire) + 1) /\ Len(wire') + 1 = Len(wire) + 2
  BY <1>1, WireAppend
<1>3. ASSUME NEW i \in 1..(Len(wire) + 1), NEW pg, Agreed(wire, lastTopMode, aligned, i, pg)
      PROVE  Agreed(wire', lastTopMode', aligned', i, pg)
  BY <1>1, <1>3, AgreedAppend
<1>4. ASSUME NEW i \in 1..Len(wire'), Sample(wire'[i]), wire'[i].steady
      PROVE  Agreed(wire', lastTopMode', aligned', i, wire'[i].page)
  <2>1. CASE i \in 1..Len(wire)
    BY <1>2, <1>3, <1>4, <2>1 DEF PageInv
  <2>2. CASE i = Len(wire) + 1
    <3>1. ~turned /\ wire'[i].page = page
      BY <1>2, <1>4, <2>2
    <3> QED
      BY <1>2, <1>3, <2>2, <3>1 DEF PageInv
  <2> QED
    BY <1>2, <2>1, <2>2
<1>5. ASSUME ~turned' PROVE Agreed(wire', lastTopMode', aligned', Len(wire') + 1, page')
  <2>1. CASE ~turned
    BY <1>1, <1>2, <1>5, <2>1, AgreedAppend DEF PageInv
  <2>2. CASE turned
    <3>1. Tel(r) /\ Agrees(r.page, page) /\ page' = page
      BY <1>5, <2>2
    <3>2. (Len(wire') + 1) - 1 = Len(wire) + 1
      BY <1>2
    <3>3. ASSUME NEW j \in 1..(Len(wire) + 1), LastTel(wire', j, Len(wire') + 1)
          PROVE  Agrees(wire'[j].page, page')
      <4>1. CASE j = Len(wire) + 1
        BY <1>2, <3>1, <4>1
      <4>2. CASE j \in 1..Len(wire)
        <5>1. Len(wire) + 1 \in (j + 1)..(Len(wire) + 1)
          BY <1>2, <4>2
        <5> QED
          BY <1>2, <3>1, <3>2, <3>3, <5>1 DEF LastTel
      <4> QED
        BY <1>2, <4>1, <4>2
    <3>4. ~(\A m \in 1..(Len(wire) + 1) : ~Tel(wire'[m]))
      BY <1>2, <3>1
    <3> QED
      BY <3>2, <3>3, <3>4 DEF Agreed
  <2> QED
    BY <2>1, <2>2
<1> QED
  BY <1>4, <1>5

\* What the meter answers to a tick does not contradict its page.
LEMMA AnswerPages ==
  ASSUME TypeInv, NEW n, NEW r \in Answers(n)
  PROVE  /\ Tel(r) => Agrees(r.page, page)
         /\ Sample(r) /\ r.steady => ~turned /\ r.page = page
         /\ r.shape = "telemetry" /\ r.seg = 0 => Tel(r)
<1>1. \A x \in AnswerPoll \cup AnswerStatus : x.page = page /\ Tel(x) /\ ~Sample(x)
  <2>1. LET x == Report("telemetry", page, channel, "", 0)
        IN  x.page = page /\ x.shape = "telemetry"
    BY DEF Report
  <2>2. LET x == [Report("telemetry", page, channel, alert, 0) EXCEPT !.shape = "status"]
        IN  x.page = page /\ x.shape = "status"
    BY DEF Report
  <2> QED
    BY <2>1, <2>2 DEF AnswerPoll, AnswerStatus, Tel, Sample
<1>2. ASSUME NEW k, NEW x \in AnswerSample(k)
      PROVE  /\ Tel(x) => Agrees(x.page, page)
             /\ Sample(x) /\ x.steady => ~turned /\ x.page = page
  <2>1. x \in {Echo, BlankTrace(k)} \/ x = Report("sample", page, channel, "", k)
    BY <1>2, Zenon DEF AnswerSample
  <2>2. CASE x = Echo
    BY <2>2 DEF Echo, Report, Tel, Sample
  <2>3. CASE x = BlankTrace(k)
    BY <2>3 DEF BlankTrace, Report, Tel, Sample, Agrees, SamplePages
  <2>4. CASE x = Report("sample", page, channel, "", k)
    <3>1. x.shape = "sample" /\ x.page = page /\ (x.steady => ~turned)
      BY <2>4 DEF Report
    <3> QED
      BY <3>1 DEF Tel, Sample
  <2> QED
    BY <2>1, <2>2, <2>3, <2>4
<1>3. r \in AnswerPoll \cup AnswerStatus \/ \E k : r \in AnswerSample(k)
  BY Zenon DEF Answers
<1> QED
  BY <1>1, <1>2, <1>3 DEF Tel, Agrees

LEMMA StepPages == TypeInv /\ PageInv /\ [Next]_vars => PageInv'
<1> SUFFICES ASSUME TypeInv, PageInv, [Next]_vars PROVE PageInv'
  OBVIOUS
<1>w. wire \in Seq(Arriving) /\ turned \in BOOLEAN /\ page \in Pages
  BY DEF TypeInv, WireTypes, LoopTypes, MeterTypes
<1>1. CASE UNCHANGED vars \/ Tick \/ \E v \in Verbs : Submit(v)
  <2>1. UNCHANGED <<wire, page, lastTopMode, segs, aligned, turned>>
    BY <1>1 DEF vars, Tick, Submit, meterVars, stateVars, history
  <2> QED
    BY <2>1 DEF PageInv
<1>2. CASE Operator
  <2>1. UNCHANGED <<wire, lastTopMode, segs, aligned>> /\ turned' = (turned \/ page' # page)
    BY <1>2 DEF Operator, stateVars
  <2>2. ~turned' => ~turned /\ page' = page
    BY <2>1
  <2> QED
    BY <2>1, <2>2 DEF PageInv
<1>3. CASE DrainCommand
  <2>1. /\ UNCHANGED <<lastTopMode, segs, aligned>> /\ turned' = (turned \/ page' # page)
        /\ wire' \in {wire, Append(wire, Echo)}
    BY <1>3 DEF DrainCommand, MeterTakesVerb, stateVars
  <2>2. ~turned' => ~turned /\ page' = page
    BY <2>1
  <2>3. CASE wire' = wire
    BY <2>1, <2>2, <2>3 DEF PageInv
  <2>4. CASE wire' = Append(wire, Echo)
    <3>1. Echo \in Arriving /\ ~Tel(Echo) /\ ~Sample(Echo)
      <4>1. Echo \in Arriving
        BY EchoArrives, TypesOK
      <4>2. Echo.shape = "echo"
        BY DEF Echo, Report
      <4> QED
        BY <4>1, <4>2 DEF Tel, Sample
    <3> QED
      BY <2>1, <2>2, <2>4, <3>1, AppendPages DEF PageInv
  <2> QED
    BY <2>1, <2>3, <2>4
<1>4. CASE WriteRequest
  <2>1. PICK r \in Answers(tickN + 1) :
          /\ wire' = Append(wire, r)
          /\ turned' = (turned /\ ~(r.shape = "telemetry" /\ r.seg = 0))
    BY <1>4 DEF WriteRequest
  <2>2. UNCHANGED <<page, lastTopMode, segs, aligned>>
    BY <1>4 DEF WriteRequest, meterVars, stateVars
  <2>3. r \in Arriving
    <3>1. tickN + 1 \in Nat
      BY Constants DEF TypeInv, LoopTypes
    <3> QED
      BY <2>1, <3>1, AnswersArrive, TypesOK
  <2>4. ~turned' => page' = page /\ (turned => Tel(r)) /\ (Tel(r) => Agrees(r.page, page))
    BY <2>1, <2>2, AnswerPages
  <2>5. Sample(r) /\ r.steady => ~turned /\ r.page = page
    BY <2>1, AnswerPages
  <2> QED
    BY <2>1, <2>2, <2>3, <2>4, <2>5, AppendPages DEF PageInv
<1>5. CASE LoseReport
  <2>1. wire # <<>> /\ wire' = Tail(wire) /\ UNCHANGED <<page, turned, lastTopMode, segs>> /\ aligned' = FALSE
    BY <1>5 DEF LoseReport, meterVars, stateVars
  <2> QED
    BY <2>1, TailPages DEF PageInv
<1>6. ASSUME NEW shapes, Receive(shapes)
      PROVE  /\ wire # <<>> /\ wire' = Tail(wire) /\ UNCHANGED page
             /\ Head(wire) = wire[1] /\ wire[1].shape \in shapes /\ 1 \in 1..Len(wire)
  BY <1>6, <1>w, WireTail DEF Receive, meterVars
<1>7. CASE HandleEcho
  <2>1. /\ UNCHANGED <<lastTopMode, aligned, turned>> /\ segs' = <<>> /\ ~Tel(wire[1])
        /\ wire # <<>> /\ wire' = Tail(wire) /\ UNCHANGED page
    BY <1>6, <1>7 DEF HandleEcho, history, Tel
  <2> QED
    BY <2>1, TailPages DEF PageInv
<1>8. CASE HandleTelemetry
  <2>1. /\ wire # <<>> /\ wire' = Tail(wire) /\ UNCHANGED <<page, turned>> /\ Tel(wire[1])
        /\ segs' = <<>> /\ lastTopMode' = wire[1].page
    BY <1>6, <1>8 DEF HandleTelemetry, SegsAfterTelemetry, Tel
  <2> QED
    BY <2>1, TailPages DEF PageInv
<1>9. CASE DropSample
  <2>1. /\ UNCHANGED <<lastTopMode, segs, aligned, turned>> /\ ~Tel(wire[1])
        /\ wire # <<>> /\ wire' = Tail(wire) /\ UNCHANGED page
    BY <1>6, <1>9 DEF DropSample, stateVars, history, Tel
  <2> QED
    BY <2>1, TailPages DEF PageInv
<1>10. CASE HandleSample
  <2>1. /\ UNCHANGED <<lastTopMode, aligned, turned>> /\ ~Tel(wire[1]) /\ Sample(wire[1])
        /\ wire # <<>> /\ wire' = Tail(wire) /\ UNCHANGED page /\ 1 \in 1..Len(wire)
        /\ segs' = Append(segs, Segment(wire[1])) /\ lastTopMode \in SamplePages
    BY <1>6, <1>10 DEF HandleSample, history, Tel, Sample, Assembling
  <2>2. ASSUME aligned, wire[1].steady PROVE wire[1].page = lastTopMode
    <3>1. Agreed(wire, lastTopMode, aligned, 1, wire[1].page)
      BY <2>1, <2>2 DEF PageInv
    <3>2. \A m \in 1..(1 - 1) : ~Tel(wire[m])
      OBVIOUS
    <3>3. Agrees(lastTopMode, wire[1].page)
      BY <2>2, <3>1, <3>2 DEF Agreed
    <3> QED
      BY <2>1, <3>3 DEF Agrees
  <2>3. Segment(wire[1]).page = wire[1].page /\ Segment(wire[1]).steady = wire[1].steady
    BY DEF Segment
  <2>4. /\ \A i \in 1..Len(segs') : i \in 1..Len(segs) \/ i = Len(segs) + 1
        /\ \A i \in 1..Len(segs) : segs'[i] = segs[i]
        /\ segs'[Len(segs) + 1] = Segment(wire[1])
    <3> DEFINE S == [page : SamplePages, seg : 1..Segments, steady : BOOLEAN]
    <3>1. segs \in Seq(S)
      BY DEF TypeInv, SegsTypes
    <3>2. Segment(wire[1]) \in S
      <4>1. wire[1] \in Arriving
        BY <1>w, <2>1, Elements
      <4>2. wire[1].page \in SamplePages /\ wire[1].seg \in 1..Segments /\ wire[1].steady \in BOOLEAN
        BY <2>1, <4>1 DEF Arriving, Genuine, Sample, Reports
      <4> QED
        BY <4>2, Zenon DEF Segment
    <3> HIDE DEF S
    <3> QED
      BY <2>1, <3>1, <3>2, WireAppend
  <2>5. aligned' => \A i \in 1..Len(segs') : segs'[i].steady => segs'[i].page = lastTopMode'
    BY <2>1, <2>2, <2>3, <2>4 DEF PageInv
  <2> QED
    BY <2>1, <2>5, TailPages DEF PageInv
<1> QED
  BY <1>1, <1>2, <1>3, <1>4, <1>5, <1>7, <1>8, <1>9, <1>10 DEF Next, Loop

\* Only the last segment of a buffer sends it.
LEMMA StepSelfCorrecting ==
  TypeInv /\ CycleInv /\ PageInv /\ SelfCorrecting /\ TypeInv' /\ CycleInv' /\ PageInv' /\ [Next]_vars
    => SelfCorrecting'
<1> SUFFICES ASSUME SelfCorrecting, TypeInv', CycleInv', PageInv', [Next]_vars,
                    sent'.kind \in SamplePages, aligned'
             PROVE  InOrder' /\ (Steady' => \A i \in 1..Segments : sent'.segs[i].page = sent'.kind)
  BY DEF SelfCorrecting
<1>1. CASE UNCHANGED vars
  BY <1>1 DEF vars, history, SelfCorrecting, InOrder, Steady
<1>2. CASE HandleSample
  <2>1. /\ lastTopMode' = lastTopMode /\ Len(segs') = Segments
        /\ sent' = [kind |-> lastTopMode, channel |-> lastChannel, segs |-> segs']
    <3>1. Nothing.kind \notin SamplePages
      BY DEF Nothing, SamplePages
    <3> QED
      BY <1>2, <3>1 DEF HandleSample, Emit
  <2>2. sent'.segs = segs' /\ sent'.kind = lastTopMode'
    BY <2>1
  <2>3. \A i \in 1..Segments : segs'[i].seg \in 1..Segments
    <3> DEFINE S == [page : SamplePages, seg : 1..Segments, steady : BOOLEAN]
    <3>1. segs' \in Seq(S)
      BY DEF TypeInv, SegsTypes
    <3>2. \A x \in S : x.seg \in 1..Segments
      OBVIOUS
    <3> HIDE DEF S
    <3> QED
      BY <2>1, <3>1, <3>2, Elements
  <2>4. \A i, j \in 1..Segments : segs'[j].seg - segs'[i].seg = j - i
    BY <2>1 DEF CycleInv, Gapless
  <2>5. ASSUME NEW i \in 1..Segments PROVE segs'[i].seg = i
    <3>1. 1 \in 1..Segments /\ Segments \in 1..Segments
      BY Constants
    <3>2. segs'[Segments].seg - segs'[1].seg = Segments - 1 /\ segs'[i].seg - segs'[1].seg = i - 1
      BY <2>4, <3>1
    <3> QED
      BY <2>3, <3>1, <3>2, Constants
  <2>6. InOrder'
    BY <2>2, <2>5 DEF InOrder
  <2>7. Steady' => \A i \in 1..Segments : sent'.segs[i].page = sent'.kind
    BY <2>1, <2>2 DEF Steady, PageInv
  <2> QED
    BY <2>6, <2>7
<1>3. CASE HandleTelemetry
  <2>1. sent'.kind \notin SamplePages
    <3>1. sent' = Nothing \/ sent'.kind = "snapshot"
      BY <1>3 DEF HandleTelemetry
    <3> QED
      BY <3>1 DEF Nothing, SamplePages
  <2> QED
    BY <2>1
<1>4. CASE \/ Operator \/ LoseReport \/ Tick \/ DrainCommand \/ WriteRequest
           \/ HandleEcho \/ DropSample \/ \E v \in Verbs : Submit(v)
  <2>1. sent' = Nothing
    BY <1>4 DEF Operator, LoseReport, Tick, DrainCommand, WriteRequest, HandleEcho, DropSample, Submit
  <2> QED
    BY <2>1 DEF Nothing, SamplePages
<1> QED
  BY <1>1, <1>2, <1>3, <1>4 DEF Next, Loop

LEMMA InitBuffers == Init => CycleInv /\ PageInv /\ SelfCorrecting
<1> SUFFICES ASSUME Init PROVE CycleInv /\ PageInv /\ SelfCorrecting
  OBVIOUS
<1>1. wire = <<>> /\ segs = <<>> /\ lastTopMode = "" /\ sent = Nothing
  BY DEF Init
<1>2. 1..Len(wire) = {} /\ 1..Len(segs) = {} /\ 1..((Len(wire) + 1) - 1) = {}
  <2>1. Len(wire) = 0 /\ Len(segs) = 0
    BY <1>1
  <2> QED
    BY <2>1
<1>3. CycleInv
  <2>1. Neighbours(wire) /\ EndsAtClock(wire)
    BY <1>1, <1>2, Zenon DEF Neighbours, EndsAtClock
  <2>2. Gapless /\ GoesOn
    BY <1>1, <1>2, Zenon DEF Gapless, GoesOn
  <2> QED
    BY <1>1, <2>1, <2>2 DEF CycleInv
<1>4. PageInv
  <2>1. lastTopMode \notin SamplePages
    BY <1>1 DEF SamplePages
  <2>2. Agreed(wire, lastTopMode, aligned, Len(wire) + 1, page)
    BY <1>2, <2>1, Zenon DEF Agreed, Agrees
  <2> QED
    BY <1>2, <2>2, Zenon DEF PageInv
<1>5. SelfCorrecting
  BY <1>1 DEF SelfCorrecting, Nothing, SamplePages
<1> QED
  BY <1>3, <1>4, <1>5

\* Through any page changes, echoes, verbs and blank traces, a buffer sent to
\* the clients holds segments 1..n in order, and of the page it is labelled
\* with, unless a report was lost or the page turned within the cycle
\* (owner.go, the sampleSegIdx resets of the select loop).
THEOREM BuffersCorrectThemselves == Spec => []SelfCorrecting
BY InitTypes, StepTypes, InitBuffers, StepCycle, StepPages, StepSelfCorrecting, PTL DEF Spec
=============================================================================

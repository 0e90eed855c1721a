------------------------------- MODULE Decode -------------------------------
(***************************************************************************)
(* How one IN report is classified and decoded: isCommandEcho and           *)
(* isLikelyTelemetry (internal/lpmeter/owner.go) route it, Decode and       *)
(* extractStatusMessage (internal/lpmeter/decode.go) turn it into a         *)
(* snapshot.  Bytes are bytes.  Powers are kept as the raw 16-bit words     *)
(* (0.2 W units), SWR in hundredths, texts as sequences of character codes. *)
(***************************************************************************)
EXTENDS Integers, SequencesExt

CONSTANT Reports      \* the IN reports the meter delivers

ReportSize == 64
Byte == 0..255

ASSUME ReportsAreFrames == Reports \subseteq [0..(ReportSize - 1) -> Byte]

VARIABLES report,     \* the IN report handled last
          route,      \* what the loop made of it
          snap        \* the snapshot it published, if any
vars == <<report, route, snap>>

At == [peakHold |-> 0, swrHi |-> 2, topMode |-> 3, channel |-> 4, channelAuto |-> 5,
       range |-> 6, alarm |-> 7, peakAvg |-> 8, peakPwr |-> 23, avgPwr |-> 25,
       swrLo |-> 37, status |-> 40]

rangeNames == <<"5W", "10W", "25W", "50W", "100W", "250W", "500W", "1K", "2.5K", "5K", "10K", "auto">>
topModeNames  == <<"power_swr", "waveform", "spectrum", "setup">>
peakModeNames == <<"peak_hold", "average", "tune">>

Word(r, hi, lo) == 256 * r[hi] + r[lo]
PeakRaw(r) == Word(r, At.peakPwr, At.peakPwr + 1)
AvgRaw(r)  == Word(r, At.avgPwr, At.avgPwr + 1)
SWRRaw(r)  == Word(r, At.swrHi, At.swrLo)

NoSnap == [valid |-> FALSE]

-----------------------------------------------------------------------------
(* Classification by shape.                                                 *)

\* A command character, '0'..'?', and nothing else.
IsCommandEcho(r) == r[0] \in 48..63 /\ \A i \in 1..(ReportSize - 1) : r[i] = 0

\* Fault: the table length is taken for the last index.
IsLikelyTelemetryOffByOne(r) ==
  /\ r[At.topMode] <= 3 /\ r[At.channel] <= 4 /\ r[At.channelAuto] <= 4
  /\ r[At.range] <= 12 /\ r[At.alarm] <= 1 /\ r[At.peakAvg] < 3
  /\ PeakRaw(r) >= AvgRaw(r) /\ SWRRaw(r) <= 1000

\* Fault: the power coherence test is missing.
IsLikelyTelemetryByHeader(r) ==
  /\ r[At.topMode] <= 3 /\ r[At.channel] <= 4 /\ r[At.channelAuto] <= 4
  /\ r[At.range] < 12 /\ r[At.alarm] <= 1 /\ r[At.peakAvg] < 3
  /\ SWRRaw(r) <= 1000

IsLikelyTelemetry(r) ==
  /\ r[At.topMode] <= 3
  /\ r[At.channel] <= 4
  /\ r[At.channelAuto] <= 4
  /\ r[At.range] < 12
  /\ r[At.alarm] <= 1
  /\ r[At.peakAvg] < 3
  /\ PeakRaw(r) >= AvgRaw(r)
  /\ SWRRaw(r) <= 1000

-----------------------------------------------------------------------------
(* The status text of bytes 40..63.                                         *)

Space == 32
IsNul(b) == b = 0
IsPrintable(b) == b \in 32..126
NotSpace(b) == b # Space
IsLetter(b) == b \in 65..90 \cup 97..122

Slot(r) == [i \in 1..(ReportSize - At.status) |-> r[At.status + i - 1]]

\* Fault: a NUL is skipped like any unprintable byte.
BeforeNulSkipped(slot) == slot

\* The loop over the slot stops at the first NUL.
BeforeNul(slot) ==
  LET nul == SelectInSeq(slot, IsNul)
  IN  IF nul = 0 THEN slot ELSE SubSeq(slot, 1, nul - 1)

\* The loop keeps the bytes that can be printed.
Printable(text) ==
  LET kept[i \in 0..Len(text)] ==
        IF i = 0 THEN <<>>
        ELSE IF IsPrintable(text[i]) THEN Append(kept[i - 1], text[i])
        ELSE kept[i - 1]
  IN  kept[Len(text)]

TrimRight(text) == SubSeq(text, 1, SelectLastInSeq(text, NotSpace))

\* At least one space, and a run of three letters.
LooksLikePhrase(text) ==
  /\ Len(text) >= 4
  /\ Contains(text, Space)
  /\ \E i \in 1..(Len(text) - 2) : \A j \in i..(i + 2) : IsLetter(text[j])

ExtractStatus(slot) ==
  LET text == TrimRight(Printable(BeforeNul(slot)))
  IN  IF LooksLikePhrase(text) THEN text ELSE <<>>

-----------------------------------------------------------------------------
(* Decode.                                                                  *)

DecodeError(r) ==
  IF IsCommandEcho(r) THEN "skip"
  ELSE IF r[At.channel] > 4 THEN "channel"
  ELSE IF r[At.range] >= 12 THEN "range"
  ELSE "none"

\* Fault: the channel auto mode is locked to is not checked.
ChannelUnchecked(r) == IF r[At.channel] = 0 THEN r[At.channelAuto] ELSE r[At.channel]

\* In Auto, byte 5 carries the channel it is locked to, 1 when it does not.
ChannelOf(r) ==
  IF r[At.channel] # 0 THEN r[At.channel]
  ELSE IF r[At.channelAuto] \in 1..4 THEN r[At.channelAuto]
  ELSE 1

Snapshot(r) ==
  [valid |-> TRUE,
   peakHold |-> Word(r, At.peakHold, At.peakHold + 1),
   powerPeak |-> PeakRaw(r),
   powerAvg |-> AvgRaw(r),
   swr |-> IF SWRRaw(r) < 100 THEN 100 ELSE SWRRaw(r),
   autoChannel |-> r[At.channel] = 0,
   channel |-> ChannelOf(r),
   range |-> rangeNames[r[At.range] + 1],
   topMode |-> IF r[At.topMode] < 4 THEN topModeNames[r[At.topMode] + 1] ELSE "power_swr",
   alarmEnabled |-> r[At.alarm] = 0,
   peakMode |-> IF r[At.peakAvg] < 3 THEN peakModeNames[r[At.peakAvg] + 1] ELSE "",
   status |-> ExtractStatus(Slot(r))]

\* The routing of the frames case: a decode error is logged, the loop goes on.
Route(r) ==
  IF IsCommandEcho(r) THEN "echo"
  ELSE IF ~IsLikelyTelemetry(r) THEN "sample"
  ELSE IF DecodeError(r) = "none" THEN "published"
  ELSE "rejected"

Init ==
  /\ report = [i \in 0..(ReportSize - 1) |-> 0]
  /\ route = "none"
  /\ snap = NoSnap

Handle(r) ==
  /\ report' = r
  /\ route' = Route(r)
  /\ snap' = IF Route(r) = "published" THEN Snapshot(r) ELSE NoSnap

Next == \E r \in Reports : Handle(r)

Spec == Init /\ [][Next]_vars

-----------------------------------------------------------------------------
(* Properties.                                                              *)

\* A published snapshot has the values its documented fields may take:
\* a channel 1..4, a range, top mode and peak mode of their tables.
TypeOK ==
  /\ route \in {"none", "echo", "sample", "published", "rejected"}
  /\ snap.valid =>
       /\ snap.channel \in 1..4 /\ snap.autoChannel \in BOOLEAN
       /\ snap.range \in ToSet(rangeNames) /\ snap.topMode \in ToSet(topModeNames)
       /\ snap.peakMode \in ToSet(peakModeNames) /\ snap.alarmEnabled \in BOOLEAN

\* The shape filter is stricter than Decode: no report that passes it is an
\* echo to Decode or has a channel or range Decode rejects.
FilterCoversDecode == route # "rejected"

\* The published readings agree with each other, whatever bytes slipped
\* through: peak is at least average, SWR lies in 1.00..10.00.
ReadingsCohere == snap.valid => snap.powerPeak >= snap.powerAvg /\ snap.swr \in 100..1000

\* A published text depends only on the bytes before the first NUL, and
\* reading it back from a frame gives the same text.
StatusStable ==
  snap.valid =>
    LET slot == Slot(report)
        nul  == SelectInSeq(slot, IsNul)
        cut  == [i \in DOMAIN slot |-> IF nul # 0 /\ i >= nul THEN 0 ELSE slot[i]]
        again == [i \in DOMAIN slot |-> IF i <= Len(snap.status) THEN snap.status[i] ELSE 0]
    IN  snap.status = ExtractStatus(cut) /\ snap.status = ExtractStatus(again)
=============================================================================

---------------------------- MODULE DecodeProofs ----------------------------
(* What the frame classifier and the decoder guarantee for every report.    *)
EXTENDS Decode, WellFoundedInduction, TLAPS

Frames == [0..(ReportSize - 1) -> Byte]

LEMMA BytesAreNumbers == \A b \in Byte : b \in Nat /\ b <= 255
BY DEF Byte

\* Every byte the decoder looks at is there.
LEMMA FrameBytes ==
  ASSUME NEW r \in Frames, NEW i \in Nat, i < ReportSize
  PROVE  r[i] \in Byte /\ r[i] \in Nat /\ r[i] <= 255
<1>1. i \in 0..(ReportSize - 1)
  BY DEF ReportSize
<1>2. r[i] \in Byte
  BY <1>1, Zenon DEF Frames
<1> QED
  BY <1>2, BytesAreNumbers

\* A big-endian word of two bytes is a natural number.
LEMMA WordIsNat ==
  ASSUME NEW r \in Frames, NEW hi \in Nat, hi < ReportSize, NEW lo \in Nat, lo < ReportSize
  PROVE  Word(r, hi, lo) \in Nat
<1>1. r[hi] \in Nat /\ r[lo] \in Nat
  BY FrameBytes
<1> QED
  BY <1>1 DEF Word

\* The raw words are numbers: the bytes they are made of are.
LEMMA WordsAreNumbers ==
  ASSUME NEW r \in Frames
  PROVE  PeakRaw(r) \in Nat /\ AvgRaw(r) \in Nat /\ SWRRaw(r) \in Nat
<1>1. PeakRaw(r) = Word(r, 23, 24) /\ AvgRaw(r) = Word(r, 25, 26) /\ SWRRaw(r) = Word(r, 2, 37)
  BY DEF At, PeakRaw, AvgRaw, SWRRaw
<1>2. 23 < ReportSize /\ 24 < ReportSize /\ 25 < ReportSize /\ 26 < ReportSize /\ 2 < ReportSize
      /\ 37 < ReportSize
  BY DEF ReportSize
<1>3. Word(r, 23, 24) \in Nat /\ Word(r, 25, 26) \in Nat /\ Word(r, 2, 37) \in Nat
  BY <1>2, WordIsNat
<1> QED
  BY <1>1, <1>3

\* The filter of isLikelyTelemetry is stricter than Decode's own checks
\* (owner.go, the comment of isLikelyTelemetry).
LEMMA FilterStricterThanDecode ==
  ASSUME NEW r \in Frames, ~IsCommandEcho(r), IsLikelyTelemetry(r)
  PROVE  DecodeError(r) = "none"
<1>1. r[At.channel] \in Nat /\ r[At.channel] <= 255 /\ r[At.range] \in Nat /\ r[At.range] <= 255
  <2>1. At.channel = 4 /\ At.range = 6 /\ 4 < ReportSize /\ 6 < ReportSize
    BY DEF At, ReportSize
  <2> QED
    BY <2>1, FrameBytes
<1> QED
  BY <1>1 DEF DecodeError, IsLikelyTelemetry

\* Whatever the bytes, the decoded channel is one of the four.
LEMMA ChannelInRange ==
  ASSUME NEW r \in Frames, DecodeError(r) = "none"
  PROVE  ChannelOf(r) \in 1..4
<1>1. r[At.channel] \in Nat /\ r[At.channel] <= 255 /\ r[At.channelAuto] \in Nat /\ r[At.channelAuto] <= 255
  <2>1. At.channel = 4 /\ At.channelAuto = 5 /\ 4 < ReportSize /\ 5 < ReportSize
    BY DEF At, ReportSize
  <2> QED
    BY <2>1, FrameBytes
<1>2. r[At.channel] <= 4
  BY <1>1 DEF DecodeError
<1> QED
  BY <1>1, <1>2 DEF ChannelOf

-----------------------------------------------------------------------------

\* The frames case never meets a decode error: its branch is dead code.
THEOREM DecodeNeverRejects == Spec => []FilterCoversDecode
<1>1. Init => FilterCoversDecode
  BY DEF Init, FilterCoversDecode
<1>2. FilterCoversDecode /\ [Next]_vars => FilterCoversDecode'
  <2> SUFFICES ASSUME FilterCoversDecode, [Next]_vars
               PROVE  FilterCoversDecode'
    OBVIOUS
  <2>1. CASE Next
    <3>1. PICK r \in Reports : Handle(r)
      BY <2>1 DEF Next
    <3>2. r \in Frames
      BY ReportsAreFrames DEF Frames
    <3>3. Route(r) # "rejected"
      BY <3>2, FilterStricterThanDecode DEF Route
    <3> QED
      BY <3>1, <3>3 DEF Handle, FilterCoversDecode
  <2>2. CASE UNCHANGED vars
    BY <2>2 DEF vars, FilterCoversDecode
  <2> QED
    BY <2>1, <2>2
<1> QED
  BY <1>1, <1>2, PTL DEF Spec

\* A step that publishes a snapshot decodes a report that passed the filter.
LEMMA PublishedPassedFilter ==
  ASSUME NEW r \in Reports, Handle(r)
  PROVE  \/ snap' = NoSnap
         \/ r \in Frames /\ IsLikelyTelemetry(r) /\ DecodeError(r) = "none" /\ snap' = Snapshot(r)
BY ReportsAreFrames DEF Frames, Handle, Route

\* What is published coheres: peak covers average and SWR is 1.00..10.00,
\* even when a sample segment is taken for telemetry.
THEOREM PublishedReadingsCohere == Spec => []ReadingsCohere
<1>1. Init => ReadingsCohere
  BY DEF Init, ReadingsCohere, NoSnap
<1>2. ReadingsCohere /\ [Next]_vars => ReadingsCohere'
  <2> SUFFICES ASSUME ReadingsCohere, [Next]_vars
               PROVE  ReadingsCohere'
    OBVIOUS
  <2>1. CASE Next
    <3>1. PICK r \in Reports : Handle(r)
      BY <2>1 DEF Next
    <3>2. CASE snap' = NoSnap
      BY <3>2 DEF ReadingsCohere, NoSnap
    <3>3. CASE r \in Frames /\ IsLikelyTelemetry(r) /\ snap' = Snapshot(r)
      <4>1. PeakRaw(r) \in Nat /\ AvgRaw(r) \in Nat /\ SWRRaw(r) \in Nat
        BY <3>3, WordsAreNumbers
      <4>2. PeakRaw(r) >= AvgRaw(r) /\ SWRRaw(r) <= 1000
        BY <3>3 DEF IsLikelyTelemetry
      <4>3. snap'.powerPeak = PeakRaw(r) /\ snap'.powerAvg = AvgRaw(r)
            /\ snap'.swr = IF SWRRaw(r) < 100 THEN 100 ELSE SWRRaw(r)
        BY <3>3 DEF Snapshot
      <4> QED
        BY <4>1, <4>2, <4>3 DEF ReadingsCohere
    <3> QED
      BY <3>1, <3>2, <3>3, PublishedPassedFilter
  <2>2. CASE UNCHANGED vars
    BY <2>2 DEF vars, ReadingsCohere
  <2> QED
    BY <2>1, <2>2
<1> QED
  BY <1>1, <1>2, PTL DEF Spec

-----------------------------------------------------------------------------
(* Every field of a published snapshot.                                     *)

\* What the filter lets through indexes every table within its bounds.
LEMMA TablesIndexed ==
  ASSUME NEW r \in Frames, IsLikelyTelemetry(r)
  PROVE  /\ rangeNames[r[At.range] + 1] \in ToSet(rangeNames)
         /\ r[At.topMode] < 4 /\ topModeNames[r[At.topMode] + 1] \in ToSet(topModeNames)
         /\ r[At.peakAvg] < 3 /\ peakModeNames[r[At.peakAvg] + 1] \in ToSet(peakModeNames)
<1>1. At.range = 6 /\ At.topMode = 3 /\ At.peakAvg = 8 /\ 6 < ReportSize /\ 3 < ReportSize /\ 8 < ReportSize
  BY DEF At, ReportSize
<1>2. r[At.range] \in Nat /\ r[At.topMode] \in Nat /\ r[At.peakAvg] \in Nat
  BY <1>1, FrameBytes
<1>3. r[At.range] < 12 /\ r[At.topMode] <= 3 /\ r[At.peakAvg] < 3
  BY DEF IsLikelyTelemetry
<1>4. r[At.range] + 1 \in 1..12 /\ r[At.topMode] + 1 \in 1..4 /\ r[At.peakAvg] + 1 \in 1..3 /\ r[At.topMode] < 4
  BY <1>2, <1>3
<1>5. DOMAIN rangeNames = 1..12 /\ DOMAIN topModeNames = 1..4 /\ DOMAIN peakModeNames = 1..3
  BY DEF rangeNames, topModeNames, peakModeNames
<1> HIDE DEF rangeNames, topModeNames, peakModeNames
<1> QED
  BY <1>3, <1>4, <1>5 DEF ToSet

\* What a snapshot is made of, when the filter let its report through.
LEMMA SnapshotFields ==
  ASSUME NEW r \in Frames, IsLikelyTelemetry(r), DecodeError(r) = "none"
  PROVE  /\ Snapshot(r).channel \in 1..4 /\ Snapshot(r).autoChannel \in BOOLEAN
         /\ Snapshot(r).range \in ToSet(rangeNames) /\ Snapshot(r).topMode \in ToSet(topModeNames)
         /\ Snapshot(r).peakMode \in ToSet(peakModeNames) /\ Snapshot(r).alarmEnabled \in BOOLEAN
<1>1. /\ Snapshot(r).channel = ChannelOf(r) /\ Snapshot(r).autoChannel = (r[At.channel] = 0)
      /\ Snapshot(r).alarmEnabled = (r[At.alarm] = 0)
      /\ Snapshot(r).range = rangeNames[r[At.range] + 1]
      /\ Snapshot(r).topMode = IF r[At.topMode] < 4 THEN topModeNames[r[At.topMode] + 1] ELSE "power_swr"
      /\ Snapshot(r).peakMode = IF r[At.peakAvg] < 3 THEN peakModeNames[r[At.peakAvg] + 1] ELSE ""
  BY DEF Snapshot
<1>2. ChannelOf(r) \in 1..4
  BY ChannelInRange
<1> QED
  BY <1>1, <1>2, TablesIndexed

LEMMA HandleTypes ==
  ASSUME NEW r \in Reports, Handle(r)
  PROVE  TypeOK'
<1>1. route' \in {"none", "echo", "sample", "published", "rejected"}
  BY DEF Handle, Route
<1>2. CASE snap' = NoSnap
  BY <1>1, <1>2 DEF TypeOK, NoSnap
<1>3. CASE r \in Frames /\ IsLikelyTelemetry(r) /\ DecodeError(r) = "none" /\ snap' = Snapshot(r)
  BY <1>1, <1>3, SnapshotFields DEF TypeOK
<1> QED
  BY <1>2, <1>3, PublishedPassedFilter

\* Every field of a published snapshot has a documented value: one of the four
\* channels, and a name of its table for the range and both modes, for any 64
\* bytes at all (decode.go, Decode never indexes past a table).
THEOREM TypeCorrect == Spec => []TypeOK
<1>1. Init => TypeOK
  BY DEF Init, TypeOK, NoSnap
<1>2. TypeOK /\ [Next]_vars => TypeOK'
  <2> SUFFICES ASSUME TypeOK, [Next]_vars
               PROVE  TypeOK'
    OBVIOUS
  <2>1. CASE Next
    BY <2>1, HandleTypes DEF Next
  <2>2. CASE UNCHANGED vars
    BY <2>2 DEF vars, TypeOK
  <2> QED
    BY <2>1, <2>2
<1> QED
  BY <1>1, <1>2, PTL DEF Spec

-----------------------------------------------------------------------------
(* The status text and the NUL that ends it.                                *)

\* A set of positions that is not empty has a first one.
LEMMA FirstPosition ==
  ASSUME NEW S, S \subseteq Nat, S # {}
  PROVE  Min(S) \in S /\ \A y \in S : Min(S) <= y
<1>1. PICK x \in S : \A y \in S : ~(<<y, x>> \in OpToRel(<, Nat))
  BY NatLessThanWellFounded, WFMin
<1>2. \A y \in S : x <= y
  <2> SUFFICES ASSUME NEW y \in S PROVE x <= y
    OBVIOUS
  <2>1. x \in Nat /\ y \in Nat /\ ~(<<y, x>> \in OpToRel(<, Nat))
    BY <1>1
  <2>2. ~(y < x)
    BY <2>1 DEF OpToRel
  <2>3. x \in Nat /\ y \in Nat
    BY <2>1
  <2> QED
    BY <2>2, <2>3
<1>3. \E z \in S : \A y \in S : z <= y
  BY <1>2
<1> QED
  BY <1>3 DEF Min

\* The first NUL of a text, 0 when there is none.
LEMMA FirstNul ==
  ASSUME NEW n \in Nat, NEW t \in [1..n -> Nat]
  PROVE  LET nul == SelectInSeq(t, IsNul)
         IN  \/ nul = 0 /\ \A i \in 1..n : t[i] # 0
             \/ nul \in 1..n /\ t[nul] = 0 /\ \A i \in 1..n : i < nul => t[i] # 0
<1> DEFINE I == {i \in 1..n : t[i] = 0}
<1>0. Len(t) = n
  OBVIOUS
<1>1. SelectInSeq(t, IsNul) = IF I # {} THEN Min(I) ELSE 0
  BY <1>0 DEF SelectInSeq, IsNul
<1>2. CASE I = {}
  BY <1>1, <1>2
<1>3. CASE I # {}
  <2>1. Min(I) \in I /\ \A y \in I : Min(I) <= y
    BY <1>3, FirstPosition
  <2>2. Min(I) \in 1..n /\ t[Min(I)] = 0
    BY <2>1
  <2>3. \A i \in 1..n : i < Min(I) => t[i] # 0
    BY <2>1, <2>2
  <2> QED
    BY <1>1, <1>3, <2>2, <2>3
<1> QED
  BY <1>2, <1>3

\* The place of the first NUL, and the text with everything from it on blanked.
NulAt(t) == SelectInSeq(t, IsNul)
Cut(t) == [i \in DOMAIN t |-> IF NulAt(t) # 0 /\ i >= NulAt(t) THEN 0 ELSE t[i]]

\* A cut text ends where the text does.
LEMMA BeforeNulOfCut ==
  ASSUME NEW n \in Nat, NEW t \in [1..n -> Nat]
  PROVE  BeforeNul(Cut(t)) = BeforeNul(t)
<1> DEFINE u == Cut(t)  nul == NulAt(t)  k == NulAt(u)
<1>1. \/ nul = 0 /\ \A i \in 1..n : t[i] # 0
      \/ nul \in 1..n /\ t[nul] = 0 /\ \A i \in 1..n : i < nul => t[i] # 0
  BY FirstNul DEF NulAt
<1>2. u = [i \in 1..n |-> IF nul # 0 /\ i >= nul THEN 0 ELSE t[i]]
  BY DEF Cut
<1>3. u \in [1..n -> Nat]
  BY <1>2
<1>4. \/ k = 0 /\ \A i \in 1..n : u[i] # 0
      \/ k \in 1..n /\ u[k] = 0 /\ \A i \in 1..n : i < k => u[i] # 0
  BY <1>3, FirstNul DEF NulAt
<1>5. /\ BeforeNul(t) = IF nul = 0 THEN t ELSE SubSeq(t, 1, nul - 1)
      /\ BeforeNul(u) = IF k = 0 THEN u ELSE SubSeq(u, 1, k - 1)
  BY DEF BeforeNul, NulAt
<1> HIDE DEF u, nul, k
<1>6. CASE nul = 0
  <2>1. u = t
    BY <1>2, <1>6
  <2>2. BeforeNul(u) = BeforeNul(t)
    BY <2>1
  <2> QED
    BY <2>2 DEF u
<1>7. CASE nul \in 1..n
  <2>1. u[nul] = 0 /\ \A i \in 1..n : i < nul => u[i] = t[i] /\ u[i] # 0
    BY <1>1, <1>2, <1>7
  <2>2. k = nul
    BY <1>4, <1>7, <2>1
  <2>3. SubSeq(u, 1, nul - 1) = SubSeq(t, 1, nul - 1)
    <3>1. \A i \in 1..(nul - 1) : u[i] = t[i]
      BY <1>7, <2>1
    <3> QED
      BY <1>3, <1>7, <3>1
  <2>4. nul # 0 /\ k # 0
    BY <1>7, <2>2
  <2>5. BeforeNul(t) = SubSeq(t, 1, nul - 1) /\ BeforeNul(u) = SubSeq(u, 1, nul - 1)
    BY <1>5, <2>2, <2>4
  <2> QED
    BY <2>3, <2>5 DEF u
<1> QED
  BY <1>1, <1>6, <1>7

\* The slot is a text of 24 bytes.
LEMMA SlotIsText ==
  ASSUME NEW r \in Frames
  PROVE  Slot(r) \in [1..24 -> Nat]
<1>1. Slot(r) = [i \in 1..24 |-> r[40 + i - 1]]
  BY DEF Slot, At, ReportSize
<1>2. \A i \in 1..24 : 40 + i - 1 \in Nat /\ 40 + i - 1 < ReportSize
  BY DEF ReportSize
<1>3. \A i \in 1..24 : r[40 + i - 1] \in Nat
  BY <1>2, FrameBytes
<1> QED
  BY <1>1, <1>3

\* What follows the first NUL of the slot cannot change the text.
LEMMA StatusOfCut ==
  ASSUME NEW r \in Frames
  PROVE  ExtractStatus(Cut(Slot(r))) = ExtractStatus(Slot(r))
<1>1. Slot(r) \in [1..24 -> Nat]
  BY SlotIsText
<1>2. BeforeNul(Cut(Slot(r))) = BeforeNul(Slot(r))
  BY <1>1, BeforeNulOfCut
<1> QED
  BY <1>2 DEF ExtractStatus

-----------------------------------------------------------------------------
(* The bytes that are kept, and reading them back.                          *)

\* What holds before the first byte, and after a byte when it held before it,
\* holds after every byte.
LEMMA ByteByByte ==
  ASSUME NEW n \in Nat, NEW S, 0 \in S, \A i \in 1..n : i - 1 \in S => i \in S
  PROVE  \A i \in 0..n : i \in S
<1> DEFINE T == {i \in 0..n : i \notin S}
<1> SUFFICES ASSUME T # {} PROVE FALSE
  OBVIOUS
<1>1. Min(T) \in T /\ \A y \in T : Min(T) <= y
  BY FirstPosition
<1>2. PICK m \in T : \A y \in T : m <= y
  BY <1>1
<1>3. m \in 1..n /\ m - 1 \in 0..n /\ ~(m <= m - 1)
  BY <1>2
<1>4. m - 1 \in S
  BY <1>2, <1>3
<1> QED
  BY <1>2, <1>3, <1>4

Kept(t, n, f) ==
  [i \in 0..n |-> IF i = 0 THEN <<>>
                  ELSE IF IsPrintable(t[i]) THEN Append(f[i - 1], t[i])
                  ELSE f[i - 1]]

\* The loop's prefixes exist.
LEMMA KeptExists ==
  ASSUME NEW n \in Nat, NEW t
  PROVE  \E f : f = Kept(t, n, f)
<1> DEFINE S == {m \in 0..n : \E f : f = Kept(t, m, f)}
<1>1. 0 \in S
  <2>1. [i \in 0..0 |-> <<>>] = Kept(t, 0, [i \in 0..0 |-> <<>>])
    BY DEF Kept
  <2> QED
    BY <2>1
<1>2. ASSUME NEW m \in 1..n, m - 1 \in S PROVE m \in S
  <2>1. PICK f : f = Kept(t, m - 1, f)
    BY <1>2
  <2> DEFINE last == IF IsPrintable(t[m]) THEN Append(f[m - 1], t[m]) ELSE f[m - 1]
             g == [i \in 0..m |-> IF i = m THEN last ELSE f[i]]
  <2>2. \A i \in 0..(m - 1) : f[i] = IF i = 0 THEN <<>>
                                     ELSE IF IsPrintable(t[i]) THEN Append(f[i - 1], t[i])
                                     ELSE f[i - 1]
    BY <2>1 DEF Kept
  <2>3. \A i \in 0..m : i # m => i \in 0..(m - 1)
    OBVIOUS
  <2>4. \A i \in 1..m : i - 1 \in 0..m /\ i - 1 # m /\ g[i - 1] = f[i - 1]
    OBVIOUS
  <2>5. ASSUME NEW i \in 0..m
        PROVE  g[i] = IF i = 0 THEN <<>>
                      ELSE IF IsPrintable(t[i]) THEN Append(g[i - 1], t[i])
                      ELSE g[i - 1]
    <3>1. CASE i = m
      <4>1. g[i] = last /\ i # 0 /\ i \in 1..m
        BY <3>1
      <4>2. g[i - 1] = f[m - 1]
        BY <2>4, <3>1, <4>1
      <4> QED
        BY <3>1, <4>1, <4>2
    <3>2. CASE i # m
      <4>1. g[i] = f[i] /\ i \in 0..(m - 1)
        BY <2>3, <3>2
      <4>2. i # 0 => g[i - 1] = f[i - 1]
        BY <2>4
      <4> QED
        BY <2>2, <4>1, <4>2
    <3> QED
      BY <3>1, <3>2
  <2> HIDE DEF last
  <2>6. g = Kept(t, m, g)
    <3>1. DOMAIN g = 0..m
      OBVIOUS
    <3> HIDE DEF g
    <3>2. g = [i \in 0..m |-> g[i]]
      BY <3>1 DEF g
    <3> QED
      BY <2>5, <3>2 DEF Kept
  <2> QED
    BY <2>6
<1>3. \A i \in 0..n : i \in S
  <2> HIDE DEF S
  <2> QED
    BY <1>1, <1>2, ByteByByte
<1>4. n \in S
  BY <1>3
<1> QED
  BY <1>4

LEMMA KeptOf ==
  ASSUME NEW n \in Nat, NEW t \in [1..n -> Nat]
  PROVE  \E f : /\ Printable(t) = f[n] /\ f[0] = <<>>
                /\ \A i \in 1..n : f[i] = IF IsPrintable(t[i]) THEN Append(f[i - 1], t[i]) ELSE f[i - 1]
<1>0. Len(t) = n
  OBVIOUS
<1> DEFINE F == CHOOSE f : f = Kept(t, n, f)
<1>1. F = Kept(t, n, F)
  BY KeptExists
<1>2. Printable(t) = F[n]
  BY <1>0 DEF Printable, Kept
<1> HIDE DEF F
<1>3. \A i \in 0..n : F[i] = IF i = 0 THEN <<>>
                             ELSE IF IsPrintable(t[i]) THEN Append(F[i - 1], t[i])
                             ELSE F[i - 1]
  BY <1>1 DEF Kept
<1>4. F[0] = <<>> /\ \A i \in 1..n : F[i] = IF IsPrintable(t[i]) THEN Append(F[i - 1], t[i]) ELSE F[i - 1]
  <2>1. 0 \in 0..n /\ \A i \in 1..n : i \in 0..n /\ i # 0
    OBVIOUS
  <2> QED
    BY <1>3, <2>1
<1> QED
  BY <1>2, <1>4

Characters == 32..126

\* What is kept can be printed, and is no longer than the text.
LEMMA KeptPrintable ==
  ASSUME NEW n \in Nat, NEW t \in [1..n -> Nat]
  PROVE  Printable(t) \in Seq(Characters) /\ Len(Printable(t)) <= n
<1>1. PICK f : /\ Printable(t) = f[n] /\ f[0] = <<>>
               /\ \A i \in 1..n : f[i] = IF IsPrintable(t[i]) THEN Append(f[i - 1], t[i]) ELSE f[i - 1]
  BY KeptOf
<1> DEFINE S == {i \in 0..n : f[i] \in Seq(Characters) /\ Len(f[i]) <= i}
<1>2. 0 \in S
  <2>1. <<>> \in Seq(Characters) /\ Len(<<>>) <= 0 /\ 0 \in 0..n
    OBVIOUS
  <2> QED
    BY <1>1, <2>1
<1>3. ASSUME NEW i \in 1..n, i - 1 \in S PROVE i \in S
  <2>1. f[i - 1] \in Seq(Characters) /\ Len(f[i - 1]) <= i - 1 /\ Len(f[i - 1]) \in Nat
    BY <1>3
  <2>2. CASE IsPrintable(t[i])
    <3>1. t[i] \in Characters /\ f[i] = Append(f[i - 1], t[i])
      BY <1>1, <2>2 DEF IsPrintable, Characters
    <3>2. f[i] \in Seq(Characters) /\ Len(f[i]) = Len(f[i - 1]) + 1
      BY <2>1, <3>1
    <3> QED
      BY <2>1, <3>2
  <2>3. CASE ~IsPrintable(t[i])
    BY <1>1, <2>1, <2>3
  <2> QED
    BY <2>2, <2>3
<1>4. n \in S
  <2>1. \A i \in 0..n : i \in S
    <3> HIDE DEF S
    <3> QED
      BY <1>2, <1>3, ByteByByte
  <2> QED
    BY <2>1
<1> QED
  BY <1>1, <1>4

\* A text that can be printed is kept whole.
LEMMA PrintableKept ==
  ASSUME NEW x \in Seq(Characters)
  PROVE  Printable(x) = x
<1> DEFINE n == Len(x)
<1>0. n \in Nat /\ x \in [1..n -> Nat] /\ \A i \in 1..n : x[i] \in Characters /\ IsPrintable(x[i])
  <2>1. n \in Nat /\ x \in [1..n -> Characters]
    OBVIOUS
  <2>2. \A c \in Characters : c \in Nat /\ IsPrintable(c)
    BY DEF Characters, IsPrintable
  <2> QED
    BY <2>1, <2>2
<1>1. PICK f : /\ Printable(x) = f[n] /\ f[0] = <<>>
               /\ \A i \in 1..n : f[i] = IF IsPrintable(x[i]) THEN Append(f[i - 1], x[i]) ELSE f[i - 1]
  BY <1>0, KeptOf
<1> DEFINE S == {i \in 0..n : f[i] = SubSeq(x, 1, i)}
<1>2. 0 \in S
  <2>1. SubSeq(x, 1, 0) = <<>>
    OBVIOUS
  <2>2. 0 \in 0..n /\ f[0] = SubSeq(x, 1, 0)
    BY <1>0, <1>1, <2>1
  <2> QED
    BY <2>2
<1>3. ASSUME NEW i \in 1..n, i - 1 \in S PROVE i \in S
  <2>1. f[i] = Append(SubSeq(x, 1, i - 1), x[i])
    BY <1>0, <1>1, <1>3
  <2>2. Append(SubSeq(x, 1, i - 1), x[i]) = SubSeq(x, 1, i)
    BY <1>0
  <2>3. f[i] = SubSeq(x, 1, i) /\ i \in 0..n
    BY <1>0, <2>1, <2>2
  <2> HIDE DEF n
  <2> QED
    BY <2>3
<1>4. f[n] = SubSeq(x, 1, n)
  <2>1. \A i \in 0..n : i \in S
    <3> HIDE DEF S
    <3> QED
      BY <1>0, <1>2, <1>3, ByteByByte
  <2>2. n \in 0..n
    BY <1>0
  <2> QED
    BY <2>1, <2>2
<1>5. SubSeq(x, 1, n) = x
  BY <1>0
<1> QED
  BY <1>1, <1>4, <1>5

\* A set of positions up to n that is not empty has a last one.
LEMMA LastPosition ==
  ASSUME NEW n \in Nat, NEW S, S \subseteq 0..n, S # {}
  PROVE  Max(S) \in S /\ \A y \in S : Max(S) >= y
<1> DEFINE T == {k \in 0..n : n - k \in S}
<1>1. PICK x \in S : TRUE
  OBVIOUS
<1>2. n - x \in T
  <2>1. x \in 0..n /\ n - x \in 0..n /\ n - (n - x) = x
    BY <1>1
  <2> QED
    BY <1>1, <2>1
<1>3. PICK k \in T : \A y \in T : k <= y
  <2>1. \A y \in 0..n : y \in Nat
    OBVIOUS
  <2>2. T \subseteq Nat
    BY <2>1
  <2>3. T # {}
    BY <1>2
  <2> HIDE DEF T
  <2> QED
    BY <2>2, <2>3, FirstPosition
<1>4. ASSUME NEW y \in S PROVE n - k >= y
  <2>1. y \in 0..n /\ n - y \in 0..n /\ n - (n - y) = y /\ k \in 0..n
    BY <1>3
  <2>2. n - y \in T
    BY <2>1
  <2>3. k <= n - y
    BY <1>3, <2>2
  <2> QED
    BY <2>1, <2>3
<1>5. \E m \in S : \A y \in S : m >= y
  BY <1>3, <1>4
<1> QED
  BY <1>5 DEF Max

\* A text without its trailing spaces.
LEMMA Trimmed ==
  ASSUME NEW x \in Seq(Characters)
  PROVE  LET y == TrimRight(x)
         IN  /\ y \in Seq(Characters) /\ Len(y) <= Len(x)
             /\ y = <<>> \/ NotSpace(y[Len(y)])
<1> DEFINE n == Len(x)  I == {i \in 1..n : NotSpace(x[i])}  last == SelectLastInSeq(x, NotSpace)
<1>1. last = IF I # {} THEN Max(I) ELSE 0
  BY DEF SelectLastInSeq
<1>2. n \in Nat /\ x \in Seq(Characters)
  OBVIOUS
<1>3. \/ last = 0
      \/ last \in 1..n /\ NotSpace(x[last])
  <2>1. CASE I # {}
    <3>1. I \subseteq 0..n
      BY <1>2
    <3>2. Max(I) \in I
      BY <1>2, <2>1, <3>1, LastPosition
    <3> QED
      BY <1>1, <2>1, <3>2
  <2> QED
    BY <1>1, <2>1
<1>4. TrimRight(x) = SubSeq(x, 1, last)
  BY DEF TrimRight
<1> HIDE DEF last
<1>5. CASE last = 0
  <2>1. SubSeq(x, 1, 0) = <<>> /\ Len(<<>>) = 0 /\ <<>> \in Seq(Characters)
    OBVIOUS
  <2> QED
    BY <1>2, <1>4, <1>5, <2>1
<1>6. CASE last \in 1..n /\ NotSpace(x[last])
  <2>1. /\ SubSeq(x, 1, last) \in Seq(Characters) /\ Len(SubSeq(x, 1, last)) = last
        /\ SubSeq(x, 1, last)[last] = x[last]
    BY <1>2, <1>6
  <2> QED
    BY <1>2, <1>4, <1>6, <2>1
<1> QED
  BY <1>3, <1>5, <1>6

\* There is nothing to trim from it.
LEMMA TrimmedStays ==
  ASSUME NEW y \in Seq(Characters), y = <<>> \/ NotSpace(y[Len(y)])
  PROVE  TrimRight(y) = y
<1> DEFINE n == Len(y)  I == {i \in 1..n : NotSpace(y[i])}  last == SelectLastInSeq(y, NotSpace)
<1>1. last = IF I # {} THEN Max(I) ELSE 0
  BY DEF SelectLastInSeq
<1>2. n \in Nat /\ (y = <<>> => n = 0) /\ (y # <<>> => n \in 1..n)
  OBVIOUS
<1>3. last = n
  <2>1. CASE y = <<>>
    <3>1. n = 0 /\ I = {}
      BY <1>2, <2>1
    <3> QED
      BY <1>1, <3>1
  <2>2. CASE y # <<>>
    <3>1. n \in I /\ I \subseteq 0..n /\ I # {}
      BY <1>2, <2>2
    <3>2. Max(I) \in I /\ \A i \in I : Max(I) >= i
      BY <1>2, <3>1, LastPosition
    <3>3. Max(I) >= n /\ Max(I) \in 1..n
      BY <3>1, <3>2
    <3>4. \A m \in 1..n : m >= n => m = n
      BY <1>2
    <3> QED
      BY <1>1, <3>1, <3>3, <3>4
  <2> QED
    BY <2>1, <2>2
<1>4. TrimRight(y) = SubSeq(y, 1, last)
  BY DEF TrimRight
<1>5. SubSeq(y, 1, n) = y
  OBVIOUS
<1> QED
  BY <1>3, <1>4, <1>5

\* A text of n bytes, the rest of which is blank.
Padded(x, n) == [i \in 1..n |-> IF i <= Len(x) THEN x[i] ELSE 0]

LEMMA BeforeNulOfPadded ==
  ASSUME NEW n \in Nat, NEW x \in Seq(Characters), Len(x) <= n
  PROVE  BeforeNul(Padded(x, n)) = x
<1> DEFINE m == Len(x)  u == Padded(x, n)  k == NulAt(u)
<1>0. m \in Nat /\ m <= n /\ \A i \in 1..m : x[i] \in Nat /\ x[i] # 0
  <2>1. \A i \in 1..m : x[i] \in Characters
    OBVIOUS
  <2>2. \A c \in Characters : c \in Nat /\ c # 0
    BY DEF Characters
  <2> QED
    BY <2>1, <2>2
<1>1. u \in [1..n -> Nat] /\ \A i \in 1..n : u[i] = IF i <= m THEN x[i] ELSE 0
  BY <1>0 DEF Padded
<1>2. \/ k = 0 /\ \A i \in 1..n : u[i] # 0
      \/ k \in 1..n /\ u[k] = 0 /\ \A i \in 1..n : i < k => u[i] # 0
  BY <1>1, FirstNul DEF NulAt
<1>3. BeforeNul(u) = IF k = 0 THEN u ELSE SubSeq(u, 1, k - 1)
  BY DEF BeforeNul, NulAt
<1> HIDE DEF u, k
<1>4. \A i \in 1..n : i <= m => i \in 1..m /\ u[i] = x[i]
  BY <1>0, <1>1
<1>5. x = [i \in 1..m |-> x[i]]
  OBVIOUS
<1>6. CASE k = 0
  <2>1. m = n
    <3> SUFFICES ASSUME m < n PROVE FALSE
      BY <1>0
    <3>1. m + 1 \in 1..n /\ ~(m + 1 <= m)
      BY <1>0
    <3> QED
      BY <1>1, <1>2, <1>6, <3>1
  <2>2. u = [i \in 1..n |-> u[i]]
    BY <1>1
  <2>3. \A i \in 1..n : u[i] = x[i]
    BY <1>4, <2>1
  <2>4. u = x
    BY <1>5, <2>1, <2>2, <2>3
  <2> QED
    BY <1>3, <1>6, <2>4 DEF u
<1>7. CASE k \in 1..n
  <2>1. ~(k <= m) /\ k # 0
    BY <1>0, <1>2, <1>4, <1>7
  <2>2. ~(m + 1 < k)
    <3> SUFFICES ASSUME m + 1 < k PROVE FALSE
      OBVIOUS
    <3>1. m + 1 \in 1..n /\ ~(m + 1 <= m)
      BY <1>0, <1>7
    <3> QED
      BY <1>1, <1>2, <1>7, <3>1
  <2>3. k - 1 = m
    BY <1>0, <1>7, <2>1, <2>2
  <2>4. SubSeq(u, 1, m) = [i \in 1..m |-> u[i]]
    BY <1>0, <1>1
  <2>5. \A i \in 1..m : u[i] = x[i]
    BY <1>0, <1>4
  <2>6. SubSeq(u, 1, m) = x
    BY <1>5, <2>4, <2>5
  <2> QED
    BY <1>3, <2>1, <2>3, <2>6 DEF u
<1> QED
  BY <1>2, <1>6, <1>7

\* A text read back from a frame is the text.
LEMMA ReadBack ==
  ASSUME NEW n \in Nat, NEW t \in [1..n -> Nat]
  PROVE  Len(ExtractStatus(t)) <= n /\ ExtractStatus(Padded(ExtractStatus(t), n)) = ExtractStatus(t)
<1> DEFINE x == ExtractStatus(t)  y == TrimRight(Printable(BeforeNul(t)))
<1>1. PICK m \in Nat : m <= n /\ BeforeNul(t) \in [1..m -> Nat]
  <2>1. NulAt(t) = 0 \/ NulAt(t) \in 1..n
    BY FirstNul DEF NulAt
  <2>2. BeforeNul(t) = IF NulAt(t) = 0 THEN t ELSE SubSeq(t, 1, NulAt(t) - 1)
    BY DEF BeforeNul, NulAt
  <2>3. CASE NulAt(t) = 0
    BY <2>2, <2>3
  <2>4. CASE NulAt(t) \in 1..n
    <3> DEFINE k == NulAt(t) - 1
    <3>1. k \in Nat /\ k <= n /\ NulAt(t) # 0
      BY <2>4
    <3> HIDE DEF k
    <3>2. SubSeq(t, 1, k) = [i \in 1..k |-> t[i]] /\ \A i \in 1..k : t[i] \in Nat
      BY <3>1
    <3>3. SubSeq(t, 1, k) \in [1..k -> Nat]
      BY <3>2
    <3> QED
      BY <2>2, <3>1, <3>3 DEF k
  <2> QED
    BY <2>1, <2>3, <2>4
<1>2. Printable(BeforeNul(t)) \in Seq(Characters) /\ Len(Printable(BeforeNul(t))) <= m
  BY <1>1, KeptPrintable
<1>3. y \in Seq(Characters) /\ Len(y) <= Len(Printable(BeforeNul(t))) /\ (y = <<>> \/ NotSpace(y[Len(y)]))
  BY <1>2, Trimmed
<1>4. Len(y) <= n
  <2>1. Len(y) \in Nat /\ Len(Printable(BeforeNul(t))) \in Nat
    BY <1>2, <1>3
  <2> QED
    BY <1>1, <1>2, <1>3, <2>1
<1>5. x = IF LooksLikePhrase(y) THEN y ELSE <<>>
  BY DEF ExtractStatus
<1> HIDE DEF x, y
<1>6. <<>> \in Seq(Characters) /\ Len(<<>>) = 0 /\ ~LooksLikePhrase(<<>>)
  <2>1. <<>> \in Seq(Characters) /\ Len(<<>>) = 0
    OBVIOUS
  <2> QED
    BY <2>1 DEF LooksLikePhrase
<1>7. x \in Seq(Characters) /\ Len(x) <= n /\ (x = <<>> \/ NotSpace(x[Len(x)]))
  BY <1>3, <1>4, <1>5, <1>6
<1>8. BeforeNul(Padded(x, n)) = x /\ Printable(x) = x /\ TrimRight(x) = x
  BY <1>7, BeforeNulOfPadded, PrintableKept, TrimmedStays
<1>9. ExtractStatus(Padded(x, n)) = IF LooksLikePhrase(x) THEN x ELSE <<>>
  BY <1>8 DEF ExtractStatus
<1>10. ExtractStatus(Padded(x, n)) = x
  BY <1>5, <1>6, <1>9
<1> QED
  BY <1>7, <1>10 DEF x

\* A decoded text does not depend on what follows the NUL, and is what would be
\* decoded from a frame that carries it.
LEMMA SnapshotStatus ==
  ASSUME NEW r \in Frames
  PROVE  LET text == ExtractStatus(Slot(r))
         IN  /\ text = ExtractStatus(Cut(Slot(r)))
             /\ text = ExtractStatus([i \in DOMAIN Slot(r) |-> IF i <= Len(text) THEN text[i] ELSE 0])
<1> DEFINE text == ExtractStatus(Slot(r))
<1>1. Slot(r) \in [1..24 -> Nat] /\ DOMAIN Slot(r) = 1..24
  BY SlotIsText
<1>2. text = ExtractStatus(Padded(text, 24))
  BY <1>1, ReadBack
<1>3. Padded(text, 24) = [i \in DOMAIN Slot(r) |-> IF i <= Len(text) THEN text[i] ELSE 0]
  BY <1>1 DEF Padded
<1> QED
  BY <1>2, <1>3, StatusOfCut

\* What an old text left behind a NUL in the slot is never published with the
\* new one, and the text published is what a frame that carries it would give
\* back: trimming, the printable filter and the phrase test undo nothing of
\* each other (decode.go, extractStatusMessage).
THEOREM StatusIsStable == Spec => []StatusStable
<1>1. Init => StatusStable
  BY DEF Init, StatusStable, NoSnap
<1>2. StatusStable /\ [Next]_vars => StatusStable'
  <2> SUFFICES ASSUME StatusStable, [Next]_vars
               PROVE  StatusStable'
    OBVIOUS
  <2>1. CASE Next
    <3>1. PICK r \in Reports : Handle(r)
      BY <2>1 DEF Next
    <3>2. report' = r
      BY <3>1 DEF Handle
    <3>3. CASE snap' = NoSnap
      BY <3>3 DEF StatusStable, NoSnap
    <3>4. CASE r \in Frames /\ snap' = Snapshot(r)
      <4>1. snap'.status = ExtractStatus(Slot(r))
        BY <3>4 DEF Snapshot
      <4>2. /\ snap'.status = ExtractStatus(Cut(Slot(r)))
            /\ snap'.status = ExtractStatus([i \in DOMAIN Slot(r) |->
                                 IF i <= Len(snap'.status) THEN snap'.status[i] ELSE 0])
        BY <3>4, <4>1, SnapshotStatus
      <4> QED
        BY <3>2, <4>2 DEF StatusStable, Cut, NulAt
    <3> QED
      BY <3>1, <3>3, <3>4, PublishedPassedFilter
  <2>2. CASE UNCHANGED vars
    BY <2>2 DEF vars, StatusStable
  <2> QED
    BY <2>1, <2>2
<1> QED
  BY <1>1, <1>2, PTL DEF Spec
=============================================================================

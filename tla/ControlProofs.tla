--------------------------- MODULE ControlProofs ----------------------------
(* The availability gate is exact while nothing older than the channel's    *)
(* last move is in flight, for any number of clients, verbs, queue          *)
(* capacities and lost sessions.                                            *)
EXTENDS Control, TLAPS

Snaps == [auto : BOOLEAN, range : 0..1, alarm : BOOLEAN]
Carried == [verb : Verbs, blind : BOOLEAN] \cup {NoVerb}

\* TypeOK, as far as the argument needs it.
Types ==
  /\ meter \in Snaps
  /\ pending \in [Clients -> Carried]
  /\ commands \in Seq(Carried)
  /\ snapIn \in Seq(Snaps)
  /\ latestSnap \in Snaps \cup {None}

\* What was judged on a snapshot, the meter acts on.
Acceptable(v) == v.verb \in PerChannel /\ ~v.blind => ~meter.auto

\* Nothing in flight contradicts the channel mode of the meter.
Coherent ==
  /\ latestSnap # None => latestSnap.auto = meter.auto
  /\ \A i \in 1..Len(snapIn) : snapIn[i].auto = meter.auto
  /\ \A c \in Clients : Acceptable(pending[c])
  /\ \A i \in 1..Len(commands) : Acceptable(commands[i])

FateExact ==
  /\ fate.fate = "refused" => meter.auto
  /\ fate.fate = "ignored" => fate.verb.blind

\* The inductive invariant: what is in flight is the gate's only memory.
GateInv == Types /\ (~moved => Coherent /\ FateExact)

LEMMA SnapIsSome == \A s \in Snaps : s # None
<1>1. \A s \in Snaps : DOMAIN s = {"auto", "range", "alarm"}
  BY DEF Snaps
<1>2. DOMAIN None = {"none"}
  BY DEF None
<1> QED
  BY <1>1, <1>2

LEMMA JudgedIsCarried ==
  ASSUME NEW v \in Verbs, NEW s
  PROVE  Judged(v, s) \in Carried
BY DEF Judged, Carried

LEMMA InitGate == Init => GateInv
<1> SUFFICES ASSUME Init PROVE GateInv
  OBVIOUS
<1>1. meter \in Snaps
  <2>1. {0} \subseteq 0..1 /\ {TRUE} \subseteq BOOLEAN
    OBVIOUS
  <2> QED
    BY <2>1, Zenon DEF Init, Snaps
<1>2. NoVerb \in Carried /\ NoVerb.verb = "none"
  BY DEF Carried, NoVerb
<1>3. Types
  BY <1>1, <1>2 DEF Init, Types
<1>4. Coherent
  BY <1>2 DEF Init, Coherent, Acceptable, PerChannel
<1>5. FateExact
  BY DEF Init, FateExact, NoFate
<1> QED
  BY <1>3, <1>4, <1>5 DEF GateInv

\* A step that leaves the flag down leaves the channel mode alone, and finds
\* everything in flight coherent with it.
LEMMA FlagDown ==
  ASSUME GateInv, Remember, ~moved'
  PROVE  meter'.auto = meter.auto /\ Coherent
<1>1. meter'.auto = meter.auto /\ (~moved \/ Settled)
  BY DEF Remember
<1>2. Settled => Coherent
  BY DEF Settled, Coherent, Acceptable, NoVerb, PerChannel
<1> QED
  BY <1>1, <1>2 DEF GateInv

LEMMA EffectsOK ==
  ASSUME NEW m \in Snaps, NEW v
  PROVE  Effects(m, v) \subseteq Snaps
<1>1. /\ \A a \in BOOLEAN : [m EXCEPT !.auto = a] \in Snaps
      /\ [m EXCEPT !.range = 1 - @] \in Snaps /\ [m EXCEPT !.alarm = ~@] \in Snaps
  <2>1. 1 - m.range \in 0..1 /\ (~m.alarm) \in BOOLEAN
    BY DEF Snaps
  <2> QED
    BY <2>1 DEF Snaps
<1>2. \/ Effects(m, v) = {[m EXCEPT !.auto = a] : a \in BOOLEAN}
      \/ Effects(m, v) = {[m EXCEPT !.range = 1 - @]}
      \/ Effects(m, v) = {[m EXCEPT !.alarm = ~@]}
      \/ Effects(m, v) = {m}
  BY DEF Effects
<1> QED
  BY <1>1, <1>2

LEMMA GateKeeps ==
  ASSUME GateInv, NEW c \in Clients, NEW v \in Verbs, Gate(c, v)
  PROVE  GateInv'
<1>1. Types'
  BY JudgedIsCarried DEF Gate, GateInv, Types
<1>2. ASSUME ~moved' PROVE Coherent' /\ FateExact'
  <2>1. Coherent /\ Remember
    BY <1>2, FlagDown DEF Gate
  <2>2. UNCHANGED <<meter, commands, snapIn, latestSnap>>
    BY DEF Gate
  <2>3. CASE Gated(v, latestSnap)
    <3>1. fate' = Fate(Judged(v, latestSnap), "refused") /\ pending' = pending
      BY <2>3 DEF Gate
    <3>2. meter.auto
      BY <2>1, <2>3 DEF Coherent, Gated
    <3> QED
      BY <2>1, <2>2, <3>1, <3>2 DEF Coherent, Acceptable, FateExact, Fate
  <2>4. CASE ~Gated(v, latestSnap)
    <3>1. fate' = NoFate /\ pending' = [pending EXCEPT ![c] = Judged(v, latestSnap)]
      BY <2>4 DEF Gate
    <3>2. Acceptable(Judged(v, latestSnap))
      BY <2>1, <2>4 DEF Acceptable, Judged, Gated, Coherent
    <3>3. \A d \in Clients : Acceptable(pending'[d])
      BY <2>1, <3>1, <3>2 DEF Coherent, GateInv, Types
    <3> QED
      BY <2>1, <2>2, <3>1, <3>3 DEF Coherent, Acceptable, FateExact, NoFate
  <2> QED
    BY <2>3, <2>4
<1> QED
  BY <1>1, <1>2 DEF GateInv

LEMMA SubmitKeeps ==
  ASSUME GateInv, NEW c \in Clients, Submit(c)
  PROVE  GateInv'
<1>1. pending[c] \in Carried /\ NoVerb \in Carried /\ commands \in Seq(Carried)
  BY DEF GateInv, Types, Carried
<1>2. /\ pending' = [pending EXCEPT ![c] = NoVerb]
      /\ UNCHANGED <<meter, snapIn, latestSnap>>
      /\ commands' = commands \/ commands' = Append(commands, pending[c])
      /\ Remember
  BY DEF Submit
<1>3. fate'.fate \in {"acked", "queue full"}
  <2>1. fate' = Fate(pending[c], "acked") \/ fate' = Fate(pending[c], "queue full")
    BY DEF Submit
  <2>2. \A v, f : Fate(v, f).fate = f
    BY DEF Fate
  <2> QED
    BY <2>1, <2>2
<1>4. commands' \in Seq(Carried)
  BY <1>1, <1>2
<1>5. Types'
  BY <1>1, <1>2, <1>4 DEF GateInv, Types
<1>6. ASSUME ~moved' PROVE Coherent' /\ FateExact'
  <2>1. Coherent
    BY <1>2, <1>6, FlagDown
  <2>2. \A d \in Clients : Acceptable(pending'[d])
    BY <1>2, <2>1 DEF Coherent, Acceptable, NoVerb, PerChannel, GateInv, Types
  <2>3. \A i \in 1..Len(commands') : Acceptable(commands'[i])
    <3>1. \A i \in 1..Len(commands) : Acceptable(commands[i])
      BY <2>1 DEF Coherent
    <3>2. Acceptable(pending[c])
      BY <2>1 DEF Coherent
    <3>3. meter' = meter
      BY <1>2
    <3>4. \A i \in 1..Len(commands') :
            commands'[i] = pending[c] \/ (i \in 1..Len(commands) /\ commands'[i] = commands[i])
      BY <1>1, <1>2
    <3> QED
      BY <3>1, <3>2, <3>4
  <2> QED
    BY <1>2, <1>3, <2>1, <2>2, <2>3 DEF Coherent, Acceptable, FateExact
<1> QED
  BY <1>5, <1>6 DEF GateInv

LEMMA DrainKeeps ==
  ASSUME GateInv, DrainCommand
  PROVE  GateInv'
<1>1. /\ commands \in Seq(Carried) /\ commands # <<>> /\ commands' = Tail(commands)
      /\ UNCHANGED <<pending, snapIn, latestSnap>> /\ Remember
      /\ fate' = Fate(Head(commands), IF Ignored(meter, Head(commands).verb) THEN "ignored" ELSE "acted")
  BY DEF DrainCommand, GateInv, Types
<1>2. meter' \in Snaps
  BY EffectsOK DEF DrainCommand, GateInv, Types
<1>3. Types'
  BY <1>1, <1>2 DEF GateInv, Types
<1>4. ASSUME ~moved' PROVE Coherent' /\ FateExact'
  <2>1. Coherent /\ meter'.auto = meter.auto
    BY <1>1, <1>4, FlagDown
  <2>2. Head(commands) = commands[1] /\ 1 \in 1..Len(commands)
    BY <1>1
  <2>3. FateExact'
    BY <1>1, <2>1, <2>2 DEF Coherent, Acceptable, FateExact, Fate, Ignored
  <2>4. \A i \in 1..Len(commands') : i + 1 \in 1..Len(commands) /\ commands'[i] = commands[i + 1]
    BY <1>1
  <2> QED
    BY <1>1, <2>1, <2>3, <2>4 DEF Coherent, Acceptable
<1> QED
  BY <1>3, <1>4 DEF GateInv

LEMMA SnapshotsKeep ==
  ASSUME GateInv, Poll \/ HubTakes
  PROVE  GateInv'
<1>1. /\ snapIn \in Seq(Snaps) /\ meter \in Snaps
      /\ UNCHANGED <<meter, pending, commands>> /\ Remember /\ fate' = NoFate
  BY DEF Poll, HubTakes, GateInv, Types
<1>2. CASE Poll
  <2>1. snapIn' \in {snapIn, Append(snapIn, meter)} /\ latestSnap' = latestSnap
    BY <1>2 DEF Poll, Publish
  <2>2. Types'
    BY <1>1, <2>1 DEF GateInv, Types
  <2>3. ASSUME ~moved' PROVE Coherent' /\ FateExact'
    <3>1. Coherent
      BY <1>1, <2>3, FlagDown
    <3>2. \A i \in 1..Len(snapIn') : snapIn'[i].auto = meter.auto
      BY <1>1, <2>1, <3>1 DEF Coherent
    <3> QED
      BY <1>1, <2>1, <3>1, <3>2 DEF Coherent, Acceptable, FateExact, NoFate
  <2> QED
    BY <2>2, <2>3 DEF GateInv
<1>3. CASE HubTakes
  <2>1. snapIn # <<>> /\ snapIn' = Tail(snapIn) /\ latestSnap' = Head(snapIn)
    BY <1>3 DEF HubTakes
  <2>2. Head(snapIn) = snapIn[1] /\ 1 \in 1..Len(snapIn) /\ Head(snapIn) \in Snaps
    BY <1>1, <2>1
  <2>3. Types'
    BY <1>1, <2>1, <2>2 DEF GateInv, Types
  <2>4. ASSUME ~moved' PROVE Coherent' /\ FateExact'
    <3>1. Coherent
      BY <1>1, <2>4, FlagDown
    <3>2. \A i \in 1..Len(snapIn') : i + 1 \in 1..Len(snapIn) /\ snapIn'[i] = snapIn[i + 1]
      BY <1>1, <2>1
    <3> QED
      BY <1>1, <2>1, <2>2, <3>1, <3>2 DEF Coherent, Acceptable, FateExact, NoFate
  <2> QED
    BY <2>3, <2>4 DEF GateInv
<1> QED
  BY <1>2, <1>3

LEMMA SessionsKeep ==
  ASSUME GateInv, SessionEnds \/ SessionOpens \/ Operator
  PROVE  GateInv'
<1>1. /\ commands \in Seq(Carried) /\ meter \in Snaps
      /\ UNCHANGED <<pending, snapIn, latestSnap>> /\ Remember /\ fate' = NoFate
      /\ commands' = commands \/ (commands # <<>> /\ commands' = Tail(commands))
  BY DEF SessionEnds, SessionOpens, Operator, GateInv, Types
<1>2. meter' \in Snaps
  BY <1>1 DEF SessionEnds, SessionOpens, Operator, Snaps
<1>3. commands' \in Seq(Carried)
  BY <1>1
<1>4. Types'
  BY <1>1, <1>2, <1>3 DEF GateInv, Types
<1>5. ASSUME ~moved' PROVE Coherent' /\ FateExact'
  <2>1. Coherent /\ meter'.auto = meter.auto
    BY <1>1, <1>5, FlagDown
  <2>2. \A i \in 1..Len(commands') : \E j \in 1..Len(commands) : commands'[i] = commands[j]
    BY <1>1
  <2> QED
    BY <1>1, <2>1, <2>2 DEF Coherent, Acceptable, FateExact, NoFate
<1> QED
  BY <1>4, <1>5 DEF GateInv

LEMMA StepGate == GateInv /\ [Next]_vars => GateInv'
<1> SUFFICES ASSUME GateInv, [Next]_vars PROVE GateInv'
  OBVIOUS
<1>1. CASE System
  BY <1>1, DrainKeeps, SnapshotsKeep, SessionsKeep DEF System
<1>2. CASE SessionEnds \/ Operator
  BY <1>2, SessionsKeep
<1>3. ASSUME NEW c \in Clients, Submit(c) PROVE GateInv'
  BY <1>3, SubmitKeeps
<1>4. ASSUME NEW c \in Clients, NEW v \in Verbs, Gate(c, v) PROVE GateInv'
  BY <1>4, GateKeeps
<1>5. CASE UNCHANGED vars
  BY <1>5 DEF vars, GateInv, Types, Coherent, FateExact, Acceptable
<1> QED
  BY <1>1, <1>2, <1>3, <1>4, <1>5 DEF Next

\* While the channel mode has not changed since the verbs and snapshots in
\* flight, the hub refuses only what the meter would ignore, and the meter
\* ignores only what was let through before the first snapshot (hub.go,
\* VerbAvailableInState), however old the snapshot judged on.
THEOREM GateIsExact == Spec => []GateExact
<1>1. GateInv => GateExact
  BY DEF GateInv, FateExact, GateExact
<1> QED
  BY InitGate, StepGate, <1>1, PTL DEF Spec
=============================================================================

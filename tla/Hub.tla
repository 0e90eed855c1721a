------------------------------- MODULE Hub --------------------------------
(***************************************************************************)
(* The WebSocket hub (internal/hub/hub.go): the Run goroutine that owns    *)
(* the clients map, and for every connection the two goroutines readPump   *)
(* and writePump.  They share nothing but Go channels: register,           *)
(* unregister and resync towards Run, and one send channel per client,     *)
(* which Run, readPump (acks) and nobody else writes, Run closes, and      *)
(* writePump drains.  A send on a closed channel panics in Go, also inside *)
(* a select with a default; crash records it.                              *)
(*                                                                         *)
(* The source (HID owner or simulator) is seen through its channels towards *)
(* the hub, snapIn and sampleIn, and what its Submit answers.               *)
(***************************************************************************)
EXTENDS Integers, Sequences, FiniteSets, Functions

CONSTANTS
  Clients,      \* connections, each the one *client that ServeWS allocates
  Snapshots,    \* valid snapshots the source can emit: [auto, power] records
  SampleKinds,  \* subset of {"scope", "spectrum"}; empty for the simulator
  Requests,     \* client messages: "resync", "other" (bad json or type) or a verb
  MaxClients,   \* Options.MaxClients
  AllowControl, \* Options.AllowControl
  SendBuffer,   \* capacity of every client's send channel (32)
  ChanCap,      \* capacity of register, unregister and resync (16)
  SnapCap,      \* capacity of the snapshot channel main makes (8)
  SampleCap,    \* capacity of the scope and spectrum channels (2)
  Deadband,     \* CloseEnough's deadband for power, in raw units
  MaxSeq,       \* model bound on the frame counter, not in the code
  None          \* Go's nil

ASSUME HubConstants ==
  /\ MaxClients \in Nat /\ SendBuffer \in Nat \ {0} /\ ChanCap \in Nat
  /\ SnapCap \in Nat /\ SampleCap \in Nat
  /\ Deadband \in Nat \ {0} /\ MaxSeq \in Nat /\ AllowControl \in BOOLEAN
  /\ Snapshots \subseteq [auto : BOOLEAN, power : Int] /\ None \notin Snapshots
  /\ SampleKinds \subseteq {"scope", "spectrum"}
  /\ {"off", "reading", "done"} \cap Requests = {}

VARIABLES
  snapIn, sampleIn,                   \* channels from the source
  register, unregister, resync,       \* channels into Run
  clients, lastSnap, lastFrame,       \* Run's locals (lastFrame is lastJSON)
  quiet,      \* time.Since(lastSent) >= heartbeat
  hubUp,      \* the Run goroutine has not returned
  latestSnap, seq,                    \* the two atomics of Hub
  send, closed,                       \* per client: the send channel
  conn,       \* per client: "none", "open" or "closed"
  reader,     \* readPump: "off", "reading", "done" or the verb being submitted
  writer,     \* writePump: "off", "running" or "done"
  gotSeq, view, \* what the peer received: last seq, last telemetry frame
  lagging,    \* history: the last telemetry meant for the client was dropped
  stopping,   \* ctx is cancelled
  crash       \* "no", or the send that panicked and ended the process

channelVars == <<snapIn, sampleIn>>
queueVars   == <<register, unregister, resync>>
runVars     == <<clients, lastSnap, lastFrame, quiet, hubUp, latestSnap, seq>>
sendVars    == <<send, closed, lagging>>
pumpVars    == <<conn, reader, writer, gotSeq, view>>
vars == <<channelVars, queueVars, runVars, sendVars, pumpVars, stopping, crash>>

-----------------------------------------------------------------------------
(* Data: frames, snapshots and verbs.                                       *)

Frame(t, n, s) == [type |-> t, seq |-> n, snap |-> s]
NoFrame == Frame("none", 0, None)
Ack(ok) == Frame(IF ok THEN "ack" ELSE "nack", 0, None)

FrameTypes == {"none", "telemetry", "heartbeat", "scope", "spectrum", "ack", "nack"}
Frames == [type : FrameTypes, seq : Nat, snap : Snapshots \cup {None}]

Sequenced(f) == f.type \in {"telemetry", "heartbeat", "scope", "spectrum"}
Telemetry(f) == f.type = "telemetry"

\* auto stands for the fields compared exactly, power for the six floats.
CloseEnough(s, o) ==
  /\ s.auto = o.auto
  /\ s.power - o.power < Deadband
  /\ o.power - s.power < Deadband

KnownVerbs == {"mode_step", "channel_step", "range_step", "alarm_toggle",
               "peak_toggle", "setup", "freeze"}

VerbAvailableInState(verb, snap) ==
  snap # None /\ snap.auto => verb \notin {"range_step", "alarm_toggle"}

-----------------------------------------------------------------------------
(* A non-blocking send of f to every client of C: append where there is     *)
(* room, drop where the buffer is full, panic where the channel is closed.  *)
Offer(C, f, who) ==
  IF \E c \in C : closed[c]
  THEN crash' = who /\ UNCHANGED <<send, lagging>>
  ELSE /\ send' = [c \in Clients |->
                     IF c \in C /\ Len(send[c]) < SendBuffer
                     THEN Append(send[c], f) ELSE send[c]]
       /\ lagging' = [c \in Clients |->
                        IF c \in C /\ Telemetry(f)
                        THEN Len(send[c]) >= SendBuffer ELSE lagging[c]]
       /\ UNCHANGED crash

\* close(c.send) for every client of C; closing twice panics as well.
CloseSend(C) ==
  IF \E c \in C : closed[c]
  THEN crash' = "close" /\ UNCHANGED closed
  ELSE closed' = [c \in Clients |-> closed[c] \/ c \in C] /\ UNCHANGED crash

\* Fault: the send forgets the default case's bound.
NotifyUnbounded(ch, c) == Append(ch, c)

\* select { case ch <- c: default: } on one of the channels into Run.
Notify(ch, c) == IF Len(ch) < ChanCap THEN Append(ch, c) ELSE ch

Alive == crash = "no"

Init ==
  /\ snapIn = <<>> /\ sampleIn = [k \in SampleKinds |-> 0]
  /\ register = <<>> /\ unregister = <<>> /\ resync = <<>>
  /\ clients = {} /\ lastSnap = None /\ lastFrame = NoFrame
  /\ quiet = FALSE /\ hubUp = TRUE /\ latestSnap = None /\ seq = 0
  /\ send = [c \in Clients |-> <<>>]
  /\ closed = [c \in Clients |-> FALSE]
  /\ lagging = [c \in Clients |-> FALSE]
  /\ conn = [c \in Clients |-> "none"]
  /\ reader = [c \in Clients |-> "off"]
  /\ writer = [c \in Clients |-> "off"]
  /\ gotSeq = [c \in Clients |-> 0]
  /\ view = [c \in Clients |-> NoFrame]
  /\ stopping = FALSE /\ crash = "no"

-----------------------------------------------------------------------------
(* The environment: the source's side of the channels (its sends never      *)
(* block: a full channel drops the value), time, and cancellation of ctx.   *)

SourceEmits(s) ==
  /\ Alive /\ Len(snapIn) < SnapCap
  /\ snapIn' = Append(snapIn, s)
  /\ UNCHANGED <<sampleIn, queueVars, runVars, sendVars, pumpVars, stopping, crash>>

SourceEmitsSample(k) ==
  /\ Alive /\ sampleIn[k] < SampleCap
  /\ sampleIn' = [sampleIn EXCEPT ![k] = @ + 1]
  /\ UNCHANGED <<snapIn, queueVars, runVars, sendVars, pumpVars, stopping, crash>>

HeartbeatElapses ==
  /\ Alive /\ ~quiet
  /\ quiet' = TRUE
  /\ UNCHANGED <<channelVars, queueVars, clients, lastSnap, lastFrame, hubUp,
                 latestSnap, seq, sendVars, pumpVars, stopping, crash>>

Cancel ==
  /\ Alive /\ ~stopping
  /\ stopping' = TRUE
  /\ UNCHANGED <<channelVars, queueVars, runVars, sendVars, pumpVars, crash>>

-----------------------------------------------------------------------------
(* Hub.Run: one action per case of the select.  Go picks any ready case.    *)

HubUnchanged == UNCHANGED <<channelVars, pumpVars, stopping>>

\* Fault: a new connection waits for the next broadcast.
ReplayNothing(c) == {}

\* if lastJSON != nil: whom the cached telemetry frame is sent to.
Replay(c) == IF lastFrame = NoFrame THEN {} ELSE {c}

\* Faults: the channel is closed without the membership test; a missing delete.
DepartingUnchecked(c) == {c}
DepartingNever(c) == {}

\* if _, ok := clients[c]; ok: whom unregistering c removes and closes.
Departing(c) == clients \cap {c}

AdmitClient ==
  /\ Alive /\ hubUp /\ register # <<>>
  /\ Cardinality(clients) < MaxClients
  /\ register' = Tail(register)
  /\ clients' = clients \cup {Head(register)}
  /\ Offer(Replay(Head(register)), lastFrame, "admit")
  /\ HubUnchanged
  /\ UNCHANGED <<unregister, resync, lastSnap, lastFrame, quiet, hubUp, latestSnap, seq, closed>>

RejectClient ==
  /\ Alive /\ hubUp /\ register # <<>>
  /\ Cardinality(clients) >= MaxClients
  /\ register' = Tail(register)
  /\ CloseSend({Head(register)})
  /\ HubUnchanged
  /\ UNCHANGED <<unregister, resync, runVars, send, lagging>>

HandleUnregister ==
  /\ Alive /\ hubUp /\ unregister # <<>>
  /\ unregister' = Tail(unregister)
  /\ clients' = clients \ Departing(Head(unregister))
  /\ CloseSend(Departing(Head(unregister)))
  /\ HubUnchanged
  /\ UNCHANGED <<register, resync, lastSnap, lastFrame, quiet, hubUp, latestSnap, seq, send, lagging>>

HandleResync ==
  /\ Alive /\ hubUp /\ resync # <<>>
  /\ resync' = Tail(resync)
  /\ Offer(Replay(Head(resync)), lastFrame, "resync")
  /\ HubUnchanged
  /\ UNCHANGED <<register, unregister, runVars, closed>>

\* Faults: every frame with a payload is cached; only the first telemetry is.
CachedPayload(f) == IF f.type # "heartbeat" THEN f ELSE lastFrame
CachedFirst(f) == IF lastFrame = NoFrame /\ Telemetry(f) THEN f ELSE lastFrame

\* lastJSON after f went out: a replay is always of telemetry.
Cached(f) == IF Telemetry(f) THEN f ELSE lastFrame

Broadcast(f) ==
  /\ seq' = f.seq
  /\ lastFrame' = Cached(f)
  /\ Offer(clients, f, "broadcast")

\* Fault: the comparison is with the last received snapshot.
SuppressedByNewest(s) == latestSnap # None /\ CloseEnough(latestSnap, s)

Suppressed(s) == lastSnap # None /\ CloseEnough(lastSnap, s)

\* A snapshot within the deadband of the last broadcast one only refreshes
\* the state that gates verbs.
SuppressSnapshot ==
  /\ Alive /\ hubUp /\ snapIn # <<>>
  /\ Suppressed(Head(snapIn))
  /\ snapIn' = Tail(snapIn)
  /\ latestSnap' = Head(snapIn)
  /\ UNCHANGED <<sampleIn, queueVars, clients, lastSnap, lastFrame, quiet,
                 hubUp, seq, sendVars, pumpVars, stopping, crash>>

BroadcastSnapshot ==
  /\ Alive /\ hubUp /\ snapIn # <<>> /\ seq < MaxSeq
  /\ ~Suppressed(Head(snapIn))
  /\ snapIn' = Tail(snapIn)
  /\ latestSnap' = Head(snapIn)
  /\ lastSnap' = Head(snapIn)
  /\ quiet' = FALSE
  /\ Broadcast(Frame("telemetry", seq + 1, Head(snapIn)))
  /\ UNCHANGED <<sampleIn, queueVars, clients, hubUp, closed, pumpVars, stopping>>

BroadcastSample(k) ==
  /\ Alive /\ hubUp /\ sampleIn[k] > 0 /\ seq < MaxSeq
  /\ sampleIn' = [sampleIn EXCEPT ![k] = @ - 1]
  /\ Broadcast(Frame(k, seq + 1, None))
  /\ UNCHANGED <<snapIn, queueVars, clients, lastSnap, quiet, hubUp, latestSnap,
                 closed, pumpVars, stopping>>

\* A tick that finds a recent send does nothing, which is a stuttering step.
Heartbeat ==
  /\ Alive /\ hubUp /\ quiet /\ seq < MaxSeq
  /\ quiet' = FALSE
  /\ Broadcast(Frame("heartbeat", seq + 1, None))
  /\ HubUnchanged
  /\ UNCHANGED <<queueVars, clients, lastSnap, hubUp, latestSnap, closed>>

HubStops ==
  /\ Alive /\ hubUp /\ stopping
  /\ hubUp' = FALSE
  /\ CloseSend(clients)
  /\ HubUnchanged
  /\ UNCHANGED <<queueVars, clients, lastSnap, lastFrame, quiet, latestSnap, seq, send, lagging>>

HubNext ==
  \/ AdmitClient \/ RejectClient \/ HandleUnregister \/ HandleResync
  \/ SuppressSnapshot \/ BroadcastSnapshot \/ Heartbeat \/ HubStops
  \/ \E k \in SampleKinds : BroadcastSample(k)

-----------------------------------------------------------------------------
(* The connection: ServeWS, the peer, and the two pumps.  A reader may still *)
(* find whole messages in its buffer after the connection was closed.        *)

ServeWS(c) ==
  /\ Alive /\ conn[c] = "none"
  /\ IF Len(register) < ChanCap
     THEN /\ register' = Append(register, c)
          /\ conn' = [conn EXCEPT ![c] = "open"]
          /\ reader' = [reader EXCEPT ![c] = "reading"]
          /\ writer' = [writer EXCEPT ![c] = "running"]
     ELSE conn' = [conn EXCEPT ![c] = "closed"] /\ UNCHANGED <<register, reader, writer>>
  /\ UNCHANGED <<channelVars, unregister, resync, runVars, sendVars, gotSeq, view,
                 stopping, crash>>

\* The peer goes away, stays silent for 75 s or exceeds the read limit.
Disconnect(c) ==
  /\ Alive /\ conn[c] = "open"
  /\ conn' = [conn EXCEPT ![c] = "closed"]
  /\ UNCHANGED <<channelVars, queueVars, runVars, sendVars, reader, writer, gotSeq, view,
                 stopping, crash>>

WriterRuns(c) == Alive /\ writer[c] = "running"

WriterSends(c) ==
  /\ WriterRuns(c) /\ send[c] # <<>> /\ conn[c] = "open"
  /\ LET f == Head(send[c])
     IN  /\ gotSeq' = [gotSeq EXCEPT ![c] = IF Sequenced(f) THEN f.seq ELSE @]
         /\ view' = [view EXCEPT ![c] = IF Telemetry(f) THEN f ELSE @]
  /\ send' = [send EXCEPT ![c] = Tail(@)]
  /\ UNCHANGED <<channelVars, queueVars, runVars, closed, lagging, conn, reader, writer,
                 stopping, crash>>

\* Faults: the writer unregisters its connection too; it leaves it open.
WriterUnregisters(c) ==
  /\ writer' = [writer EXCEPT ![c] = "done"]
  /\ conn' = [conn EXCEPT ![c] = "closed"]
  /\ unregister' = Notify(unregister, c)
  /\ UNCHANGED <<channelVars, register, resync, runVars, closed, lagging, reader, gotSeq,
                 view, stopping, crash>>
WriterLeavesOpen(c) ==
  /\ writer' = [writer EXCEPT ![c] = "done"]
  /\ UNCHANGED <<channelVars, queueVars, runVars, closed, lagging, conn, reader, gotSeq,
                 view, stopping, crash>>

WriterStops(c) ==
  /\ writer' = [writer EXCEPT ![c] = "done"]
  /\ conn' = [conn EXCEPT ![c] = "closed"]
  /\ UNCHANGED <<channelVars, queueVars, runVars, closed, lagging, reader, gotSeq, view,
                 stopping, crash>>

\* Writing a frame (then lost) or a ping fails, or its 10 s deadline passes.
WriterFails(c) ==
  /\ WriterRuns(c)
  /\ \/ send[c] # <<>> /\ send' = [send EXCEPT ![c] = Tail(@)]
     \/ UNCHANGED send
  /\ WriterStops(c)

\* The channel is closed and drained.
WriterHangsUp(c) ==
  /\ WriterRuns(c) /\ closed[c] /\ send[c] = <<>>
  /\ UNCHANGED send
  /\ WriterStops(c)

ReaderReads(c) == Alive /\ reader[c] = "reading"

\* Requests answered by a nack at once: bad json, an unknown type, a command
\* when control is disabled, a verb the gate refuses.
ReaderRefuses(c, m) ==
  /\ ReaderReads(c) /\ m # "resync"
  /\ \/ m = "other"
     \/ ~AllowControl
     \/ ~VerbAvailableInState(m, latestSnap)
  /\ Offer({c}, Ack(FALSE), "ack")
  /\ UNCHANGED <<channelVars, queueVars, runVars, closed, pumpVars, stopping>>

\* The gate is read here; Submit is a later step and does not look again.
ReaderPassesGate(c, m) ==
  /\ ReaderReads(c) /\ m \notin {"resync", "other"}
  /\ AllowControl /\ VerbAvailableInState(m, latestSnap)
  /\ reader' = [reader EXCEPT ![c] = m]
  /\ UNCHANGED <<channelVars, queueVars, runVars, sendVars, conn, writer, gotSeq, view,
                 stopping, crash>>

\* What source.Submit may answer: a full queue refuses a known verb too.
Submit(verb) == IF verb \in KnownVerbs THEN BOOLEAN ELSE {FALSE}

\* source.Submit and the ack of its answer.
ReaderSubmits(c) ==
  /\ Alive /\ reader[c] \notin {"off", "reading", "done"}
  /\ \E ok \in Submit(reader[c]) : Offer({c}, Ack(ok), "ack")
  /\ reader' = [reader EXCEPT ![c] = "reading"]
  /\ UNCHANGED <<channelVars, queueVars, runVars, closed, conn, writer, gotSeq, view,
                 stopping>>

\* A full resync channel loses the request, and no ack says so.
ReaderAsksResync(c) ==
  /\ ReaderReads(c)
  /\ resync' = Notify(resync, c)
  /\ UNCHANGED <<channelVars, register, unregister, runVars, sendVars, pumpVars,
                 stopping, crash>>

ReaderExits(c) ==
  /\ ReaderReads(c) /\ conn[c] = "closed"
  /\ reader' = [reader EXCEPT ![c] = "done"]
  /\ unregister' = Notify(unregister, c)
  /\ UNCHANGED <<channelVars, register, resync, runVars, sendVars, conn, writer, gotSeq,
                 view, stopping, crash>>

ReaderNext(c) ==
  \/ \E m \in Requests : ReaderRefuses(c, m) \/ ReaderPassesGate(c, m)
  \/ ReaderSubmits(c)
  \/ "resync" \in Requests /\ ReaderAsksResync(c)
  \/ ReaderExits(c)

WriterNext(c) == WriterSends(c) \/ WriterFails(c) \/ WriterHangsUp(c)

EnvNext ==
  \/ \E s \in Snapshots : SourceEmits(s)
  \/ \E k \in SampleKinds : SourceEmitsSample(k)
  \/ HeartbeatElapses \/ Cancel

Next ==
  \/ EnvNext
  \/ HubNext
  \/ \E c \in Clients : ServeWS(c) \/ Disconnect(c) \/ WriterNext(c) \/ ReaderNext(c)

Spec == Init /\ [][Next]_vars

\* A goroutine that can run does, Go's select takes every case that stays
\* ready, and a closed connection holds finitely many buffered messages.
\* Nothing is assumed of the peers, of the source or of time.
Fairness ==
  /\ WF_vars(AdmitClient) /\ WF_vars(RejectClient)
  /\ WF_vars(HandleUnregister) /\ WF_vars(HandleResync)
  /\ WF_vars(SuppressSnapshot) /\ WF_vars(BroadcastSnapshot)
  /\ WF_vars(HubStops)
  /\ \A c \in Clients : /\ WF_vars(WriterNext(c))
                        /\ WF_vars(ReaderSubmits(c))
                        /\ SF_vars(ReaderExits(c))

FairSpec == Spec /\ Fairness

-----------------------------------------------------------------------------
(* Properties.                                                              *)

\* Every variable keeps its type, and no channel exceeds its capacity.
TypeOK ==
  /\ snapIn \in Seq(Snapshots) /\ Len(snapIn) <= SnapCap
  /\ sampleIn \in [SampleKinds -> 0..SampleCap]
  /\ register \in Seq(Clients) /\ unregister \in Seq(Clients) /\ resync \in Seq(Clients)
  /\ Len(register) <= ChanCap /\ Len(unregister) <= ChanCap /\ Len(resync) <= ChanCap
  /\ clients \subseteq Clients
  /\ lastSnap \in Snapshots \cup {None} /\ latestSnap \in Snapshots \cup {None}
  /\ lastFrame \in Frames /\ quiet \in BOOLEAN /\ hubUp \in BOOLEAN /\ seq \in Nat
  /\ send \in [Clients -> Seq(Frames)]
  /\ \A c \in Clients : Len(send[c]) <= SendBuffer
  /\ closed \in [Clients -> BOOLEAN] /\ lagging \in [Clients -> BOOLEAN]
  /\ conn \in [Clients -> {"none", "open", "closed"}]
  /\ reader \in [Clients -> {"off", "reading", "done"} \cup Requests]
  /\ writer \in [Clients -> {"off", "running", "done"}]
  /\ gotSeq \in [Clients -> Nat] /\ view \in [Clients -> Frames]
  /\ stopping \in BOOLEAN
  /\ crash \in {"no", "admit", "resync", "broadcast", "close", "ack"}

\* Whatever the order in which connections register, are refused, hang up and
\* are unregistered, the Run goroutine never sends a broadcast or the first
\* frame on a closed channel and never closes a channel twice.
HubNeverSelfCrashes == crash \notin {"admit", "broadcast", "close"}

\* The inductive argument behind it: a connection is in the register channel
\* once, then in clients, then nowhere, and only in the last case may its send
\* channel be closed (while Run is alive); its reader is done before it can
\* be unregistered; a connection not yet served is nowhere.
ClientLifecycle ==
  /\ IsInjective(register)
  /\ \A c \in Range(register) : c \notin clients /\ ~closed[c]
  /\ hubUp => \A c \in clients : ~closed[c]
  /\ \A c \in Range(unregister) : reader[c] = "done"
  /\ \A c \in Clients : conn[c] = "none" =>
       c \notin Range(register) \cup clients \cup Range(unregister) /\ ~closed[c]

\* Suppression never lets what was broadcast drift away from the meter: the
\* last broadcast frame is within one deadband of the newest valid snapshot,
\* however many suppressed snapshots lie between.
BroadcastCurrent ==
  latestSnap # None => /\ Telemetry(lastFrame)
                       /\ lastFrame.snap # None
                       /\ CloseEnough(lastFrame.snap, latestSnap)

\* The newest telemetry a client has received or will once its queue drains.
Newest(c) ==
  LET queued == {i \in 1..Len(send[c]) : Telemetry(send[c][i])}
  IN  IF queued = {} THEN view[c]
      ELSE send[c][CHOOSE i \in queued : \A j \in queued : j <= i]

\* A connected client, also one admitted between two broadcasts, has the last
\* broadcast frame on its screen or in its queue, unless its buffer was full
\* when telemetry was last sent to it.
InSync ==
  \A c \in clients :
    writer[c] = "running" /\ lastFrame # NoFrame /\ ~lagging[c] => Newest(c) = lastFrame

\* What a display makes of a connection: the telemetry it shows last, and
\* whether it is still being served.
Display == INSTANCE Feed WITH
  Viewers <- Clients,
  current <- lastFrame.seq,
  shown   <- [c \in Clients |-> view[c].seq],
  phase   <- [c \in Clients |-> CASE conn[c] = "none" -> "away"
                                 [] conn[c] = "open" -> "watching"
                                 [] OTHER            -> "gone"]

\* The hub implements the abstract feed: a display never goes back to older
\* telemetry and never shows what was not published, although broadcasts,
\* first frames and resync replies are sent from different cases of Run, and
\* a connection that is gone neither shows anything more nor comes back.
ImplementsFeed == Display!FeedSpec

\* The sequence number a peer sees goes back only in a telemetry frame sent
\* again (to a resync, or to a connection just admitted), never in live
\* traffic, and that frame is not older than the telemetry it already shows.
RegressionIsReplay ==
  [][\A c \in Clients : gotSeq'[c] < gotSeq[c]
       => Telemetry(Head(send[c])) /\ Head(send[c]).seq >= view[c].seq]_vars

\* While Run is alive, a send channel is closed under a reader that may still
\* ack on it only by a refusal: unregistering waits for the reader to be done.
OnlyRefusalClosesUnderReader ==
  [][\A c \in Clients :
       hubUp' /\ closed'[c] /\ ~closed[c] /\ reader[c] # "done"
         => register # <<>> /\ Head(register) = c /\ Cardinality(clients) >= MaxClients]_vars

\* Nothing is served any more: Run has returned or the process has panicked.
Down == ~hubUp \/ ~Alive

\* A client whose reader could queue its departure leaves the clients map.
UnregisterServed ==
  \A c \in Clients : c \in Range(unregister) /\ c \in clients ~> c \notin clients \/ Down

\* A closed send channel ends in a closed connection: a refused, departed or
\* shut-down client is hung up on, after what its queue still holds.
ClosedChannelHangsUp == \A c \in Clients : closed[c] ~> conn[c] = "closed" \/ ~Alive

\* Documented: a refused connection leaves the existing clients unaffected,
\* so until the shutdown no reader acks on a channel Run has closed.
SurvivesRefusedClient == crash # "ack" \/ stopping

\* Documented: the server survives a client that disappears, also between its
\* resync request and Run's answer to it.
SurvivesDisappearance == crash # "resync"
=============================================================================

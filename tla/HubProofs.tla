----------------------------- MODULE HubProofs -----------------------------
(***************************************************************************)
(* Theorems about Hub, for any number of connections, any capacities and    *)
(* any snapshots: type correctness, the life cycle of a connection with     *)
(* what follows from it, and that Hub implements Feed.                      *)
(***************************************************************************)
EXTENDS Hub, FiniteSetTheorems, TLAPS

-----------------------------------------------------------------------------
(* Sequences used as channels.                                              *)

\* Receiving keeps the type of a channel, shortens it, and removes the head,
\* for good when no value is in the channel twice.
LEMMA Received ==
  ASSUME NEW S, NEW q \in Seq(S), q # <<>>
  PROVE  /\ Head(q) \in S /\ Head(q) \in Range(q)
         /\ Tail(q) \in Seq(S) /\ Len(Tail(q)) = Len(q) - 1
         /\ Range(Tail(q)) \subseteq Range(q)
         /\ IsInjective(q) => IsInjective(Tail(q)) /\ Head(q) \notin Range(Tail(q))
<1>1. Head(q) = q[1] /\ 1 \in DOMAIN q /\ Head(q) \in S
  OBVIOUS
<1>2. Tail(q) \in Seq(S) /\ Len(Tail(q)) = Len(q) - 1
  OBVIOUS
<1>3. \A i \in DOMAIN Tail(q) : i + 1 \in DOMAIN q /\ Tail(q)[i] = q[i + 1]
  OBVIOUS
<1>4. Range(Tail(q)) \subseteq Range(q)
  BY <1>3 DEF Range
<1>5. ASSUME IsInjective(q) PROVE IsInjective(Tail(q))
  <2>1. \A a, b \in DOMAIN Tail(q) : a \in Int /\ b \in Int
    BY <1>2
  <2>2. QED BY <1>3, <1>5, <2>1 DEF IsInjective
<1>6. ASSUME IsInjective(q), Head(q) \in Range(Tail(q)) PROVE FALSE
  <2>1. PICK i \in DOMAIN Tail(q) : Tail(q)[i] = q[1]
    BY <1>1, <1>6 DEF Range
  <2>2. i + 1 = 1
    BY <1>1, <1>3, <1>6, <2>1 DEF IsInjective
  <2>3. i \in 1..Len(Tail(q))
    BY <1>2
  <2>4. QED BY <2>2, <2>3
<1>7. QED BY <1>1, <1>2, <1>4, <1>5, <1>6 DEF Range

\* Sending puts exactly one more value into a channel.
LEMMA Sent ==
  ASSUME NEW S, NEW q \in Seq(S), NEW e \in S
  PROVE  /\ Append(q, e) \in Seq(S) /\ Len(Append(q, e)) = Len(q) + 1
         /\ Range(Append(q, e)) = Range(q) \cup {e}
         /\ IsInjective(q) /\ e \notin Range(q) => IsInjective(Append(q, e))
<1>1. Append(q, e) \in Seq(S) /\ Len(Append(q, e)) = Len(q) + 1
  OBVIOUS
<1>2. DOMAIN q = 1..Len(q) /\ DOMAIN Append(q, e) = 1..(Len(q) + 1)
  BY <1>1
<1>3. /\ \A i \in 1..Len(q) : Append(q, e)[i] = q[i]
      /\ Append(q, e)[Len(q) + 1] = e
  OBVIOUS
<1>4. Len(q) \in Nat /\ 1..(Len(q) + 1) = 1..Len(q) \cup {Len(q) + 1}
  OBVIOUS
<1>5. Range(Append(q, e)) = Range(q) \cup {e}
  BY <1>2, <1>3, <1>4 DEF Range
<1>6. ASSUME IsInjective(q), e \notin Range(q) PROVE IsInjective(Append(q, e))
  BY <1>2, <1>3, <1>4, <1>6 DEF IsInjective, Range
<1>7. QED BY <1>1, <1>5, <1>6

\* A request queued without blocking, or lost because the channel is full.
LEMMA Notified ==
  ASSUME NEW q \in Seq(Clients), Len(q) <= ChanCap, NEW c \in Clients
  PROVE  /\ Notify(q, c) \in Seq(Clients) /\ Len(Notify(q, c)) <= ChanCap
         /\ Range(Notify(q, c)) \subseteq Range(q) \cup {c}
BY Sent, HubConstants DEF Notify

-----------------------------------------------------------------------------
(* Type correctness.                                                        *)

LEMMA FrameTypesOK ==
  /\ NoFrame \in Frames
  /\ \A ok \in BOOLEAN : Ack(ok) \in Frames
  /\ \A n \in Nat, s \in Snapshots : Frame("telemetry", n, s) \in Frames
  /\ \A n \in Nat, k \in {"heartbeat", "scope", "spectrum"} : Frame(k, n, None) \in Frames
BY DEF Frames, FrameTypes, NoFrame, Ack, Frame

Senders == {"admit", "resync", "broadcast", "ack"}

\* What a non-blocking send to a set of clients leaves behind.
LEMMA OfferOK ==
  ASSUME TypeOK, NEW C \in SUBSET Clients, NEW f \in Frames, NEW who \in Senders,
         Offer(C, f, who)
  PROVE  /\ send' \in [Clients -> Seq(Frames)]
         /\ \A c \in Clients : Len(send'[c]) <= SendBuffer
         /\ lagging' \in [Clients -> BOOLEAN]
         /\ crash' \in {crash, who}
         /\ (\A c \in C : ~closed[c]) => crash' = crash
<1>1. CASE \E c \in C : closed[c]
  BY <1>1 DEF Offer, TypeOK
<1>2. CASE ~ \E c \in C : closed[c]
  <2>1. send' = [c \in Clients |-> IF c \in C /\ Len(send[c]) < SendBuffer
                                   THEN Append(send[c], f) ELSE send[c]]
    BY <1>2 DEF Offer
  <2>2. \A c \in Clients : send'[c] \in Seq(Frames) /\ Len(send'[c]) <= SendBuffer
    BY <2>1, HubConstants DEF TypeOK
  <2>3. lagging' = [c \in Clients |-> IF c \in C /\ Telemetry(f)
                                      THEN Len(send[c]) >= SendBuffer ELSE lagging[c]]
    BY <1>2 DEF Offer
  <2>4. lagging' \in [Clients -> BOOLEAN]
    <3>1. \A c \in Clients : lagging[c] \in BOOLEAN
      BY Zenon DEF TypeOK
    <3>2. \A c \in Clients : (Len(send[c]) >= SendBuffer) \in BOOLEAN
      OBVIOUS
    <3>3. QED BY <2>3, <3>1, <3>2, Zenon
  <2>5. crash' = crash
    BY <1>2 DEF Offer
  <2>6. QED BY <2>1, <2>2, <2>4, <2>5
<1>3. QED BY <1>1, <1>2

LEMMA BroadcastOK ==
  ASSUME TypeOK, NEW f \in Frames, Broadcast(f)
  PROVE  /\ send' \in [Clients -> Seq(Frames)]
         /\ \A c \in Clients : Len(send'[c]) <= SendBuffer
         /\ lagging' \in [Clients -> BOOLEAN]
         /\ crash' \in {crash, "broadcast"}
         /\ seq' \in Nat /\ lastFrame' \in Frames
<1>1. clients \in SUBSET Clients /\ lastFrame \in Frames /\ f.seq \in Nat
  BY DEF TypeOK, Frames
<1>2. Offer(clients, f, "broadcast") /\ seq' = f.seq /\ lastFrame' \in {f, lastFrame}
  BY DEF Broadcast, Cached
<1>3. QED BY <1>1, <1>2, OfferOK DEF Senders

LEMMA CloseSendOK ==
  ASSUME TypeOK, NEW C \in SUBSET Clients, CloseSend(C)
  PROVE  /\ closed' \in [Clients -> BOOLEAN]
         /\ crash' \in {crash, "close"}
         /\ (\A c \in C : ~closed[c]) =>
              /\ crash' = crash
              /\ \A c \in Clients : closed'[c] <=> closed[c] \/ c \in C
BY DEF CloseSend, TypeOK

LEMMA InitTypeOK == Init => TypeOK
<1> SUFFICES ASSUME Init PROVE TypeOK
  OBVIOUS
<1> USE HubConstants
<1>1. \A S : <<>> \in Seq(S) /\ Len(<<>>) = 0
  OBVIOUS
<1>2. /\ sampleIn \in [SampleKinds -> 0..SampleCap]
      /\ send \in [Clients -> Seq(Frames)] /\ \A c \in Clients : Len(send[c]) <= SendBuffer
  BY <1>1 DEF Init
<1>3. NoFrame \in Frames /\ view \in [Clients -> Frames]
  BY FrameTypesOK DEF Init
<1>4. /\ closed \in [Clients -> BOOLEAN] /\ lagging \in [Clients -> BOOLEAN]
      /\ gotSeq \in [Clients -> Nat] /\ conn \in [Clients -> {"none", "open", "closed"}]
      /\ reader \in [Clients -> {"off", "reading", "done"} \cup Requests]
      /\ writer \in [Clients -> {"off", "running", "done"}]
  BY DEF Init
<1>5. /\ snapIn \in Seq(Snapshots) /\ Len(snapIn) <= SnapCap
      /\ register \in Seq(Clients) /\ unregister \in Seq(Clients) /\ resync \in Seq(Clients)
      /\ Len(register) <= ChanCap /\ Len(unregister) <= ChanCap /\ Len(resync) <= ChanCap
  BY <1>1 DEF Init
<1>6. lastFrame \in Frames
  BY <1>3 DEF Init
<1>7. QED BY <1>2, <1>3, <1>4, <1>5, <1>6 DEF Init, TypeOK

LEMMA EnvTypeOK == TypeOK /\ EnvNext => TypeOK'
<1> SUFFICES ASSUME TypeOK, EnvNext PROVE TypeOK'
  OBVIOUS
<1> USE HubConstants DEF channelVars, queueVars, runVars, sendVars, pumpVars, Alive
<1>1. CASE \E s \in Snapshots : SourceEmits(s)
  BY <1>1 DEF SourceEmits, TypeOK
<1>2. CASE \E k \in SampleKinds : SourceEmitsSample(k)
  BY <1>2 DEF SourceEmitsSample, TypeOK
<1>4. CASE HeartbeatElapses
  BY <1>4 DEF HeartbeatElapses, TypeOK
<1>5. CASE Cancel
  BY <1>5 DEF Cancel, TypeOK
<1>6. QED BY <1>1, <1>2, <1>4, <1>5 DEF EnvNext

\* Each case of Run's select keeps the types.
LEMMA HubTypeOK == TypeOK /\ HubNext => TypeOK'
<1> SUFFICES ASSUME TypeOK, HubNext PROVE TypeOK'
  OBVIOUS
<1> USE HubConstants DEF channelVars, queueVars, runVars, sendVars, pumpVars, Alive, HubUnchanged
<1>r. register # <<>> => /\ Head(register) \in Clients /\ Tail(register) \in Seq(Clients)
                         /\ Len(Tail(register)) <= ChanCap
  BY Received DEF TypeOK
<1>u. unregister # <<>> => /\ Head(unregister) \in Clients /\ Tail(unregister) \in Seq(Clients)
                           /\ Len(Tail(unregister)) <= ChanCap
  BY Received DEF TypeOK
<1>y. resync # <<>> => /\ Head(resync) \in Clients /\ Tail(resync) \in Seq(Clients)
                       /\ Len(Tail(resync)) <= ChanCap
  BY Received DEF TypeOK
<1>s. snapIn # <<>> => /\ Head(snapIn) \in Snapshots /\ Tail(snapIn) \in Seq(Snapshots)
                       /\ Len(Tail(snapIn)) <= SnapCap
  BY Received DEF TypeOK
<1>b. lastFrame \in Frames /\ seq \in Nat /\ seq + 1 \in Nat /\ clients \in SUBSET Clients
  BY DEF TypeOK
<1>1. CASE AdmitClient
  <2>1. DEFINE C == Replay(Head(register))
  <2>2. C \in SUBSET Clients
    BY <1>1, <1>r DEF AdmitClient, Replay
  <2>3. Offer(C, lastFrame, "admit")
    BY <1>1 DEF AdmitClient
  <2>4. /\ send' \in [Clients -> Seq(Frames)] /\ lagging' \in [Clients -> BOOLEAN]
        /\ \A c \in Clients : Len(send'[c]) <= SendBuffer
        /\ crash' \in {crash, "admit"}
    BY <1>b, <2>2, <2>3, OfferOK DEF Senders
  <2>5. QED BY <1>1, <1>r, <2>4 DEF AdmitClient, TypeOK
<1>2. CASE RejectClient
  <2>1. CloseSend({Head(register)}) /\ {Head(register)} \in SUBSET Clients
    BY <1>2, <1>r DEF RejectClient
  <2>2. closed' \in [Clients -> BOOLEAN] /\ crash' \in {crash, "close"}
    BY <2>1, CloseSendOK
  <2>3. QED BY <1>2, <1>r, <2>2 DEF RejectClient, TypeOK
<1>3. CASE HandleUnregister
  <2>1. CloseSend(Departing(Head(unregister))) /\ Departing(Head(unregister)) \in SUBSET Clients
    BY <1>3, <1>b DEF HandleUnregister, Departing
  <2>2. closed' \in [Clients -> BOOLEAN] /\ crash' \in {crash, "close"}
    BY <2>1, CloseSendOK
  <2>3. QED BY <1>3, <1>u, <2>2 DEF HandleUnregister, Departing, TypeOK
<1>4. CASE HandleResync
  <2>1. DEFINE C == Replay(Head(resync))
  <2>2. C \in SUBSET Clients
    BY <1>4, <1>y DEF HandleResync, Replay
  <2>3. Offer(C, lastFrame, "resync")
    BY <1>4 DEF HandleResync
  <2>4. /\ send' \in [Clients -> Seq(Frames)] /\ lagging' \in [Clients -> BOOLEAN]
        /\ \A c \in Clients : Len(send'[c]) <= SendBuffer
        /\ crash' \in {crash, "resync"}
    BY <1>b, <2>2, <2>3, OfferOK DEF Senders
  <2>5. QED BY <1>4, <1>y, <2>4 DEF HandleResync, TypeOK
<1>5. CASE SuppressSnapshot
  BY <1>5, <1>s DEF SuppressSnapshot, TypeOK
<1>6. CASE BroadcastSnapshot
  <2>1. DEFINE f == Frame("telemetry", seq + 1, Head(snapIn))
  <2>2. f \in Frames /\ Broadcast(f)
    BY <1>6, <1>s, <1>b, FrameTypesOK DEF BroadcastSnapshot
  <2>3. QED BY <1>6, <1>s, <2>2, BroadcastOK DEF BroadcastSnapshot, TypeOK
<1>7. CASE Heartbeat
  <2>1. Frame("heartbeat", seq + 1, None) \in Frames /\ Broadcast(Frame("heartbeat", seq + 1, None))
    BY <1>7, <1>b, FrameTypesOK DEF Heartbeat
  <2>2. QED BY <1>7, <2>1, BroadcastOK DEF Heartbeat, TypeOK
<1>8. CASE HubStops
  <2>1. closed' \in [Clients -> BOOLEAN] /\ crash' \in {crash, "close"}
    BY <1>8, <1>b, CloseSendOK DEF HubStops
  <2>2. QED BY <1>8, <2>1 DEF HubStops, TypeOK
<1>9. ASSUME NEW k \in SampleKinds, BroadcastSample(k) PROVE TypeOK'
  <2>1. Frame(k, seq + 1, None) \in Frames /\ Broadcast(Frame(k, seq + 1, None))
    BY <1>9, <1>b, FrameTypesOK, HubConstants DEF BroadcastSample
  <2>2. sampleIn' \in [SampleKinds -> 0..SampleCap]
    <3>1. sampleIn \in [SampleKinds -> 0..SampleCap] /\ SampleCap \in Nat
      BY HubConstants DEF TypeOK
    <3>2. sampleIn[k] > 0 /\ sampleIn' = [sampleIn EXCEPT ![k] = sampleIn[k] - 1]
      BY <1>9 DEF BroadcastSample
    <3>3. sampleIn[k] - 1 \in 0..SampleCap
      BY <3>1, <3>2
    <3>4. QED BY <3>1, <3>2, <3>3
  <2>3. QED BY <1>9, <2>1, <2>2, BroadcastOK DEF BroadcastSample, TypeOK
<1>10. QED BY <1>1, <1>2, <1>3, <1>4, <1>5, <1>6, <1>7, <1>8, <1>9 DEF HubNext

\* So does every step of a connection.
LEMMA ConnectionTypeOK ==
  ASSUME TypeOK, NEW c \in Clients, ServeWS(c) \/ Disconnect(c) \/ WriterNext(c) \/ ReaderNext(c)
  PROVE  TypeOK'
<1> USE HubConstants DEF channelVars, queueVars, runVars, sendVars, pumpVars, Alive,
                         WriterRuns, ReaderReads
<1>1. CASE ServeWS(c)
  <2>1. register' \in Seq(Clients) /\ Len(register') <= ChanCap
    <3>1. register' = register \/ (Len(register) < ChanCap /\ register' = Append(register, c))
      BY <1>1 DEF ServeWS
    <3>2. register \in Seq(Clients) /\ Len(register) \in Nat /\ Len(register) <= ChanCap
      BY DEF TypeOK
    <3>3. Append(register, c) \in Seq(Clients) /\ Len(Append(register, c)) = Len(register) + 1
      BY <3>2, Sent
    <3>4. QED BY <3>1, <3>2, <3>3
  <2>2. /\ conn' \in [Clients -> {"none", "open", "closed"}]
        /\ reader' \in [Clients -> {"off", "reading", "done"} \cup Requests]
        /\ writer' \in [Clients -> {"off", "running", "done"}]
    BY <1>1, ZenonT(60) DEF ServeWS, TypeOK
  <2>3. QED BY <1>1, <2>1, <2>2 DEF ServeWS, TypeOK
<1>2. CASE Disconnect(c)
  BY <1>2 DEF Disconnect, TypeOK
<1>a. send[c] # <<>> => /\ Head(send[c]) \in Frames /\ Tail(send[c]) \in Seq(Frames)
                        /\ Len(Tail(send[c])) <= SendBuffer
  BY Received DEF TypeOK
<1>3. CASE WriterSends(c)
  <2>1. Head(send[c]) \in Frames /\ Head(send[c]).seq \in Nat
    BY <1>3, <1>a DEF WriterSends, Frames
  <2>2. gotSeq' \in [Clients -> Nat] /\ view' \in [Clients -> Frames]
    BY <1>3, <2>1 DEF WriterSends, TypeOK
  <2>3. send' \in [Clients -> Seq(Frames)] /\ \A d \in Clients : Len(send'[d]) <= SendBuffer
    BY <1>3, <1>a DEF WriterSends, TypeOK
  <2>4. QED BY <1>3, <2>2, <2>3 DEF WriterSends, TypeOK
<1>4. CASE WriterFails(c)
  <2>1. send' \in [Clients -> Seq(Frames)] /\ \A d \in Clients : Len(send'[d]) <= SendBuffer
    <3>1. UNCHANGED send \/ (send[c] # <<>> /\ send' = [send EXCEPT ![c] = Tail(@)])
      BY <1>4 DEF WriterFails
    <3>2. send \in [Clients -> Seq(Frames)] /\ \A d \in Clients : Len(send[d]) <= SendBuffer
      BY DEF TypeOK
    <3>3. QED BY <1>a, <3>1, <3>2
  <2>2. QED BY <1>4, <2>1 DEF WriterFails, WriterStops, TypeOK
<1>5. CASE WriterHangsUp(c)
  BY <1>5 DEF WriterHangsUp, WriterStops, TypeOK
<1>6. ASSUME NEW m \in Requests, ReaderRefuses(c, m) PROVE TypeOK'
  <2>1. /\ send' \in [Clients -> Seq(Frames)] /\ lagging' \in [Clients -> BOOLEAN]
        /\ \A d \in Clients : Len(send'[d]) <= SendBuffer
        /\ crash' \in {crash, "ack"}
    BY <1>6, FrameTypesOK, OfferOK DEF ReaderRefuses, Senders
  <2>2. QED BY <1>6, <2>1 DEF ReaderRefuses, TypeOK
<1>7. ASSUME NEW m \in Requests, ReaderPassesGate(c, m) PROVE TypeOK'
  BY <1>7 DEF ReaderPassesGate, TypeOK
<1>8. CASE ReaderSubmits(c)
  <2>1. PICK ok \in BOOLEAN : Offer({c}, Ack(ok), "ack")
    BY <1>8 DEF ReaderSubmits, Submit
  <2>2. Ack(ok) \in Frames /\ {c} \in SUBSET Clients /\ "ack" \in Senders
    BY FrameTypesOK DEF Senders
  <2>3. /\ send' \in [Clients -> Seq(Frames)] /\ lagging' \in [Clients -> BOOLEAN]
        /\ \A d \in Clients : Len(send'[d]) <= SendBuffer
        /\ crash' \in {crash, "ack"}
    BY <2>1, <2>2, OfferOK
  <2>4. QED BY <1>8, <2>3 DEF ReaderSubmits, TypeOK
<1>9. CASE ReaderAsksResync(c)
  BY <1>9, Notified DEF ReaderAsksResync, TypeOK
<1>10. CASE ReaderExits(c)
  BY <1>10, Notified DEF ReaderExits, TypeOK
<1>11. QED
  BY <1>1, <1>2, <1>3, <1>4, <1>5, <1>6, <1>7, <1>8, <1>9, <1>10 DEF WriterNext, ReaderNext

LEMMA StepTypeOK == TypeOK /\ [Next]_vars => TypeOK'
<1> SUFFICES ASSUME TypeOK, [Next]_vars PROVE TypeOK'
  OBVIOUS
<1>1. CASE UNCHANGED vars
  BY <1>1 DEF vars, channelVars, queueVars, runVars, sendVars, pumpVars, TypeOK
<1>2. QED BY <1>1, EnvTypeOK, HubTypeOK, ConnectionTypeOK DEF Next

\* Every channel stays within its capacity and every variable in its type,
\* whatever the number of connections and the order of events.
THEOREM TypeCorrect == Spec => []TypeOK
BY InitTypeOK, StepTypeOK, PTL DEF Spec

-----------------------------------------------------------------------------
(* The life cycle of a connection.                                          *)

LifeInv == TypeOK /\ ClientLifecycle /\ HubNeverSelfCrashes

\* A step that leaves the channels into Run, the clients map, the send
\* channels' closing and hubUp alone, finishes no reader's work backwards and
\* serves no new connection preserves the life cycle.
LEMMA LifecycleFrame ==
  ASSUME LifeInv,
         UNCHANGED <<register, unregister, clients, closed, hubUp>>,
         \A c \in Clients : reader[c] = "done" => reader'[c] = "done",
         \A c \in Clients : conn'[c] = "none" => conn[c] = "none"
  PROVE  ClientLifecycle'
<1>1. IsInjective(register)' /\ (\A c \in Range(register) : c \notin clients /\ ~closed[c])'
  BY DEF LifeInv, ClientLifecycle
<1>2. (hubUp => \A c \in clients : ~closed[c])'
  BY DEF LifeInv, ClientLifecycle
<1>3. Range(unregister) \subseteq Clients
  BY DEF LifeInv, TypeOK, Range
<1>4. (\A c \in Range(unregister) : reader[c] = "done")'
  BY <1>3 DEF LifeInv, ClientLifecycle
<1>5. (\A c \in Clients : conn[c] = "none" =>
         c \notin Range(register) \cup clients \cup Range(unregister) /\ ~closed[c])'
  BY DEF LifeInv, ClientLifecycle
<1>6. QED BY <1>1, <1>2, <1>4, <1>5 DEF ClientLifecycle

LEMMA InitLife == Init => LifeInv
<1> SUFFICES ASSUME Init PROVE ClientLifecycle /\ HubNeverSelfCrashes
  BY InitTypeOK DEF LifeInv
<1>1. DOMAIN <<>> = {}
  OBVIOUS
<1>2. Range(register) = {} /\ Range(unregister) = {} /\ IsInjective(register)
  BY <1>1 DEF Init, Range, IsInjective
<1>3. QED BY <1>2 DEF Init, ClientLifecycle, HubNeverSelfCrashes

LEMMA EnvLife == LifeInv /\ EnvNext => ClientLifecycle' /\ HubNeverSelfCrashes'
<1> SUFFICES ASSUME LifeInv, EnvNext PROVE ClientLifecycle' /\ HubNeverSelfCrashes'
  OBVIOUS
<1>1. UNCHANGED <<register, unregister, clients, closed, hubUp, reader, conn, crash>>
  BY DEF EnvNext, SourceEmits, SourceEmitsSample, HeartbeatElapses, Cancel,
         queueVars, runVars, sendVars, pumpVars
<1>2. QED BY <1>1, LifecycleFrame DEF LifeInv, HubNeverSelfCrashes

\* Run's cases that touch neither the clients map nor a channel's closing only
\* have to find the channels of all clients open.
LEMMA BroadcastLife ==
  ASSUME LifeInv, SuppressSnapshot \/ BroadcastSnapshot \/ Heartbeat \/ HandleResync
                  \/ \E k \in SampleKinds : BroadcastSample(k)
  PROVE  ClientLifecycle' /\ HubNeverSelfCrashes'
<1> USE DEF channelVars, queueVars, runVars, sendVars, pumpVars, HubUnchanged
<1>1. hubUp /\ \A c \in clients : ~closed[c]
  BY DEF LifeInv, ClientLifecycle, SuppressSnapshot, BroadcastSnapshot, Heartbeat,
         HandleResync, BroadcastSample, Broadcast
<1>2. UNCHANGED <<register, unregister, clients, closed, hubUp, reader, conn>>
  BY DEF SuppressSnapshot, BroadcastSnapshot, Heartbeat, HandleResync, BroadcastSample, Broadcast
<1>3. crash' = crash \/ crash' = "resync"
  <2>1. CASE SuppressSnapshot
    BY <2>1 DEF SuppressSnapshot
  <2>2. CASE HandleResync
    BY <2>2 DEF HandleResync, Offer
  <2>3. CASE BroadcastSnapshot \/ Heartbeat \/ \E k \in SampleKinds : BroadcastSample(k)
    BY <2>3, <1>1 DEF BroadcastSnapshot, Heartbeat, BroadcastSample, Broadcast, Offer
  <2>4. QED BY <2>1, <2>2, <2>3
<1>4. QED BY <1>2, <1>3, LifecycleFrame DEF LifeInv, HubNeverSelfCrashes

\* A connection leaves the register channel for the clients map, with an open
\* channel, or for good, with a closed one.
LEMMA RegisterLife ==
  ASSUME LifeInv, AdmitClient \/ RejectClient
  PROVE  ClientLifecycle' /\ HubNeverSelfCrashes'
<1> USE DEF channelVars, queueVars, runVars, sendVars, pumpVars, HubUnchanged
<1> DEFINE h == Head(register)
<1>1. /\ register # <<>> /\ register' = Tail(register)
      /\ UNCHANGED <<unregister, hubUp, conn, reader>>
  BY DEF AdmitClient, RejectClient
<1>2. /\ h \in Clients /\ h \in Range(register) /\ Range(register') \subseteq Range(register)
      /\ IsInjective(register') /\ h \notin Range(register')
  BY <1>1, Received DEF LifeInv, TypeOK, ClientLifecycle
<1>3. ~closed[h] /\ h \notin clients /\ conn[h] # "none"
  BY <1>2 DEF LifeInv, ClientLifecycle
<1>a. Range(register) \subseteq Clients
  BY DEF LifeInv, TypeOK, Range
<1>4. CASE AdmitClient
  <2>1. clients' = clients \cup {h} /\ closed' = closed
    BY <1>4 DEF AdmitClient
  <2>2. crash' = crash
    BY <1>3, <1>4 DEF AdmitClient, Offer, Replay
  <2>3. ClientLifecycle'
    BY <1>1, <1>2, <1>3, <2>1 DEF ClientLifecycle, LifeInv
  <2>4. QED BY <2>2, <2>3 DEF LifeInv, HubNeverSelfCrashes
<1>5. CASE RejectClient
  <2>1. CloseSend({h}) /\ clients' = clients
    BY <1>5 DEF RejectClient
  <2>2. crash' = crash /\ \A c \in Clients : closed'[c] <=> closed[c] \/ c = h
    BY <1>2, <1>3, <2>1, CloseSendOK DEF LifeInv
  <2>3. clients \subseteq Clients
    BY DEF LifeInv, TypeOK
  <2>4. ClientLifecycle'
    BY <1>1, <1>2, <1>3, <1>a, <2>1, <2>2, <2>3 DEF ClientLifecycle, LifeInv
  <2>5. QED BY <2>2, <2>4 DEF LifeInv, HubNeverSelfCrashes
<1>6. QED BY <1>4, <1>5

\* Run closes only channels of its clients, which are open.
LEMMA DepartureLife ==
  ASSUME LifeInv, HandleUnregister \/ HubStops
  PROVE  ClientLifecycle' /\ HubNeverSelfCrashes'
<1> USE DEF channelVars, queueVars, runVars, sendVars, pumpVars, HubUnchanged
<1>1. clients \subseteq Clients /\ Range(register) \subseteq Clients /\ Range(unregister) \subseteq Clients
  BY DEF LifeInv, TypeOK, Range
<1>2. hubUp /\ UNCHANGED <<register, conn, reader>>
  BY DEF HandleUnregister, HubStops
<1>3. PICK C \in SUBSET clients : CloseSend(C) /\ (hubUp' => clients' = clients \ C)
                                  /\ clients' \subseteq clients
  <2>1. CASE HandleUnregister
    <3>1. Departing(Head(unregister)) \in SUBSET clients
      BY DEF Departing
    <3>2. CloseSend(Departing(Head(unregister))) /\ clients' = clients \ Departing(Head(unregister))
      BY <2>1 DEF HandleUnregister
    <3>3. QED BY <3>1, <3>2
  <2>2. CASE HubStops
    BY <2>2 DEF HubStops
  <2>3. QED BY <2>1, <2>2
<1>4. \A c \in C : ~closed[c]
  BY <1>2, <1>3 DEF LifeInv, ClientLifecycle
<1>5. crash' = crash /\ \A c \in Clients : closed'[c] <=> closed[c] \/ c \in C
  BY <1>1, <1>3, <1>4, CloseSendOK DEF LifeInv
<1>6. Range(unregister') \subseteq Range(unregister)
  <2>1. CASE HandleUnregister
    BY <2>1, Received DEF HandleUnregister, LifeInv, TypeOK
  <2>2. CASE HubStops
    BY <2>2 DEF HubStops
  <2>3. QED BY <2>1, <2>2
<1>7. hubUp' => \A c \in clients' : ~closed'[c]
  BY <1>1, <1>2, <1>3, <1>5 DEF LifeInv, ClientLifecycle
<1>8. \A c \in Range(register') : c \notin clients' /\ ~closed'[c]
  BY <1>1, <1>2, <1>3, <1>5 DEF LifeInv, ClientLifecycle
<1>9. \A c \in Clients : conn'[c] = "none" =>
        c \notin Range(register') \cup clients' \cup Range(unregister') /\ ~closed'[c]
  BY <1>2, <1>3, <1>5, <1>6 DEF LifeInv, ClientLifecycle
<1>10. ClientLifecycle'
  BY <1>2, <1>6, <1>7, <1>8, <1>9 DEF LifeInv, ClientLifecycle
<1>11. QED BY <1>5, <1>10 DEF LifeInv, HubNeverSelfCrashes

LEMMA ConnectionLife ==
  ASSUME LifeInv, NEW c \in Clients, ServeWS(c) \/ Disconnect(c) \/ WriterNext(c) \/ ReaderNext(c)
  PROVE  ClientLifecycle' /\ HubNeverSelfCrashes'
<1> USE DEF channelVars, queueVars, runVars, sendVars, pumpVars
<1>1. TypeOK /\ ClientLifecycle /\ HubNeverSelfCrashes
  BY DEF LifeInv
<1>2. CASE ServeWS(c)
  <2>1. c \notin Range(register) \cup clients \cup Range(unregister) /\ ~closed[c]
    BY <1>1, <1>2 DEF ServeWS, ClientLifecycle
  <2>2. /\ UNCHANGED <<unregister, clients, closed, hubUp, crash>>
        /\ conn'[c] # "none" /\ \A d \in Clients \ {c} : conn'[d] = conn[d] /\ reader'[d] = reader[d]
    BY <1>1, <1>2 DEF ServeWS, TypeOK
  <2>3. Range(register') \subseteq Range(register) \cup {c} /\ IsInjective(register')
    <3>1. register' = register \/ register' = Append(register, c)
      BY <1>2 DEF ServeWS
    <3>2. register \in Seq(Clients) /\ IsInjective(register) /\ c \notin Range(register)
      BY <1>1, <2>1 DEF TypeOK, ClientLifecycle
    <3>3. /\ Range(Append(register, c)) = Range(register) \cup {c}
          /\ IsInjective(Append(register, c))
      BY <3>2, Sent
    <3>4. QED BY <3>1, <3>2, <3>3
  <2>4. Range(unregister) \subseteq Clients
    BY <1>1 DEF TypeOK, Range
  <2>5. ClientLifecycle'
    BY <1>1, <2>1, <2>2, <2>3, <2>4 DEF ClientLifecycle
  <2>6. QED BY <1>1, <2>2, <2>5 DEF HubNeverSelfCrashes
<1>3. CASE Disconnect(c) \/ WriterNext(c)
  <2>1. /\ UNCHANGED <<register, unregister, clients, closed, hubUp, reader, crash>>
        /\ \A d \in Clients : conn'[d] = "none" => conn[d] = "none"
    BY <1>1, <1>3 DEF Disconnect, WriterNext, WriterSends, WriterFails, WriterHangsUp,
                      WriterStops, TypeOK
  <2>2. QED BY <1>1, <2>1, LifecycleFrame DEF LifeInv, HubNeverSelfCrashes
<1>4. CASE ReaderExits(c)
  <2>1. /\ UNCHANGED <<register, clients, closed, hubUp, conn, crash>>
        /\ conn[c] = "closed" /\ reader'[c] = "done"
        /\ \A d \in Clients \ {c} : reader'[d] = reader[d]
    BY <1>1, <1>4 DEF ReaderExits, TypeOK
  <2>2. Range(unregister') \subseteq Range(unregister) \cup {c}
    BY <1>1, <1>4, Notified DEF ReaderExits, TypeOK
  <2>3. Range(unregister) \subseteq Clients
    BY <1>1 DEF TypeOK, Range
  <2>4. ClientLifecycle'
    BY <1>1, <2>1, <2>2, <2>3 DEF ClientLifecycle
  <2>5. QED BY <1>1, <2>1, <2>4 DEF HubNeverSelfCrashes
<1>5. CASE ReaderNext(c) /\ ~ReaderExits(c)
  <2>1. UNCHANGED <<register, unregister, clients, closed, hubUp, conn>>
    BY <1>5 DEF ReaderNext, ReaderRefuses, ReaderPassesGate, ReaderSubmits, ReaderAsksResync
  <2>2. \A d \in Clients : reader[d] = "done" => reader'[d] = "done"
    BY <1>1, <1>5 DEF ReaderNext, ReaderRefuses, ReaderPassesGate, ReaderSubmits,
                      ReaderAsksResync, ReaderReads, TypeOK
  <2>3. crash' = crash \/ crash' = "ack"
    BY <1>5 DEF ReaderNext, ReaderRefuses, ReaderPassesGate, ReaderSubmits, ReaderAsksResync, Offer
  <2>4. QED BY <1>1, <2>1, <2>2, <2>3, LifecycleFrame DEF LifeInv, HubNeverSelfCrashes
<1>6. QED BY <1>2, <1>3, <1>4, <1>5

LEMMA StepLife == LifeInv /\ [Next]_vars => LifeInv'
<1> SUFFICES ASSUME LifeInv, [Next]_vars PROVE ClientLifecycle' /\ HubNeverSelfCrashes'
  BY StepTypeOK DEF LifeInv
<1>1. CASE UNCHANGED vars
  BY <1>1, LifecycleFrame
  DEF vars, queueVars, runVars, sendVars, pumpVars, LifeInv, HubNeverSelfCrashes
<1>2. CASE HubNext
  BY <1>2, BroadcastLife, RegisterLife, DepartureLife DEF HubNext
<1>3. QED BY <1>1, <1>2, EnvLife, ConnectionLife DEF Next

LEMMA LifeInvariant == Spec => []LifeInv
BY InitLife, StepLife, PTL DEF Spec

\* For any number of connections: a connection is registering, served or gone,
\* each at most once, its channel is closed only when it is gone, and its
\* reader is done before it is unregistered.
THEOREM ConnectionsPassOnce == Spec => []ClientLifecycle
BY LifeInvariant, PTL DEF LifeInv

\* For any number of connections and whatever the order of registrations,
\* refusals, departures and shutdown, Run never sends a broadcast or a first
\* frame on a closed channel and never closes a channel twice.
THEOREM HubNeverCrashesItself == Spec => []HubNeverSelfCrashes
BY LifeInvariant, PTL DEF LifeInv

\* For any number of connections, Run closes the channel of a connection whose
\* reader may still answer on it only when it refuses the connection.
THEOREM UnregisterWaitsForReader == Spec => OnlyRefusalClosesUnderReader
<1> DEFINE A == \A c \in Clients :
       hubUp' /\ closed'[c] /\ ~closed[c] /\ reader[c] # "done"
         => register # <<>> /\ Head(register) = c /\ Cardinality(clients) >= MaxClients
<1>1. LifeInv /\ [Next]_vars => [A]_vars
  <2> USE DEF channelVars, queueVars, runVars, sendVars, pumpVars, HubUnchanged
  <2> SUFFICES ASSUME LifeInv, [Next]_vars, NEW c \in Clients,
                      hubUp', closed'[c], ~closed[c], reader[c] # "done"
               PROVE  register # <<>> /\ Head(register) = c /\ Cardinality(clients) >= MaxClients
    OBVIOUS
  <2>1. closed' # closed
    OBVIOUS
  <2>2. RejectClient \/ HandleUnregister
    <3>1. HubNext
      BY <2>1 DEF Next, vars, EnvNext, SourceEmits, SourceEmitsSample, 
                  HeartbeatElapses, Cancel, ServeWS, Disconnect, WriterNext, WriterSends,
                  WriterFails, WriterHangsUp, WriterStops, ReaderNext, ReaderRefuses,
                  ReaderPassesGate, ReaderSubmits, ReaderAsksResync, ReaderExits
    <3>2. QED BY <3>1, <2>1 DEF HubNext, AdmitClient, HandleResync, SuppressSnapshot,
                  BroadcastSnapshot, Heartbeat, Broadcast, HubStops, BroadcastSample, Broadcast
  <2>3. CASE RejectClient
    BY <2>3, CloseSendOK DEF RejectClient, CloseSend, LifeInv
  <2>4. CASE HandleUnregister
    <3>1. Head(unregister) \in Range(unregister) /\ reader[Head(unregister)] = "done"
      BY <2>4, Received DEF HandleUnregister, LifeInv, TypeOK, ClientLifecycle
    <3>2. closed'[c] => closed[c] \/ c = Head(unregister)
      BY <2>4 DEF HandleUnregister, CloseSend, Departing
    <3>3. QED BY <3>1, <3>2
  <2>5. QED BY <2>2, <2>3, <2>4
<1>2. QED BY LifeInvariant, <1>1, PTL DEF Spec, OnlyRefusalClosesUnderReader

-----------------------------------------------------------------------------
(* What the panics of hub_refused and hub_resync need.                      *)

\* There is a place for every connection: none is ever refused.
RoomForAll == IsFiniteSet(Clients) /\ Cardinality(Clients) <= MaxClients

\* Before the shutdown, a channel is closed only when nobody acks on it.
RoomInv ==
  /\ LifeInv /\ SurvivesRefusedClient
  /\ hubUp \/ stopping
  /\ ~stopping => \A c \in Clients : closed[c] => reader[c] = "done"

LEMMA NobodyRefused ==
  ASSUME RoomForAll, LifeInv
  PROVE  ~RejectClient
<1> SUFFICES ASSUME RejectClient PROVE FALSE
  OBVIOUS
<1>1. Head(register) \in Clients /\ Head(register) \notin clients
  BY Received DEF RejectClient, LifeInv, TypeOK, ClientLifecycle
<1>2. clients \in SUBSET Clients /\ clients # Clients
  BY <1>1 DEF LifeInv, TypeOK
<1>3. IsFiniteSet(clients) /\ Cardinality(clients) <= Cardinality(Clients) /\ Cardinality(clients) # Cardinality(Clients)
  BY <1>2, FS_Subset DEF RoomForAll
<1>4. Cardinality(clients) \in Nat /\ Cardinality(Clients) \in Nat
  BY <1>3, FS_CardinalityType DEF RoomForAll
<1> QED
  BY <1>3, <1>4, HubConstants DEF RoomForAll, RejectClient

LEMMA InitRoom == Init => RoomInv
BY InitLife DEF Init, RoomInv, SurvivesRefusedClient

\* A departure closes the channel of a reader that is done.
LEMMA DepartureRoom ==
  ASSUME RoomInv, HandleUnregister, ~stopping, NEW c \in Clients, closed'[c]
  PROVE  reader[c] = "done"
<1>1. Head(unregister) \in Range(unregister) /\ reader[Head(unregister)] = "done"
  BY Received DEF HandleUnregister, RoomInv, LifeInv, TypeOK, ClientLifecycle
<1>2. closed[c] \/ c = Head(unregister)
  BY DEF HandleUnregister, CloseSend, Departing, RoomInv
<1> QED
  BY <1>1, <1>2 DEF RoomInv

\* A reader that is not done acks on an open channel.
LEMMA ConnectionRoom ==
  ASSUME RoomInv, ~stopping, NEW c \in Clients,
         ServeWS(c) \/ Disconnect(c) \/ WriterNext(c) \/ ReaderNext(c)
  PROVE  /\ crash' = crash /\ UNCHANGED <<hubUp, closed>>
         /\ \A d \in Clients : closed[d] => reader'[d] = "done"
<1> USE DEF channelVars, queueVars, runVars, sendVars, pumpVars
<1>0. /\ reader \in [Clients -> {"off", "reading", "done"} \cup Requests]
      /\ \A d \in Clients : closed[d] => reader[d] = "done"
      /\ \A d \in Clients : conn[d] = "none" => ~closed[d] /\ d \notin Range(unregister)
  BY DEF RoomInv, LifeInv, TypeOK, ClientLifecycle
<1>1. CASE ServeWS(c)
  BY <1>0, <1>1 DEF ServeWS
<1>2. CASE Disconnect(c) \/ WriterNext(c)
  BY <1>0, <1>2 DEF Disconnect, WriterNext, WriterSends, WriterFails, WriterHangsUp, WriterStops
<1>3. CASE ReaderNext(c)
  <2>1. reader[c] # "done" /\ ~closed[c]
    BY <1>0, <1>3 DEF ReaderNext, ReaderRefuses, ReaderPassesGate, ReaderSubmits, ReaderAsksResync,
                      ReaderExits, ReaderReads
  <2>2. UNCHANGED <<hubUp, closed>> /\ \A d \in Clients \ {c} : reader'[d] = reader[d]
    BY <1>0, <1>3 DEF ReaderNext, ReaderRefuses, ReaderPassesGate, ReaderSubmits, ReaderAsksResync, ReaderExits
  <2>3. crash' = crash
    BY <1>3, <2>1 DEF ReaderNext, ReaderRefuses, ReaderPassesGate, ReaderSubmits, ReaderAsksResync,
                      ReaderExits, Offer
  <2> QED
    BY <1>0, <2>1, <2>2, <2>3
<1> QED
  BY <1>1, <1>2, <1>3

LEMMA StepRoom ==
  ASSUME RoomForAll, RoomInv, [Next]_vars
  PROVE  RoomInv'
<1> USE DEF channelVars, queueVars, runVars, sendVars, pumpVars, HubUnchanged
<1>1. LifeInv'
  BY StepLife DEF RoomInv
<1>2. CASE stopping'
  BY <1>1, <1>2 DEF RoomInv, SurvivesRefusedClient
<1>3. CASE ~stopping'
  <2>1. ~stopping
    BY <1>3 DEF Next, vars, EnvNext, SourceEmits, SourceEmitsSample, HeartbeatElapses, Cancel,
       HubNext, AdmitClient, RejectClient, HandleUnregister, HandleResync, SuppressSnapshot,
       BroadcastSnapshot, Heartbeat, BroadcastSample, HubStops, ServeWS, Disconnect, WriterNext,
       WriterSends, WriterFails, WriterHangsUp, WriterStops, ReaderNext, ReaderRefuses,
       ReaderPassesGate, ReaderSubmits, ReaderAsksResync, ReaderExits
  <2>2. hubUp /\ crash # "ack" /\ \A c \in Clients : closed[c] => reader[c] = "done"
    BY <2>1 DEF RoomInv, SurvivesRefusedClient
  <2>3. ASSUME crash' # "ack", hubUp' = hubUp,
               \A c \in Clients : closed'[c] => reader'[c] = "done"
        PROVE  RoomInv'
    BY <1>1, <2>2, <2>3 DEF RoomInv, SurvivesRefusedClient
  <2>4. CASE UNCHANGED vars
    BY <2>2, <2>3, <2>4 DEF vars
  <2>5. CASE EnvNext
    BY <2>2, <2>3, <2>5 DEF EnvNext, SourceEmits, SourceEmitsSample, HeartbeatElapses, Cancel
  <2>6. CASE HandleUnregister
    <3>1. crash' # "ack" /\ hubUp' = hubUp /\ reader' = reader
      BY <2>2, <2>6 DEF HandleUnregister, CloseSend
    <3> QED
      BY <2>1, <2>3, <2>6, <3>1, DepartureRoom
  <2>7. CASE HubNext /\ ~HandleUnregister
    <3>1. ~RejectClient /\ ~HubStops
      BY <2>1, NobodyRefused DEF RoomInv, HubStops
    <3>2. crash' # "ack" /\ hubUp' = hubUp /\ reader' = reader /\ closed' = closed
      BY <2>2, <2>7, <3>1 DEF HubNext, AdmitClient, HandleResync, SuppressSnapshot, BroadcastSnapshot,
                              Heartbeat, BroadcastSample, Broadcast, Offer
    <3> QED
      BY <2>2, <2>3, <3>2
  <2>8. ASSUME NEW c \in Clients, ServeWS(c) \/ Disconnect(c) \/ WriterNext(c) \/ ReaderNext(c)
        PROVE  RoomInv'
    BY <2>1, <2>2, <2>3, <2>8, ConnectionRoom
  <2> QED
    BY <2>4, <2>5, <2>6, <2>7, <2>8 DEF Next
<1> QED
  BY <1>2, <1>3

\* The panic of a reader's ack needs a refusal: while there is a place for
\* every connection, none happens before the shutdown, whoever comes and goes
\* (hub.go:97, the close that a refusal adds).
THEOREM AcksSafeWithoutRefusals ==
  ASSUME RoomForAll
  PROVE  Spec => []SurvivesRefusedClient
<1>1. RoomInv => SurvivesRefusedClient
  BY DEF RoomInv
<1>2. RoomInv /\ [Next]_vars => RoomInv'
  BY StepRoom
<1> QED
  BY <1>1, <1>2, InitRoom, PTL DEF Spec

\* Nobody waits for an answer to a resync.
QuietInv == RoomInv /\ resync = <<>> /\ crash # "resync"

LEMMA StepQuiet ==
  ASSUME RoomForAll, "resync" \notin Requests, QuietInv, [Next]_vars
  PROVE  QuietInv'
<1> USE DEF channelVars, queueVars, runVars, sendVars, pumpVars, HubUnchanged
<1>1. RoomInv' /\ resync = <<>> /\ crash # "resync"
  BY StepRoom DEF QuietInv
<1>2. resync' = <<>> /\ crash' # "resync"
  BY <1>1 DEF Next, vars, EnvNext, SourceEmits, SourceEmitsSample, HeartbeatElapses, Cancel,
       HubNext, AdmitClient, RejectClient, HandleUnregister, HandleResync, SuppressSnapshot,
       BroadcastSnapshot, Heartbeat, BroadcastSample, Broadcast, Offer, CloseSend, HubStops, ServeWS,
       Disconnect, WriterNext, WriterSends, WriterFails, WriterHangsUp, WriterStops, ReaderNext,
       ReaderRefuses, ReaderPassesGate, ReaderSubmits, ReaderExits
<1> QED
  BY <1>1, <1>2 DEF QuietInv

\* Run's answer to a resync is the only other panic: with a place for every
\* connection and no client that asks for a resync, the process panics only in
\* its shutdown (hub.go:116-122).
THEOREM OnlyKnownPanics ==
  ASSUME RoomForAll, "resync" \notin Requests
  PROVE  Spec => [](crash = "no" \/ stopping)
<1>1. Init => QuietInv
  BY InitRoom DEF Init, QuietInv
<1>2. QuietInv /\ [Next]_vars => QuietInv'
  BY StepQuiet
<1>3. QuietInv => crash = "no" \/ stopping
  BY DEF QuietInv, RoomInv, SurvivesRefusedClient, LifeInv, TypeOK, HubNeverSelfCrashes
<1> QED
  BY <1>1, <1>2, <1>3, PTL DEF Spec

-----------------------------------------------------------------------------
(* Suppression does not drift.                                              *)

\* The comparison is with the broadcast snapshot, not with the last received.
Tracked ==
  /\ lastSnap # None => Telemetry(lastFrame) /\ lastFrame.snap = lastSnap
  /\ latestSnap # None => lastSnap # None /\ CloseEnough(lastSnap, latestSnap)

LEMMA CloseEnoughReflexive == \A s \in Snapshots : CloseEnough(s, s)
BY HubConstants DEF CloseEnough

LEMMA StepTracked == TypeOK /\ Tracked /\ [Next]_vars => Tracked'
<1> SUFFICES ASSUME TypeOK, Tracked, [Next]_vars PROVE Tracked'
  OBVIOUS
<1> USE DEF channelVars, queueVars, runVars, sendVars, pumpVars, HubUnchanged
<1>1. CASE SuppressSnapshot
  BY <1>1 DEF SuppressSnapshot, Suppressed, Tracked
<1>2. CASE BroadcastSnapshot
  <2>1. Head(snapIn) \in Snapshots /\ Head(snapIn) # None
    BY <1>2, HubConstants DEF BroadcastSnapshot, TypeOK
  <2>2. lastSnap' = Head(snapIn) /\ latestSnap' = Head(snapIn)
        /\ lastFrame' = Frame("telemetry", seq + 1, Head(snapIn))
    BY <1>2 DEF BroadcastSnapshot, Broadcast, Cached, Telemetry, Frame
  <2>3. Telemetry(lastFrame') /\ lastFrame'.snap = lastSnap'
    BY <2>2 DEF Telemetry, Frame
  <2>4. CloseEnough(lastSnap', latestSnap')
    BY <2>1, <2>2, CloseEnoughReflexive
  <2>5. QED BY <2>1, <2>2, <2>3, <2>4 DEF Tracked, Telemetry, CloseEnough
<1>3. CASE ~SuppressSnapshot /\ ~BroadcastSnapshot
  <2>1. UNCHANGED <<lastSnap, latestSnap, lastFrame>>
    <3>1. CASE Heartbeat \/ \E k \in SampleKinds : BroadcastSample(k)
      BY <3>1, HubConstants DEF Heartbeat, BroadcastSample, Broadcast, Cached, Telemetry, Frame
    <3>2. CASE ~(Heartbeat \/ \E k \in SampleKinds : BroadcastSample(k))
      BY <1>3, <3>2 DEF Next, vars, EnvNext, SourceEmits, SourceEmitsSample,
         HeartbeatElapses, Cancel, HubNext, AdmitClient, RejectClient,
         HandleUnregister, HandleResync, HubStops, ServeWS, Disconnect, WriterNext,
         WriterSends, WriterFails, WriterHangsUp, WriterStops, ReaderNext, ReaderRefuses,
         ReaderPassesGate, ReaderSubmits, ReaderAsksResync, ReaderExits
    <3>3. QED BY <3>1, <3>2
  <2>2. QED BY <2>1 DEF Tracked, Telemetry, CloseEnough
<1>4. QED BY <1>1, <1>2, <1>3

\* For any set of snapshots and any deadband, the last broadcast is within one
\* deadband of the newest snapshot, however many were suppressed in between.
THEOREM BroadcastStaysCurrent == Spec => []BroadcastCurrent
<1>1. Init => Tracked
  BY DEF Init, Tracked
<1>2. TypeOK /\ Tracked => BroadcastCurrent
  BY HubConstants DEF TypeOK, Tracked, BroadcastCurrent
<1>3. QED BY <1>1, <1>2, StepTracked, TypeCorrect, PTL DEF Spec

-----------------------------------------------------------------------------
(***************************************************************************)
(* Hub implements Feed, for any number of connections, any capacities and   *)
(* any snapshots.  The argument: the telemetry frames of one send channel   *)
(* are in the order of their numbers, between what the peer shows and what  *)
(* was broadcast last, whichever case of Run put them there.                *)
(* From the same queue order: who lost no telemetry is served the last      *)
(* broadcast, and only a replay lowers the sequence number of a display.    *)
(***************************************************************************)


\* The telemetry frames of q rise, from lo at least to hi at most.
Rising(q, lo, hi) ==
  /\ \A i \in 1..Len(q) : Telemetry(q[i]) => lo <= q[i].seq /\ q[i].seq <= hi
  /\ \A i, j \in 1..Len(q) : i < j /\ Telemetry(q[i]) /\ Telemetry(q[j]) => q[i].seq <= q[j].seq

FeedInv ==
  /\ TypeOK
  /\ lastFrame.seq <= seq
  /\ \A c \in Clients : /\ view[c].seq <= lastFrame.seq
                        /\ Rising(send[c], view[c].seq, lastFrame.seq)
                        /\ writer[c] # "off" => conn[c] # "none"

-----------------------------------------------------------------------------
(* One send channel.                                                        *)

LEMMA FrameNumber == \A f \in Frames : f.seq \in Nat
BY DEF Frames

LEMMA RisingSent ==
  ASSUME NEW q \in Seq(Frames), NEW f \in Frames, NEW lo \in Nat, NEW hi \in Nat, NEW top \in Nat,
         Rising(q, lo, hi), lo <= hi, hi <= top, Telemetry(f) => f.seq = top
  PROVE  Rising(q, lo, top) /\ Rising(Append(q, f), lo, top)
<1>1. \A i \in 1..Len(q) : q[i].seq \in Nat
  BY FrameNumber
<1>2. Rising(q, lo, top)
  BY <1>1 DEF Rising
<1>3. Append(q, f) \in Seq(Frames) /\ Len(Append(q, f)) = Len(q) + 1
  BY Sent
<1>4. /\ \A i \in 1..Len(q) : Append(q, f)[i] = q[i]
      /\ Append(q, f)[Len(q) + 1] = f
      /\ 1..(Len(q) + 1) = 1..Len(q) \cup {Len(q) + 1}
  OBVIOUS
<1>5. \A i \in 1..(Len(q) + 1) : Telemetry(Append(q, f)[i])
        => lo <= Append(q, f)[i].seq /\ Append(q, f)[i].seq <= top
  BY <1>2, <1>4 DEF Rising
<1>6. \A i, j \in 1..(Len(q) + 1) :
        i < j /\ Telemetry(Append(q, f)[i]) /\ Telemetry(Append(q, f)[j])
          => Append(q, f)[i].seq <= Append(q, f)[j].seq
  <2> TAKE i, j \in 1..(Len(q) + 1)
  <2> HAVE i < j /\ Telemetry(Append(q, f)[i]) /\ Telemetry(Append(q, f)[j])
  <2>1. i \in 1..Len(q)
    OBVIOUS
  <2>2. CASE j \in 1..Len(q)
    BY <1>2, <1>4, <2>1, <2>2 DEF Rising
  <2>3. CASE j = Len(q) + 1
    BY <1>2, <1>4, <2>1, <2>3 DEF Rising
  <2>4. QED BY <2>2, <2>3
<1>7. QED BY <1>2, <1>3, <1>5, <1>6 DEF Rising

LEMMA RisingReceived ==
  ASSUME NEW q \in Seq(Frames), q # <<>>, NEW lo \in Nat, NEW hi \in Nat, Rising(q, lo, hi)
  PROVE  /\ Rising(Tail(q), lo, hi)
         /\ Telemetry(Head(q)) => /\ Rising(Tail(q), Head(q).seq, hi)
                                  /\ Head(q).seq \in lo..hi
<1>1. Head(q) = q[1] /\ Head(q).seq \in Nat /\ 1 \in 1..Len(q)
  BY FrameNumber
<1>2. Len(Tail(q)) = Len(q) - 1 /\ \A i \in 1..Len(Tail(q)) : i + 1 \in 1..Len(q) /\ Tail(q)[i] = q[i + 1]
  OBVIOUS
<1>3. \A i \in 1..Len(Tail(q)) : Telemetry(Tail(q)[i])
        => lo <= Tail(q)[i].seq /\ Tail(q)[i].seq <= hi
  BY <1>2 DEF Rising
<1>4. \A i, j \in 1..Len(Tail(q)) : i < j /\ Telemetry(Tail(q)[i]) /\ Telemetry(Tail(q)[j])
        => Tail(q)[i].seq <= Tail(q)[j].seq
  BY <1>2 DEF Rising
<1>5. ASSUME Telemetry(Head(q)), NEW i \in 1..Len(Tail(q)), Telemetry(Tail(q)[i])
      PROVE  Head(q).seq <= Tail(q)[i].seq
  <2>1. i + 1 \in 1..Len(q) /\ 1 < i + 1 /\ Tail(q)[i] = q[i + 1]
    BY <1>2
  <2>2. QED BY <1>1, <1>5, <2>1 DEF Rising
<1>6. Telemetry(Head(q)) => Head(q).seq \in lo..hi
  BY <1>1 DEF Rising
<1>7. QED BY <1>3, <1>4, <1>5, <1>6 DEF Rising

\* Sending the newest telemetry, or a frame of another kind, to some clients
\* leaves every channel in order.
LEMMA OfferRising ==
  ASSUME FeedInv, NEW C \in SUBSET Clients, NEW f \in Frames, NEW who, Offer(C, f, who),
         NEW top \in Nat, lastFrame.seq <= top, Telemetry(f) => f.seq = top
  PROVE  \A c \in Clients : Rising(send'[c], view[c].seq, top)
<1> TAKE c \in Clients
<1>1. /\ send[c] \in Seq(Frames) /\ view[c].seq \in Nat /\ lastFrame.seq \in Nat
      /\ view[c].seq <= lastFrame.seq /\ Rising(send[c], view[c].seq, lastFrame.seq)
  BY DEF FeedInv, TypeOK, Frames
<1>2. Rising(send[c], view[c].seq, top) /\ Rising(Append(send[c], f), view[c].seq, top)
  BY <1>1, RisingSent
<1>3. send'[c] = send[c] \/ send'[c] = Append(send[c], f)
  BY DEF Offer
<1>4. QED BY <1>2, <1>3

-----------------------------------------------------------------------------
(* The invariant.                                                           *)

LEMMA InitFeedInv == Init => FeedInv
<1> SUFFICES ASSUME Init PROVE FeedInv
  OBVIOUS
<1>1. TypeOK
  BY InitTypeOK
<1>2. lastFrame.seq = 0 /\ seq = 0 /\ \A c \in Clients : view[c].seq = 0 /\ writer[c] = "off"
  BY DEF Init, NoFrame, Frame
<1>3. \A c \in Clients : Rising(send[c], 0, 0)
  BY DEF Init, Rising
<1>4. QED BY <1>1, <1>2, <1>3 DEF FeedInv

\* A step that shows nothing, publishes nothing and sends nothing but shorter
\* queues.
Quiet ==
  /\ UNCHANGED <<lastFrame, view>> /\ seq' >= seq
  /\ \A c \in Clients : \/ send'[c] = send[c]
                        \/ send[c] # <<>> /\ send'[c] = Tail(send[c])
  /\ \A c \in Clients : writer'[c] # "off" => conn'[c] # "none"

LEMMA QuietFeedInv == FeedInv /\ TypeOK' /\ Quiet => FeedInv'
<1> SUFFICES ASSUME FeedInv, TypeOK', Quiet PROVE FeedInv'
  OBVIOUS
<1> USE DEF Quiet
<1>1. lastFrame'.seq <= seq'
  BY FrameNumber DEF FeedInv, TypeOK
<1>2. ASSUME NEW c \in Clients PROVE Rising(send'[c], view[c].seq, lastFrame.seq)
  <2>1. /\ send[c] \in Seq(Frames) /\ view[c].seq \in Nat /\ lastFrame.seq \in Nat
        /\ Rising(send[c], view[c].seq, lastFrame.seq)
    BY FrameNumber DEF FeedInv, TypeOK
  <2>2. QED BY <2>1, RisingReceived
<1>3. QED BY <1>1, <1>2 DEF FeedInv, Rising, Telemetry

\* Run's cases send the frame they cache, the one they have cached, or a frame
\* that is no telemetry.
LEMMA HubFeedInv == FeedInv /\ HubNext => FeedInv'
<1> SUFFICES ASSUME FeedInv, HubNext PROVE FeedInv'
  OBVIOUS
<1> USE DEF channelVars, queueVars, runVars, sendVars, pumpVars, HubUnchanged
<1>t. TypeOK /\ TypeOK'
  BY HubTypeOK DEF FeedInv
<1>n. lastFrame.seq \in Nat /\ seq \in Nat /\ lastFrame.seq <= seq /\ clients \in SUBSET Clients
      /\ lastFrame \in Frames
  BY <1>t, FrameNumber DEF FeedInv, TypeOK
<1>c. UNCHANGED <<view, writer, conn>>
  BY DEF HubNext, AdmitClient, RejectClient, HandleUnregister, HandleResync, SuppressSnapshot,
         BroadcastSnapshot, Heartbeat, HubStops, BroadcastSample
<1>w. \A c \in Clients : writer'[c] # "off" => conn'[c] # "none"
  BY <1>c DEF FeedInv
<1>1. CASE RejectClient \/ HandleUnregister \/ SuppressSnapshot \/ HubStops
  <2>1. UNCHANGED <<lastFrame, seq, send>>
    BY <1>1 DEF RejectClient, HandleUnregister, SuppressSnapshot, HubStops
  <2>2. Quiet
    BY <1>n, <1>c, <1>w, <2>1 DEF Quiet
  <2>3. QED BY <1>t, <2>2, QuietFeedInv
<1>2. CASE AdmitClient \/ HandleResync
  <2>1. PICK C, who : Offer(C, lastFrame, who) /\ C \in SUBSET Clients
    <3>1. CASE AdmitClient
      <4>1. Head(register) \in Clients
        BY <1>t, <3>1, Received DEF AdmitClient, TypeOK
      <4>2. QED BY <3>1, <4>1 DEF AdmitClient, Replay
    <3>2. CASE HandleResync
      <4>1. Head(resync) \in Clients
        BY <1>t, <3>2, Received DEF HandleResync, TypeOK
      <4>2. QED BY <3>2, <4>1 DEF HandleResync, Replay
    <3>3. QED BY <1>2, <3>1, <3>2
  <2>2. \A c \in Clients : Rising(send'[c], view[c].seq, lastFrame.seq)
    BY <1>n, <2>1, OfferRising
  <2>3. UNCHANGED <<lastFrame, seq>>
    BY <1>2 DEF AdmitClient, HandleResync
  <2>4. \A c \in Clients : view[c].seq <= lastFrame.seq
    BY DEF FeedInv
  <2>5. lastFrame'.seq <= seq' /\ \A c \in Clients : view'[c].seq <= lastFrame'.seq
    BY <1>n, <1>c, <2>3, <2>4
  <2>6. \A c \in Clients : Rising(send'[c], view'[c].seq, lastFrame'.seq)
    BY <1>c, <2>2, <2>3
  <2>7. QED BY <1>t, <1>w, <2>5, <2>6 DEF FeedInv
<1>3. ASSUME NEW f \in Frames, Broadcast(f), f.seq = seq + 1 PROVE FeedInv'
  <2>1. DEFINE top == IF Telemetry(f) THEN f.seq ELSE lastFrame.seq
  <2>2. top \in Nat /\ lastFrame.seq <= top /\ (Telemetry(f) => f.seq = top)
        /\ top <= seq + 1 /\ seq' = seq + 1
    BY <1>3, <1>n DEF Broadcast
  <2>3. lastFrame'.seq = top
    BY <1>3 DEF Broadcast, Cached
  <2>4. Offer(clients, f, "broadcast")
    BY <1>3 DEF Broadcast
  <2> HIDE DEF top
  <2>5. \A c \in Clients : Rising(send'[c], view[c].seq, top)
    BY <1>n, <2>2, <2>4, OfferRising
  <2>6. \A c \in Clients : view[c].seq \in Nat /\ view[c].seq <= lastFrame.seq
    BY <1>t, FrameNumber DEF FeedInv, TypeOK
  <2>7. QED BY <1>t, <1>n, <1>c, <1>w, <2>2, <2>3, <2>5, <2>6 DEF FeedInv
<1>4. CASE BroadcastSnapshot
  <2>1. Head(snapIn) \in Snapshots
    BY <1>4, <1>t, Received DEF BroadcastSnapshot, TypeOK
  <2>2. Frame("telemetry", seq + 1, Head(snapIn)) \in Frames
    BY <1>n, <2>1, FrameTypesOK
  <2>3. QED BY <1>3, <1>4, <2>2 DEF BroadcastSnapshot, Frame
<1>5. CASE Heartbeat
  <2>1. Frame("heartbeat", seq + 1, None) \in Frames
    BY <1>n, FrameTypesOK
  <2>2. Frame("heartbeat", seq + 1, None).seq = seq + 1
    BY DEF Frame
  <2>3. Broadcast(Frame("heartbeat", seq + 1, None))
    BY <1>5 DEF Heartbeat
  <2>4. QED BY <1>3, <2>1, <2>2, <2>3
<1>6. ASSUME NEW k \in SampleKinds, BroadcastSample(k) PROVE FeedInv'
  <2>1. Frame(k, seq + 1, None) \in Frames
    BY <1>n, FrameTypesOK, HubConstants
  <2>2. Frame(k, seq + 1, None).seq = seq + 1
    BY DEF Frame
  <2>3. Broadcast(Frame(k, seq + 1, None))
    BY <1>6 DEF BroadcastSample
  <2>4. QED BY <1>3, <2>1, <2>2, <2>3
<1>7. QED BY <1>1, <1>2, <1>4, <1>5, <1>6 DEF HubNext

\* What a connection's own goroutines do to its channel: acks are appended,
\* and the writer shows what it takes off the front.
LEMMA ConnectionFeedInv ==
  ASSUME FeedInv, NEW c \in Clients, ServeWS(c) \/ Disconnect(c) \/ WriterNext(c) \/ ReaderNext(c)
  PROVE  FeedInv'
<1> USE DEF channelVars, queueVars, runVars, sendVars, pumpVars
<1>t. TypeOK /\ TypeOK'
  BY ConnectionTypeOK DEF FeedInv
<1>n. lastFrame.seq \in Nat /\ seq \in Nat /\ lastFrame.seq <= seq
  BY <1>t, FrameNumber DEF FeedInv, TypeOK
<1>c. UNCHANGED <<lastFrame, seq>>
  BY DEF ServeWS, Disconnect, WriterNext, WriterSends, WriterFails, WriterHangsUp, WriterStops,
         ReaderNext, ReaderRefuses, ReaderPassesGate, ReaderSubmits, ReaderAsksResync, ReaderExits
<1>w. \A d \in Clients : writer'[d] # "off" => conn'[d] # "none"
  <2>1. CASE ServeWS(c)
    BY <2>1, <1>t DEF ServeWS, FeedInv, TypeOK
  <2>2. CASE Disconnect(c) \/ WriterNext(c)
    <3>1. UNCHANGED writer \/ writer' = [writer EXCEPT ![c] = "done"]
      BY <2>2 DEF Disconnect, WriterNext, WriterSends, WriterFails, WriterHangsUp, WriterStops
    <3>2. UNCHANGED conn \/ conn' = [conn EXCEPT ![c] = "closed"]
      BY <2>2 DEF Disconnect, WriterNext, WriterSends, WriterFails, WriterHangsUp, WriterStops
    <3>3. conn[c] # "none"
      BY <2>2, <1>t DEF Disconnect, WriterNext, WriterSends, WriterFails, WriterHangsUp, WriterRuns, FeedInv
    <3>4. QED BY <3>1, <3>2, <3>3, <1>t DEF FeedInv, TypeOK
  <2>3. CASE ReaderNext(c)
    <3>1. UNCHANGED <<writer, conn>>
      BY <2>3 DEF ReaderNext, ReaderRefuses, ReaderPassesGate, ReaderSubmits, ReaderAsksResync,
                  ReaderExits
    <3>2. QED BY <3>1 DEF FeedInv
  <2>4. QED BY <2>1, <2>2, <2>3
<1>1. CASE WriterSends(c)
  <2>1. /\ send[c] # <<>> /\ send[c] \in Seq(Frames) /\ Rising(send[c], view[c].seq, lastFrame.seq)
        /\ view[c].seq \in Nat
        /\ \A d \in Clients : view[d].seq <= lastFrame.seq /\ Rising(send[d], view[d].seq, lastFrame.seq)
    BY <1>1, <1>t, FrameNumber DEF WriterSends, FeedInv, TypeOK
  <2>2. /\ send' = [send EXCEPT ![c] = Tail(@)]
        /\ view' = [view EXCEPT ![c] = IF Telemetry(Head(send[c])) THEN Head(send[c]) ELSE @]
    BY <1>1 DEF WriterSends
  <2>3. /\ send'[c] = Tail(send[c])
        /\ view'[c] = IF Telemetry(Head(send[c])) THEN Head(send[c]) ELSE view[c]
        /\ \A d \in Clients \ {c} : send'[d] = send[d] /\ view'[d] = view[d]
    BY <2>2, <1>t DEF TypeOK
  <2>4. /\ Rising(Tail(send[c]), view[c].seq, lastFrame.seq)
        /\ Telemetry(Head(send[c])) => /\ Rising(Tail(send[c]), Head(send[c]).seq, lastFrame.seq)
                                       /\ Head(send[c]).seq \in view[c].seq..lastFrame.seq
    BY <2>1, <1>n, RisingReceived
  <2>5. \A d \in Clients : /\ view'[d].seq <= lastFrame.seq
                           /\ Rising(send'[d], view'[d].seq, lastFrame.seq)
    <3> TAKE d \in Clients
    <3>1. CASE d # c
      BY <2>1, <2>3, <3>1
    <3>2. CASE d = c /\ Telemetry(Head(send[c]))
      BY <2>3, <2>4, <1>n, <3>2
    <3>3. CASE d = c /\ ~Telemetry(Head(send[c]))
      BY <2>1, <2>3, <2>4, <3>3
    <3>4. QED BY <3>1, <3>2, <3>3
  <2>6. QED BY <1>t, <1>n, <1>c, <1>w, <2>5 DEF FeedInv
<1>2. CASE \/ \E m \in Requests : ReaderRefuses(c, m)
           \/ ReaderSubmits(c)
  <2>1. PICK ok \in BOOLEAN : Offer({c}, Ack(ok), "ack")
    BY <1>2 DEF ReaderRefuses, ReaderSubmits, Submit
  <2>2. Ack(ok) \in Frames /\ ~Telemetry(Ack(ok)) /\ {c} \in SUBSET Clients
    BY FrameTypesOK DEF Ack, Frame, Telemetry
  <2> DEFINE top == lastFrame.seq
  <2>t. top \in Nat /\ lastFrame.seq <= top
    BY <1>n
  <2>3. \A d \in Clients : Rising(send'[d], view[d].seq, top)
    <3> HIDE DEF top
    <3> QED BY <2>1, <2>2, <2>t, OfferRising
  <2>4. view' = view
    BY <1>2 DEF ReaderRefuses, ReaderSubmits
  <2>5. \A d \in Clients : view[d].seq <= lastFrame.seq
    BY DEF FeedInv
  <2>6. lastFrame'.seq <= seq' /\ \A d \in Clients : view'[d].seq <= lastFrame'.seq
    BY <1>n, <1>c, <2>4, <2>5
  <2>7. \A d \in Clients : Rising(send'[d], view'[d].seq, lastFrame'.seq)
    BY <1>c, <2>3, <2>4
  <2>8. QED BY <1>t, <1>w, <2>6, <2>7 DEF FeedInv
<1>3. CASE \/ ServeWS(c) \/ Disconnect(c) \/ WriterFails(c) \/ WriterHangsUp(c)
           \/ \E m \in Requests : ReaderPassesGate(c, m)
           \/ ReaderAsksResync(c) \/ ReaderExits(c)
  <2>1. view' = view /\ (send' = send \/ (send[c] # <<>> /\ send' = [send EXCEPT ![c] = Tail(@)]))
    BY <1>3 DEF ServeWS, Disconnect, WriterFails, WriterHangsUp, WriterStops, ReaderPassesGate,
                ReaderAsksResync, ReaderExits
  <2>2. \A d \in Clients : \/ send'[d] = send[d]
                           \/ send[d] # <<>> /\ send'[d] = Tail(send[d])
    <3>1. send \in [Clients -> Seq(Frames)]
      BY <1>t DEF TypeOK
    <3>2. CASE send' = send
      BY <3>2
    <3>3. CASE send[c] # <<>> /\ send' = [send EXCEPT ![c] = Tail(@)]
      BY <3>1, <3>3
    <3>4. QED BY <2>1, <3>2, <3>3
  <2>3. Quiet
    BY <1>n, <1>c, <1>w, <2>1, <2>2 DEF Quiet
  <2>4. QED BY <1>t, <2>3, QuietFeedInv
<1>4. QED BY <1>1, <1>2, <1>3 DEF WriterNext, ReaderNext

LEMMA StepFeedInv == FeedInv /\ [Next]_vars => FeedInv'
<1> SUFFICES ASSUME FeedInv, [Next]_vars PROVE FeedInv'
  OBVIOUS
<1> USE DEF channelVars, queueVars, runVars, sendVars, pumpVars
<1>1. CASE UNCHANGED vars \/ EnvNext
  <2>1. UNCHANGED <<lastFrame, view, seq, send, writer, conn>>
    BY <1>1 DEF vars, EnvNext, SourceEmits, SourceEmitsSample, HeartbeatElapses, Cancel
  <2>2. TypeOK' /\ seq \in Nat
    BY StepTypeOK DEF FeedInv, TypeOK
  <2>3. Quiet
    BY <2>1, <2>2 DEF FeedInv, Quiet
  <2>4. QED BY <2>2, <2>3, QuietFeedInv
<1>2. QED BY <1>1, HubFeedInv, ConnectionFeedInv DEF Next

LEMMA FeedInvariant == Spec => []FeedInv
BY InitFeedInv, StepFeedInv, PTL DEF Spec

-----------------------------------------------------------------------------
(* The refinement.                                                          *)

Showing == [c \in Clients |-> view[c].seq]
Phase == [c \in Clients |-> CASE conn[c] = "none" -> "away"
                              [] conn[c] = "open" -> "watching"
                              [] OTHER            -> "gone"]

LEMMA InitFeed == Init => Display!FeedInit
BY DEF Init, NoFrame, Frame, Display!FeedInit

\* Run publishes with a telemetry broadcast and with nothing else.
LEMMA HubFeed ==
  ASSUME FeedInv, HubNext \/ EnvNext \/ UNCHANGED vars
  PROVE  Display!Publish \/ UNCHANGED <<lastFrame, view, conn>>
<1> USE DEF channelVars, queueVars, runVars, sendVars, pumpVars, HubUnchanged
<1>1. CASE BroadcastSnapshot
  <2>1. lastFrame.seq <= seq /\ lastFrame.seq \in Nat /\ seq \in Nat
    BY FrameNumber DEF FeedInv, TypeOK
  <2>2. lastFrame'.seq = seq + 1 /\ UNCHANGED <<view, conn>>
    BY <1>1 DEF BroadcastSnapshot, Broadcast, Cached, Frame, Telemetry
  <2>3. QED BY <2>1, <2>2 DEF Display!Publish
<1>2. CASE Heartbeat \/ \E k \in SampleKinds : BroadcastSample(k)
  BY <1>2, HubConstants DEF Heartbeat, BroadcastSample, Broadcast, Cached, Frame, Telemetry
<1>3. CASE ~BroadcastSnapshot /\ ~Heartbeat /\ ~ \E k \in SampleKinds : BroadcastSample(k)
  BY <1>3 DEF HubNext, AdmitClient, RejectClient, HandleUnregister, HandleResync, SuppressSnapshot,
              HubStops, vars, EnvNext, SourceEmits, SourceEmitsSample, HeartbeatElapses, Cancel
<1>4. QED BY <1>1, <1>2, <1>3

LEMMA ConnectionFeed ==
  ASSUME FeedInv, NEW c \in Clients, ServeWS(c) \/ Disconnect(c) \/ WriterNext(c) \/ ReaderNext(c)
  PROVE  Display!Arrive(c) \/ Display!Show(c) \/ Display!Leave(c) \/ UNCHANGED <<lastFrame, view, conn>>
<1> USE DEF channelVars, queueVars, runVars, sendVars, pumpVars
<1>t. /\ TypeOK /\ conn \in [Clients -> {"none", "open", "closed"}] /\ view \in [Clients -> Frames]
      /\ writer[c] # "off" => conn[c] # "none"
  BY DEF FeedInv, TypeOK
<1>1. CASE ServeWS(c)
  <2>1. PICK p \in {"open", "closed"} : conn' = [conn EXCEPT ![c] = p]
    BY <1>1 DEF ServeWS
  <2>2. UNCHANGED <<lastFrame, view>> /\ conn[c] = "none"
    BY <1>1 DEF ServeWS
  <2>3. PICK q \in {"watching", "gone"} : Phase' = [Phase EXCEPT ![c] = q]
    <3>1. CASE p = "open"
      BY <1>t, <2>1, <2>2, <3>1 DEF Phase
    <3>2. CASE p = "closed"
      BY <1>t, <2>1, <2>2, <3>2 DEF Phase
    <3>3. QED BY <3>1, <3>2
  <2>4. Phase[c] = "away"
    BY <2>2 DEF Phase
  <2>5. QED BY <2>2, <2>3, <2>4 DEF Display!Arrive, Phase
<1>2. CASE Disconnect(c) \/ WriterFails(c) \/ WriterHangsUp(c)
  <2>1. UNCHANGED <<lastFrame, view>> /\ conn' = [conn EXCEPT ![c] = "closed"] /\ conn[c] # "none"
    BY <1>2, <1>t DEF Disconnect, WriterFails, WriterHangsUp, WriterStops, WriterRuns
  <2>2. CASE conn[c] = "open"
    <3>1. Phase' = [Phase EXCEPT ![c] = "gone"] /\ Phase[c] = "watching"
      BY <1>t, <2>1, <2>2 DEF Phase
    <3>2. QED BY <2>1, <3>1 DEF Display!Leave, Phase
  <2>3. CASE conn[c] = "closed"
    BY <1>t, <2>1, <2>3
  <2>4. QED BY <1>t, <2>1, <2>2, <2>3
<1>3. CASE WriterSends(c)
  <2>1. send[c] # <<>> /\ conn[c] = "open" /\ UNCHANGED <<lastFrame, conn>>
        /\ view' = [view EXCEPT ![c] = IF Telemetry(Head(send[c])) THEN Head(send[c]) ELSE @]
    BY <1>3 DEF WriterSends
  <2>2. CASE Telemetry(Head(send[c]))
    <3>1. Head(send[c]).seq \in view[c].seq..lastFrame.seq
      <4>1. send[c] \in Seq(Frames) /\ view[c].seq \in Nat /\ lastFrame.seq \in Nat
            /\ Rising(send[c], view[c].seq, lastFrame.seq)
        BY FrameNumber DEF FeedInv, TypeOK
      <4>2. QED BY <2>1, <2>2, <4>1, RisingReceived
    <3>2. Showing' = [Showing EXCEPT ![c] = Head(send[c]).seq] /\ Phase[c] = "watching" /\ Phase' = Phase
      BY <1>t, <2>1, <2>2 DEF Showing, Phase
    <3>3. Showing[c] = view[c].seq
      BY DEF Showing
    <3>4. QED BY <2>1, <3>1, <3>2, <3>3 DEF Display!Show, Showing, Phase
  <2>3. CASE ~Telemetry(Head(send[c]))
    BY <1>t, <2>1, <2>3
  <2>4. QED BY <2>2, <2>3
<1>4. CASE ReaderNext(c)
  BY <1>4 DEF ReaderNext, ReaderRefuses, ReaderPassesGate, ReaderSubmits, ReaderAsksResync, ReaderExits
<1>5. QED BY <1>1, <1>2, <1>3, <1>4 DEF WriterNext

LEMMA StepFeed == FeedInv /\ [Next]_vars => [Display!FeedNext]_(Display!feedVars)
<1> SUFFICES ASSUME FeedInv, [Next]_vars
             PROVE  Display!FeedNext \/ UNCHANGED Display!feedVars
  OBVIOUS
<1>1. UNCHANGED <<lastFrame, view, conn>> => UNCHANGED Display!feedVars
  BY DEF Display!feedVars
<1>2. CASE HubNext \/ EnvNext \/ UNCHANGED vars
  BY <1>1, <1>2, HubFeed DEF Display!FeedNext
<1>3. ASSUME NEW c \in Clients, ServeWS(c) \/ Disconnect(c) \/ WriterNext(c) \/ ReaderNext(c)
      PROVE  Display!FeedNext \/ UNCHANGED Display!feedVars
  BY <1>1, <1>3, ConnectionFeed DEF Display!FeedNext
<1>4. QED BY <1>2, <1>3 DEF Next

\* For any number of connections, any capacities and any snapshots, whatever
\* is lost on the way, the hub implements the abstract feed.
THEOREM HubImplementsFeed == Spec => ImplementsFeed
BY InitFeed, FeedInvariant, StepFeed, PTL DEF Spec, ImplementsFeed, Display!FeedSpec

-----------------------------------------------------------------------------
(* Every client that lost no telemetry has the last broadcast.              *)

\* Once q is drained on to a screen that shows v, the screen shows f.
Brings(q, v, f) ==
  \/ v = f /\ \A i \in 1..Len(q) : ~Telemetry(q[i])
  \/ \E i \in 1..Len(q) : q[i] = f /\ \A j \in 1..Len(q) : i < j => ~Telemetry(q[j])

Served(c) == c \in clients /\ writer[c] = "running" /\ lastFrame # NoFrame /\ ~lagging[c]

SyncInv ==
  /\ LifeInv
  /\ lastFrame # NoFrame => Telemetry(lastFrame)
  /\ \A c \in Clients : Served(c) => Brings(send[c], view[c], lastFrame)

LEMMA BringsSent ==
  ASSUME NEW q \in Seq(Frames), NEW f \in Frames, NEW v, NEW l
  PROVE  /\ Brings(Append(q, f), v, f)
         /\ ~Telemetry(f) /\ Brings(q, v, l) => Brings(Append(q, f), v, l)
<1>1. /\ Len(Append(q, f)) = Len(q) + 1 /\ Len(q) \in Nat
      /\ \A i \in 1..Len(q) : Append(q, f)[i] = q[i]
      /\ Append(q, f)[Len(q) + 1] = f
      /\ 1..(Len(q) + 1) = 1..Len(q) \cup {Len(q) + 1}
  OBVIOUS
<1>2. Brings(Append(q, f), v, f)
  BY <1>1 DEF Brings
<1>3. ASSUME ~Telemetry(f), Brings(q, v, l) PROVE Brings(Append(q, f), v, l)
  BY <1>1, <1>3 DEF Brings
<1>4. QED BY <1>2, <1>3

LEMMA BringsReceived ==
  ASSUME NEW q \in Seq(Frames), q # <<>>, NEW v, NEW l, Telemetry(l), Brings(q, v, l)
  PROVE  Brings(Tail(q), IF Telemetry(Head(q)) THEN Head(q) ELSE v, l)
<1>1. /\ Head(q) = q[1] /\ 1 \in 1..Len(q) /\ Len(Tail(q)) = Len(q) - 1 /\ Len(q) \in Nat
      /\ \A i \in 1..Len(Tail(q)) : i + 1 \in 1..Len(q) /\ Tail(q)[i] = q[i + 1]
  OBVIOUS
<1>2. CASE v = l /\ \A i \in 1..Len(q) : ~Telemetry(q[i])
  BY <1>1, <1>2 DEF Brings
<1>3. ASSUME NEW i \in 1..Len(q), q[i] = l, \A j \in 1..Len(q) : i < j => ~Telemetry(q[j])
      PROVE  Brings(Tail(q), IF Telemetry(Head(q)) THEN Head(q) ELSE v, l)
  <2>1. CASE i = 1
    BY <1>1, <1>3, <2>1 DEF Brings
  <2>2. CASE i # 1
    <3>1. i - 1 \in 1..Len(Tail(q)) /\ Tail(q)[i - 1] = l
      BY <1>1, <1>3, <2>2
    <3>2. \A j \in 1..Len(Tail(q)) : i - 1 < j => ~Telemetry(Tail(q)[j])
      BY <1>1, <1>3
    <3>3. QED BY <3>1, <3>2 DEF Brings
  <2>3. QED BY <2>1, <2>2
<1>4. QED BY <1>2, <1>3 DEF Brings

LEMMA BringsNewest ==
  ASSUME TypeOK, NEW c \in Clients, Telemetry(lastFrame), Brings(send[c], view[c], lastFrame)
  PROVE  Newest(c) = lastFrame
<1> DEFINE queued == {i \in 1..Len(send[c]) : Telemetry(send[c][i])}
<1>1. CASE view[c] = lastFrame /\ \A i \in 1..Len(send[c]) : ~Telemetry(send[c][i])
  <2>1. queued = {}
    BY <1>1
  <2>2. QED BY <1>1, <2>1 DEF Newest
<1>2. ASSUME NEW i \in 1..Len(send[c]), send[c][i] = lastFrame,
             \A j \in 1..Len(send[c]) : i < j => ~Telemetry(send[c][j])
      PROVE  Newest(c) = lastFrame
  <2>1. Len(send[c]) \in Nat
    BY DEF TypeOK
  <2>2. i \in queued /\ \A j \in queued : j <= i
    BY <1>2, <2>1
  <2>3. (CHOOSE k \in queued : \A j \in queued : j <= k) = i
    <3>1. \A k \in queued : (\A j \in queued : j <= k) => k = i
      BY <2>1, <2>2
    <3>2. QED BY <2>2, <3>1
  <2>4. QED BY <1>2, <2>2, <2>3 DEF Newest
<1>3. QED BY <1>1, <1>2 DEF Brings

\* What a send leaves of a client's standing.
LEMMA OfferServes ==
  ASSUME TypeOK, NEW C \in SUBSET Clients, NEW f \in Frames, NEW who, Offer(C, f, who)
  PROVE  \A c \in Clients :
           /\ send'[c] \in {send[c], Append(send[c], f)}
           /\ ~lagging'[c] /\ (c \notin C \/ ~Telemetry(f)) => ~lagging[c]
           /\ c \notin C => send'[c] = send[c]
           /\ ~lagging'[c] /\ Telemetry(f) /\ c \in C /\ (\A d \in C : ~closed[d])
                => send'[c] = Append(send[c], f)
<1>1. CASE \E c \in C : closed[c]
  BY <1>1 DEF Offer
<1>2. CASE ~ \E c \in C : closed[c]
  <2> TAKE c \in Clients
  <2>1. send'[c] = IF c \in C /\ Len(send[c]) < SendBuffer THEN Append(send[c], f) ELSE send[c]
    BY <1>2 DEF Offer
  <2>2. lagging'[c] = IF c \in C /\ Telemetry(f) THEN Len(send[c]) >= SendBuffer ELSE lagging[c]
    BY <1>2 DEF Offer
  <2>3. Len(send[c]) \in Nat /\ SendBuffer \in Nat
    BY HubConstants DEF TypeOK
  <2>4. send'[c] \in {send[c], Append(send[c], f)} /\ (c \notin C => send'[c] = send[c])
    BY <2>1
  <2>5. c \notin C \/ ~Telemetry(f) => lagging'[c] = lagging[c]
    BY <2>2
  <2>6. ASSUME ~lagging'[c], Telemetry(f), c \in C PROVE Len(send[c]) < SendBuffer
    <3>1. lagging'[c] = (Len(send[c]) >= SendBuffer)
      BY <2>2, <2>6
    <3>2. ~(Len(send[c]) >= SendBuffer)
      BY <2>6, <3>1, Zenon
    <3>3. QED BY <2>3, <3>2
  <2>7. QED BY <2>1, <2>4, <2>5, <2>6
<1>3. QED BY <1>1, <1>2

LEMMA StepSync == SyncInv /\ [Next]_vars => SyncInv'
<1> SUFFICES ASSUME SyncInv, [Next]_vars PROVE SyncInv'
  OBVIOUS
<1> USE DEF channelVars, queueVars, runVars, sendVars, pumpVars, HubUnchanged
<1>t. LifeInv /\ LifeInv' /\ TypeOK /\ TypeOK' /\ ClientLifecycle
  BY StepLife DEF SyncInv, LifeInv
<1>f. lastFrame \in Frames /\ clients \in SUBSET Clients /\ send \in [Clients -> Seq(Frames)]
  BY <1>t DEF TypeOK
\* A frame that is no telemetry, or none, goes to some clients.
<1>1. ASSUME UNCHANGED <<lastFrame, view>>,
             \A c \in Clients : Served(c)' => Served(c),
             \A c \in Clients : \/ send'[c] = send[c]
                                \/ \E f \in Frames : ~Telemetry(f) /\ send'[c] = Append(send[c], f)
      PROVE  SyncInv'
  <2>1. ASSUME NEW c \in Clients, Served(c)' PROVE Brings(send'[c], view[c], lastFrame)
    BY <1>1, <1>f, <2>1, BringsSent DEF SyncInv
  <2>2. QED BY <1>t, <1>1, <2>1 DEF SyncInv
\* The last broadcast is sent again.
<1>2. ASSUME NEW C \in SUBSET Clients, NEW who, Offer(C, lastFrame, who), UNCHANGED <<lastFrame, view, writer>>,
             lastFrame = NoFrame => C = {}, \A c \in C : ~closed[c] \/ c \in clients,
             \A c \in Clients : c \in clients' => c \in clients \/ lastFrame = NoFrame \/ (c \in C /\ \A d \in C : ~closed[d])
      PROVE  SyncInv'
  <2>1. ASSUME NEW c \in Clients, Served(c)' PROVE Brings(send'[c], view[c], lastFrame)
    <3>1. c \in clients' /\ writer[c] = "running" /\ lastFrame # NoFrame /\ ~lagging'[c] /\ Telemetry(lastFrame)
      BY <1>2, <2>1 DEF Served, SyncInv
    <3>2. CASE send'[c] = Append(send[c], lastFrame)
      BY <1>f, <3>2, BringsSent
    <3>3. CASE send'[c] # Append(send[c], lastFrame)
      <4>1. send'[c] = send[c] /\ ~(c \in C /\ \A d \in C : ~closed[d])
        BY <1>2, <1>t, <1>f, <3>1, <3>3, OfferServes
      <4>2. c \in clients /\ ~lagging[c]
        <5>1. c \in clients
          BY <1>2, <3>1, <4>1
        <5>2. CASE \E d \in C : closed[d]
          BY <1>2, <3>1, <5>2 DEF Offer
        <5>3. CASE ~ \E d \in C : closed[d]
          BY <1>2, <1>t, <1>f, <3>1, <4>1, <5>3, OfferServes
        <5>4. QED BY <5>1, <5>2, <5>3
      <4>3. QED BY <3>1, <4>1, <4>2 DEF Served, SyncInv
    <3>4. QED BY <3>2, <3>3
  <2>2. QED BY <1>t, <1>2, <2>1 DEF SyncInv
<1>3. CASE AdmitClient
  <2> DEFINE h == Head(register)
  <2>1. h \in Clients /\ ~closed[h]
    BY <1>3, <1>t, Received DEF AdmitClient, TypeOK, ClientLifecycle
  <2>2. Offer(Replay(h), lastFrame, "admit") /\ Replay(h) = (IF lastFrame = NoFrame THEN {} ELSE {h})
    BY <1>3 DEF AdmitClient, Replay
  <2>3. UNCHANGED <<lastFrame, view, writer>> /\ clients' = clients \cup {h}
    BY <1>3 DEF AdmitClient
  <2>4. QED BY <1>2, <2>1, <2>2, <2>3
<1>4. CASE HandleResync
  <2> DEFINE h == Head(resync)
  <2>1. h \in Clients
    BY <1>4, <1>t, Received DEF HandleResync, TypeOK
  <2>2. Offer(Replay(h), lastFrame, "resync") /\ Replay(h) = (IF lastFrame = NoFrame THEN {} ELSE {h})
    BY <1>4 DEF HandleResync, Replay
  <2>3. UNCHANGED <<lastFrame, view, writer, clients>>
    BY <1>4 DEF HandleResync
  <2>4. CASE closed[h]
    <3>1. lastFrame # NoFrame => send' = send /\ lagging' = lagging
      BY <2>2, <2>4 DEF Offer
    <3>2. lastFrame = NoFrame => \A c \in Clients : ~Served(c)'
      BY <2>3 DEF Served
    <3>3. QED BY <1>t, <2>3, <3>1, <3>2 DEF SyncInv, Served
  <2>5. CASE ~closed[h]
    BY <1>2, <2>1, <2>2, <2>3, <2>5
  <2>6. QED BY <2>4, <2>5
<1>5. CASE BroadcastSnapshot
  <2> DEFINE f == Frame("telemetry", seq + 1, Head(snapIn))
  <2>1. f \in Frames /\ Telemetry(f) /\ f # NoFrame
    <3>1. Head(snapIn) \in Snapshots /\ seq \in Nat
      BY <1>5, <1>t, Received DEF BroadcastSnapshot, TypeOK
    <3>2. QED BY <3>1, FrameTypesOK DEF Frame, Telemetry, NoFrame
  <2>2. Offer(clients, f, "broadcast") /\ lastFrame' = f /\ UNCHANGED <<clients, writer, view>>
    BY <1>5, <2>1 DEF BroadcastSnapshot, Broadcast, Cached
  <2>3. \A c \in clients : ~closed[c]
    BY <1>5, <1>t DEF BroadcastSnapshot, ClientLifecycle
  <2> HIDE DEF f
  <2>4. ASSUME NEW c \in Clients, Served(c)' PROVE Brings(send'[c], view[c], f)
    <3>1. c \in clients /\ ~lagging'[c]
      BY <2>2, <2>4 DEF Served
    <3>2. send'[c] = Append(send[c], f)
      BY <1>t, <1>f, <2>1, <2>2, <2>3, <3>1, OfferServes
    <3>3. QED BY <1>f, <2>1, <3>2, BringsSent
  <2>5. QED BY <1>t, <2>1, <2>2, <2>4 DEF SyncInv
<1>6. ASSUME NEW f \in Frames, ~Telemetry(f), NEW C \in SUBSET Clients, NEW who, Offer(C, f, who),
             UNCHANGED <<lastFrame, view, clients, writer>>
      PROVE  SyncInv'
  <2>1. \A c \in Clients : send'[c] \in {send[c], Append(send[c], f)} /\ (~lagging'[c] => ~lagging[c])
    BY <1>6, <1>t, OfferServes
  <2>2. \A c \in Clients : Served(c)' => Served(c)
    BY <1>6, <2>1 DEF Served
  <2>3. QED BY <1>1, <1>6, <2>1, <2>2
<1>7. CASE Heartbeat \/ \E k \in SampleKinds : BroadcastSample(k)
  <2>1. PICK t \in {"heartbeat", "scope", "spectrum"} : Broadcast(Frame(t, seq + 1, None))
    BY <1>7, HubConstants DEF Heartbeat, BroadcastSample
  <2>2. Frame(t, seq + 1, None) \in Frames /\ ~Telemetry(Frame(t, seq + 1, None))
    <3>1. seq + 1 \in Nat
      BY <1>t DEF TypeOK
    <3>2. QED BY <3>1, FrameTypesOK DEF Telemetry, Frame
  <2>3. UNCHANGED <<lastFrame, view, clients, writer>>
    BY <1>7, <2>1, <2>2 DEF Heartbeat, BroadcastSample, Broadcast, Cached
  <2>4. Offer(clients, Frame(t, seq + 1, None), "broadcast")
    BY <2>1 DEF Broadcast
  <2>5. QED BY <1>f, <1>6, <2>2, <2>3, <2>4
<1>8. ASSUME NEW c \in Clients, (\E m \in Requests : ReaderRefuses(c, m)) \/ ReaderSubmits(c)
      PROVE  SyncInv'
  <2>1. PICK ok \in BOOLEAN : Offer({c}, Ack(ok), "ack")
    BY <1>8 DEF ReaderRefuses, ReaderSubmits, Submit
  <2>2. Ack(ok) \in Frames /\ ~Telemetry(Ack(ok)) /\ {c} \in SUBSET Clients
    BY FrameTypesOK DEF Ack, Frame, Telemetry
  <2>3. UNCHANGED <<lastFrame, view, clients, writer>>
    BY <1>8 DEF ReaderRefuses, ReaderSubmits
  <2>4. QED BY <1>6, <2>1, <2>2, <2>3
<1>9. ASSUME NEW c \in Clients, WriterSends(c) PROVE SyncInv'
  <2>1. /\ send[c] # <<>> /\ send' = [send EXCEPT ![c] = Tail(@)]
        /\ view' = [view EXCEPT ![c] = IF Telemetry(Head(send[c])) THEN Head(send[c]) ELSE @]
        /\ UNCHANGED <<clients, writer, lastFrame, lagging>>
    BY <1>9 DEF WriterSends
  <2>2. view \in [Clients -> Frames]
    BY <1>t DEF TypeOK
  <2>3. /\ send'[c] = Tail(send[c])
        /\ view'[c] = IF Telemetry(Head(send[c])) THEN Head(send[c]) ELSE view[c]
        /\ \A d \in Clients \ {c} : send'[d] = send[d] /\ view'[d] = view[d]
    BY <1>f, <2>1, <2>2
  <2>4. ASSUME NEW d \in Clients, Served(d)' PROVE Brings(send'[d], view'[d], lastFrame)
    <3>1. Brings(send[d], view[d], lastFrame) /\ Telemetry(lastFrame)
      BY <2>1, <2>4 DEF Served, SyncInv
    <3>2. CASE d = c
      BY <1>f, <2>1, <2>3, <3>1, <3>2, BringsReceived
    <3>3. CASE d # c
      BY <2>3, <3>1, <3>3
    <3>4. QED BY <3>2, <3>3
  <2>5. QED BY <1>t, <2>1, <2>4 DEF SyncInv
<1>10. ASSUME NEW c \in Clients, WriterFails(c) \/ WriterHangsUp(c) PROVE SyncInv'
  <2>1. /\ UNCHANGED <<clients, view, lastFrame, lagging>>
        /\ writer' = [writer EXCEPT ![c] = "done"]
        /\ \A d \in Clients \ {c} : send'[d] = send[d]
    BY <1>10, <1>f DEF WriterFails, WriterHangsUp, WriterStops
  <2>2. \A d \in Clients : Served(d)' => Served(d) /\ d # c
    BY <1>t, <2>1 DEF Served, TypeOK
  <2>3. QED BY <1>t, <2>1, <2>2 DEF SyncInv
<1>11. ASSUME NEW c \in Clients, ServeWS(c) PROVE SyncInv'
  <2>1. c \notin clients
    BY <1>11, <1>t DEF ServeWS, ClientLifecycle
  <2>2. /\ UNCHANGED <<clients, view, lastFrame, lagging, send>>
        /\ \A d \in Clients \ {c} : writer'[d] = writer[d]
    BY <1>11, <1>t DEF ServeWS, TypeOK
  <2>3. \A d \in Clients : Served(d)' => Served(d)
    BY <2>1, <2>2 DEF Served
  <2>4. QED BY <1>1, <2>2, <2>3
<1>12. ASSUME UNCHANGED <<view, lastFrame, lagging, send, writer>>, clients' \subseteq clients
       PROVE  SyncInv'
  BY <1>1, <1>12 DEF Served
<1>13. CASE EnvNext \/ UNCHANGED vars
  BY <1>12, <1>13 DEF EnvNext, vars, SourceEmits, SourceEmitsSample, HeartbeatElapses, Cancel
<1>14. CASE RejectClient \/ HandleUnregister \/ SuppressSnapshot \/ HubStops
  BY <1>12, <1>14 DEF RejectClient, HandleUnregister, SuppressSnapshot, HubStops
<1>15. ASSUME NEW c \in Clients, \/ Disconnect(c) \/ ReaderAsksResync(c) \/ ReaderExits(c)
                                 \/ \E m \in Requests : ReaderPassesGate(c, m)
       PROVE  SyncInv'
  BY <1>12, <1>15 DEF Disconnect, ReaderAsksResync, ReaderExits, ReaderPassesGate
<1>16. QED BY <1>3, <1>4, <1>5, <1>7, <1>8, <1>9, <1>10, <1>11, <1>13, <1>14, <1>15
           DEF Next, HubNext, WriterNext, ReaderNext

\* For any number of connections, any buffers and any traffic: whoever is
\* served and lost no telemetry shows, or will when its queue is drained, the
\* telemetry broadcast last.
THEOREM ServedStayInSync == Spec => []InSync
<1>1. Init => SyncInv
  BY InitLife DEF Init, SyncInv, Served
<1>2. SyncInv => InSync
  <2> SUFFICES ASSUME SyncInv, NEW c \in clients,
                      writer[c] = "running", lastFrame # NoFrame, ~lagging[c]
               PROVE  Newest(c) = lastFrame
    BY DEF InSync
  <2>1. c \in Clients /\ TypeOK
    BY DEF SyncInv, LifeInv, TypeOK
  <2>2. QED BY <2>1, BringsNewest DEF SyncInv, Served
<1>3. QED BY <1>1, <1>2, StepSync, PTL DEF Spec

-----------------------------------------------------------------------------
(* What may lower the sequence number a peer sees.                          *)

Live(f) == f.type \in {"heartbeat", "scope", "spectrum"}

\* After a peer has seen number got, every live frame of q is numbered no
\* lower than got and than what stands before it in q.
InOrder(q, got, top) ==
  \A i \in 1..Len(q) :
    /\ q[i].seq <= top
    /\ Live(q[i]) => got <= q[i].seq /\ \A j \in 1..Len(q) : j < i => q[j].seq <= q[i].seq

OrderInv ==
  /\ FeedInv /\ ~Live(lastFrame)
  /\ \A c \in Clients : gotSeq[c] <= seq /\ InOrder(send[c], gotSeq[c], seq)

LEMMA InOrderSent ==
  ASSUME NEW q \in Seq(Frames), NEW f \in Frames, NEW got \in Nat, NEW old \in Nat, NEW top \in Nat,
         InOrder(q, got, old), got <= top, old <= top, f.seq <= top, Live(f) => f.seq = top
  PROVE  InOrder(q, got, top) /\ InOrder(Append(q, f), got, top)
<1>1. f.seq \in Nat /\ \A i \in 1..Len(q) : q[i].seq \in Nat
  BY FrameNumber
<1>2. /\ Len(Append(q, f)) = Len(q) + 1 /\ Len(q) \in Nat
      /\ \A i \in 1..Len(q) : Append(q, f)[i] = q[i]
      /\ Append(q, f)[Len(q) + 1] = f
      /\ 1..(Len(q) + 1) = 1..Len(q) \cup {Len(q) + 1}
  OBVIOUS
<1>3. InOrder(q, got, top)
  BY <1>1 DEF InOrder
<1>4. ASSUME NEW i \in 1..(Len(q) + 1)
      PROVE  /\ Append(q, f)[i].seq <= top
             /\ Live(Append(q, f)[i]) => /\ got <= Append(q, f)[i].seq
                                         /\ \A j \in 1..(Len(q) + 1) :
                                              j < i => Append(q, f)[j].seq <= Append(q, f)[i].seq
  <2>1. CASE i \in 1..Len(q)
    BY <1>2, <1>3, <2>1 DEF InOrder
  <2>2. CASE i = Len(q) + 1
    BY <1>2, <1>3, <2>2 DEF InOrder
  <2>3. QED BY <2>1, <2>2
<1>5. QED BY <1>2, <1>3, <1>4 DEF InOrder

LEMMA InOrderReceived ==
  ASSUME NEW q \in Seq(Frames), q # <<>>, NEW got \in Nat, NEW top \in Nat, InOrder(q, got, top)
  PROVE  /\ InOrder(Tail(q), got, top) /\ InOrder(Tail(q), Head(q).seq, top)
         /\ Head(q).seq <= top /\ (Live(Head(q)) => got <= Head(q).seq)
<1>1. /\ Head(q) = q[1] /\ 1 \in 1..Len(q) /\ Len(Tail(q)) = Len(q) - 1 /\ Len(q) \in Nat
      /\ \A i \in 1..Len(Tail(q)) : i \in Nat /\ i + 1 \in 1..Len(q) /\ 1 < i + 1 /\ Tail(q)[i] = q[i + 1]
  OBVIOUS
<1>2. Head(q).seq <= top /\ (Live(Head(q)) => got <= Head(q).seq)
  BY <1>1 DEF InOrder
<1>3. ASSUME NEW i \in 1..Len(Tail(q))
      PROVE  /\ Tail(q)[i].seq <= top
             /\ Live(Tail(q)[i]) => /\ got <= Tail(q)[i].seq /\ Head(q).seq <= Tail(q)[i].seq
                                    /\ \A j \in 1..Len(Tail(q)) : j < i => Tail(q)[j].seq <= Tail(q)[i].seq
  BY <1>1 DEF InOrder
<1>4. QED BY <1>2, <1>3 DEF InOrder

LEMMA OfferInOrder ==
  ASSUME OrderInv, NEW C \in SUBSET Clients, NEW f \in Frames, NEW who, Offer(C, f, who),
         NEW top \in Nat, seq <= top, f.seq <= top, Live(f) => f.seq = top, gotSeq' = gotSeq, seq' = top
  PROVE  \A c \in Clients : gotSeq'[c] <= seq' /\ InOrder(send'[c], gotSeq'[c], seq')
<1> TAKE c \in Clients
<1>1. /\ send[c] \in Seq(Frames) /\ gotSeq[c] \in Nat /\ seq \in Nat
      /\ gotSeq[c] <= seq /\ InOrder(send[c], gotSeq[c], seq)
  BY DEF OrderInv, FeedInv, TypeOK
<1>2. gotSeq[c] <= top
  BY <1>1
<1>3. InOrder(send[c], gotSeq[c], top) /\ InOrder(Append(send[c], f), gotSeq[c], top)
  BY <1>1, <1>2, InOrderSent
<1>4. send'[c] = send[c] \/ send'[c] = Append(send[c], f)
  BY DEF Offer
<1>5. QED BY <1>2, <1>3, <1>4

LEMMA StepOrder == OrderInv /\ [Next]_vars => OrderInv'
<1> SUFFICES ASSUME OrderInv, [Next]_vars PROVE OrderInv'
  OBVIOUS
<1> USE DEF channelVars, queueVars, runVars, sendVars, pumpVars, HubUnchanged
<1>t. FeedInv /\ FeedInv' /\ TypeOK
  BY StepFeedInv DEF OrderInv, FeedInv
<1>f. /\ lastFrame \in Frames /\ clients \in SUBSET Clients /\ send \in [Clients -> Seq(Frames)]
      /\ seq \in Nat /\ lastFrame.seq <= seq
      /\ ~Live(lastFrame)
  BY <1>t DEF TypeOK, FeedInv, OrderInv
<1>l. ~Live(lastFrame')
  <2>1. lastFrame' = lastFrame \/ Telemetry(lastFrame')
    BY DEF Next, vars, EnvNext, SourceEmits, SourceEmitsSample, HeartbeatElapses, Cancel,
       HubNext, AdmitClient, RejectClient, HandleUnregister, HandleResync, SuppressSnapshot,
       BroadcastSnapshot, Heartbeat, BroadcastSample, Broadcast, Cached, HubStops, ServeWS,
       Disconnect, WriterNext, WriterSends, WriterFails, WriterHangsUp, WriterStops, ReaderNext,
       ReaderRefuses, ReaderPassesGate, ReaderSubmits, ReaderAsksResync, ReaderExits
  <2>2. QED BY <1>f, <2>1 DEF Live, Telemetry
<1>1. CASE BroadcastSnapshot \/ Heartbeat \/ \E k \in SampleKinds : BroadcastSample(k)
  <2>1. PICK f \in Frames : Broadcast(f) /\ f.seq = seq + 1
    <3>1. CASE BroadcastSnapshot
      <4>1. Head(snapIn) \in Snapshots
        BY <3>1, <1>t, Received DEF BroadcastSnapshot, TypeOK
      <4>2. Frame("telemetry", seq + 1, Head(snapIn)) \in Frames
        BY <1>f, <4>1, FrameTypesOK
      <4>3. QED BY <3>1, <4>2 DEF BroadcastSnapshot, Frame
    <3>2. CASE Heartbeat \/ \E k \in SampleKinds : BroadcastSample(k)
      <4>1. PICK t \in {"heartbeat", "scope", "spectrum"} : Broadcast(Frame(t, seq + 1, None))
        BY <3>2, HubConstants DEF Heartbeat, BroadcastSample
      <4>2. seq + 1 \in Nat
        BY <1>f
      <4>3. Frame(t, seq + 1, None) \in Frames
        BY <4>2, FrameTypesOK
      <4>4. Frame(t, seq + 1, None).seq = seq + 1
        BY DEF Frame
      <4>5. QED BY <4>1, <4>3, <4>4
    <3>3. QED BY <1>1, <3>1, <3>2
  <2>2. Offer(clients, f, "broadcast") /\ seq' = seq + 1 /\ seq + 1 \in Nat
    BY <1>f, <2>1 DEF Broadcast
  <2>3. gotSeq' = gotSeq
    BY <1>1 DEF BroadcastSnapshot, Heartbeat, BroadcastSample
  <2>4. QED BY <1>t, <1>f, <1>l, <2>1, <2>2, <2>3, OfferInOrder DEF OrderInv
\* What is sent again, or answers a request, is not live.
<1>2. ASSUME NEW C \in SUBSET Clients, NEW f \in Frames, NEW who, Offer(C, f, who),
             f.seq <= seq, ~Live(f), UNCHANGED <<gotSeq, seq>>
      PROVE  OrderInv'
  BY <1>t, <1>f, <1>l, <1>2, OfferInOrder DEF OrderInv
<1>3. CASE AdmitClient \/ HandleResync
  <2>1. PICK c, who : c \in Clients /\ Offer(Replay(c), lastFrame, who)
    <3>1. CASE AdmitClient
      BY <1>t, <3>1, Received DEF AdmitClient, TypeOK
    <3>2. CASE HandleResync
      BY <1>t, <3>2, Received DEF HandleResync, TypeOK
    <3>3. QED BY <1>3, <3>1, <3>2
  <2>2. UNCHANGED <<gotSeq, seq>> /\ Replay(c) \in SUBSET Clients
    BY <1>3, <2>1 DEF AdmitClient, HandleResync, Replay
  <2>3. QED BY <1>2, <1>f, <2>1, <2>2
<1>4. ASSUME NEW c \in Clients, (\E m \in Requests : ReaderRefuses(c, m)) \/ ReaderSubmits(c)
      PROVE  OrderInv'
  <2>1. PICK ok \in BOOLEAN : Offer({c}, Ack(ok), "ack")
    BY <1>4 DEF ReaderRefuses, ReaderSubmits, Submit
  <2>2. Ack(ok) \in Frames /\ Ack(ok).seq <= seq /\ ~Live(Ack(ok)) /\ {c} \in SUBSET Clients
    BY <1>f, FrameTypesOK DEF Ack, Frame, Live
  <2>3. UNCHANGED <<gotSeq, seq>>
    BY <1>4 DEF ReaderRefuses, ReaderSubmits
  <2>4. QED BY <1>2, <2>1, <2>2, <2>3
<1>5. ASSUME NEW c \in Clients, WriterSends(c) PROVE OrderInv'
  <2>1. /\ send[c] # <<>> /\ send' = [send EXCEPT ![c] = Tail(@)] /\ seq' = seq
        /\ gotSeq' = [gotSeq EXCEPT ![c] = IF Sequenced(Head(send[c])) THEN Head(send[c]).seq ELSE @]
    BY <1>5 DEF WriterSends
  <2>2. gotSeq \in [Clients -> Nat] /\ Head(send[c]) \in Frames
    BY <1>t, <1>f, <2>1 DEF TypeOK
  <2>3. /\ send'[c] = Tail(send[c])
        /\ gotSeq'[c] \in {gotSeq[c], Head(send[c]).seq}
        /\ \A d \in Clients \ {c} : send'[d] = send[d] /\ gotSeq'[d] = gotSeq[d]
    BY <1>f, <2>1, <2>2
  <2>4. /\ InOrder(Tail(send[c]), gotSeq[c], seq) /\ InOrder(Tail(send[c]), Head(send[c]).seq, seq)
        /\ Head(send[c]).seq <= seq /\ gotSeq[c] <= seq
    BY <1>f, <2>1, <2>2, InOrderReceived DEF OrderInv
  <2>5. QED BY <1>t, <1>l, <2>1, <2>3, <2>4 DEF OrderInv
<1>6. ASSUME UNCHANGED <<gotSeq, seq>>,
             \A c \in Clients : send'[c] = send[c] \/ (send[c] # <<>> /\ send'[c] = Tail(send[c]))
      PROVE  OrderInv'
  <2>1. ASSUME NEW c \in Clients PROVE gotSeq[c] <= seq /\ InOrder(send'[c], gotSeq[c], seq)
    <3>1. gotSeq[c] \in Nat /\ gotSeq[c] <= seq /\ InOrder(send[c], gotSeq[c], seq)
      BY <1>t DEF TypeOK, OrderInv
    <3>2. send[c] # <<>> => InOrder(Tail(send[c]), gotSeq[c], seq)
      BY <1>f, <3>1, InOrderReceived
    <3>3. QED BY <1>6, <3>1, <3>2
  <2>2. QED BY <1>t, <1>l, <1>6, <2>1 DEF OrderInv
<1>7. CASE \/ EnvNext \/ UNCHANGED vars
           \/ RejectClient \/ HandleUnregister \/ SuppressSnapshot \/ HubStops
  <2>1. UNCHANGED <<gotSeq, seq, send>>
    BY <1>7 DEF EnvNext, vars, SourceEmits, SourceEmitsSample, HeartbeatElapses, Cancel,
                RejectClient, HandleUnregister, SuppressSnapshot, HubStops
  <2>2. QED BY <1>6, <2>1
<1>8. ASSUME NEW c \in Clients,
             \/ ServeWS(c) \/ Disconnect(c) \/ WriterFails(c) \/ WriterHangsUp(c)
             \/ ReaderAsksResync(c) \/ ReaderExits(c) \/ \E m \in Requests : ReaderPassesGate(c, m)
      PROVE  OrderInv'
  <2>1. /\ UNCHANGED <<gotSeq, seq>>
        /\ send' = send \/ (send[c] # <<>> /\ send' = [send EXCEPT ![c] = Tail(@)])
    BY <1>8 DEF ServeWS, Disconnect, WriterFails, WriterHangsUp, WriterStops,
                ReaderAsksResync, ReaderExits, ReaderPassesGate
  <2>2. QED BY <1>f, <1>6, <2>1
<1>9. QED BY <1>1, <1>3, <1>4, <1>5, <1>7, <1>8 DEF Next, HubNext, WriterNext, ReaderNext

\* For any traffic, a peer sees a lower sequence number only in telemetry sent
\* again, which is no older than the telemetry it shows.
THEOREM OnlyReplaysRegress == Spec => RegressionIsReplay
<1> DEFINE A == \A c \in Clients : gotSeq'[c] < gotSeq[c]
                  => Telemetry(Head(send[c])) /\ Head(send[c]).seq >= view[c].seq
<1>1. Init => OrderInv
  <2> SUFFICES ASSUME Init
               PROVE  ~Live(lastFrame) /\ \A c \in Clients : gotSeq[c] <= seq /\ InOrder(send[c], gotSeq[c], seq)
    BY InitFeedInv DEF OrderInv
  <2>1. seq = 0 /\ \A c \in Clients : gotSeq[c] = 0 /\ send[c] = <<>>
    BY DEF Init
  <2>2. ~Live(lastFrame)
    BY DEF Init, Live, NoFrame, Frame
  <2>3. QED BY <2>1, <2>2 DEF InOrder
<1>2. OrderInv /\ [Next]_vars => [A]_vars
  <2> USE DEF channelVars, queueVars, runVars, sendVars, pumpVars, HubUnchanged
  <2> SUFFICES ASSUME OrderInv, [Next]_vars, NEW c \in Clients, gotSeq'[c] < gotSeq[c]
               PROVE  Telemetry(Head(send[c])) /\ Head(send[c]).seq >= view[c].seq
    OBVIOUS
  <2>1. gotSeq \in [Clients -> Nat] /\ send \in [Clients -> Seq(Frames)] /\ view[c].seq \in Nat
        /\ lastFrame.seq \in Nat /\ seq \in Nat
    BY FrameNumber DEF OrderInv, FeedInv, TypeOK
  <2>2. gotSeq' # gotSeq
    BY <2>1
  <2>3. PICK d \in Clients : WriterSends(d)
    BY <2>2 DEF Next, vars, EnvNext, SourceEmits, SourceEmitsSample, HeartbeatElapses, Cancel,
       HubNext, AdmitClient, RejectClient, HandleUnregister, HandleResync, SuppressSnapshot,
       BroadcastSnapshot, Heartbeat, BroadcastSample, HubStops, ServeWS, Disconnect, WriterNext,
       WriterFails, WriterHangsUp, WriterStops, ReaderNext, ReaderRefuses, ReaderPassesGate,
       ReaderSubmits, ReaderAsksResync, ReaderExits
  <2>4. /\ send[d] # <<>>
        /\ gotSeq' = [gotSeq EXCEPT ![d] = IF Sequenced(Head(send[d])) THEN Head(send[d]).seq ELSE @]
    BY <2>3 DEF WriterSends
  <2>5. c = d /\ Sequenced(Head(send[c])) /\ gotSeq'[c] = Head(send[c]).seq
    BY <2>1, <2>4
  <2>6. ~Live(Head(send[c]))
    <3>1. Live(Head(send[c])) => gotSeq[c] <= Head(send[c]).seq
      BY <2>1, <2>4, <2>5, InOrderReceived DEF OrderInv
    <3>2. Head(send[c]).seq \in Nat
      BY <2>1, <2>4, <2>5, FrameNumber
    <3>3. QED BY <2>1, <2>5, <3>1, <3>2
  <2>7. Telemetry(Head(send[c]))
    BY <2>5, <2>6 DEF Sequenced, Live, Telemetry
  <2>8. Rising(send[c], view[c].seq, lastFrame.seq)
    BY DEF OrderInv, FeedInv
  <2>9. QED BY <2>1, <2>4, <2>5, <2>7, <2>8, RisingReceived
<1>3. QED BY <1>1, <1>2, StepOrder, PTL DEF Spec, RegressionIsReplay
=============================================================================

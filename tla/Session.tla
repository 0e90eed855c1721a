------------------------------ MODULE Session -------------------------------
(***************************************************************************)
(* The life of the HID owner (internal/lpmeter/owner.go): Run opens the     *)
(* meter again and again, runOnce serves one open handle, and a read        *)
(* goroutine per session feeds its select loop.  What a report or a tick    *)
(* means is the subject of FrameLoop; here only who holds what, when        *)
(* sessions end, and what becomes of the verbs clients were told ok about.  *)
(*                                                                         *)
(* A fault is an unplugging, a failed open, read or write; a report is      *)
(* represented by the session whose handle it was read from.                *)
(***************************************************************************)
EXTENDS Integers, Sequences, FiniteSets

CONSTANTS
  FramesCap,     \* capacity of the frames channel (4)
  QueueCap,      \* capacity of the command queue (16)
  MaxBackoff,    \* seconds (30)
  MaxFaults,     \* model bound on faults
  MaxVerbs       \* model bound on verbs accepted

ASSUME SessionConstants ==
  FramesCap \in Nat /\ QueueCap \in Nat /\ MaxBackoff \in Nat \ {0} /\ MaxFaults \in Nat /\ MaxVerbs \in Nat

Sessions == 1..(MaxFaults + 1)

VARIABLES
  plugged, cancelled, faults,    \* the meter's cable; the context; faults so far
  pc, session, backoff,          \* Run and runOnce
  handle,                        \* per session: "none", "open", "closed"
  reader, frames, readErr,       \* the read goroutine and its two channels
  commands, accepted,            \* the queue; verbs accepted so far
  written, lost,                 \* verbs the meter got, and those a write failed for
  handled                        \* the session of the report handled last

worldVars  == <<plugged, cancelled, faults>>
runVars    == <<pc, session, backoff, handle>>
readerVars == <<reader, frames, readErr>>
verbVars   == <<commands, accepted, written, lost>>
vars == <<worldVars, runVars, readerVars, verbVars, handled>>

Init ==
  /\ plugged \in BOOLEAN /\ cancelled = FALSE /\ faults = 0
  /\ pc = "opening" /\ session = 0 /\ backoff = 1
  /\ handle = [s \in Sessions |-> "none"]
  /\ reader = [s \in Sessions |-> "none"]
  /\ frames = [s \in Sessions |-> <<>>]
  /\ readErr = [s \in Sessions |-> FALSE]
  /\ commands = <<>> /\ accepted = 0 /\ written = <<>> /\ lost = <<>>
  /\ handled = 0

\* Fault: one frames channel outlives the sessions.
SharedChannel(s) == 1

\* Every runOnce makes its own frames channel.
ChannelOf(s) == s

-----------------------------------------------------------------------------
(* The cable, the shutdown signal and the clients.                          *)

Fault == faults < MaxFaults /\ faults' = faults + 1

Unplug ==
  /\ plugged /\ Fault
  /\ plugged' = FALSE
  /\ UNCHANGED <<cancelled, runVars, readerVars, verbVars, handled>>

Plug ==
  /\ ~plugged /\ plugged' = TRUE
  /\ UNCHANGED <<cancelled, faults, runVars, readerVars, verbVars, handled>>

Cancel ==
  /\ ~cancelled /\ cancelled' = TRUE
  /\ UNCHANGED <<plugged, faults, runVars, readerVars, verbVars, handled>>

\* Submit: the client is told ok, connected meter or not.
Submit ==
  /\ accepted < MaxVerbs /\ Len(commands) < QueueCap
  /\ accepted' = accepted + 1
  /\ commands' = Append(commands, accepted + 1)
  /\ UNCHANGED <<worldVars, runVars, readerVars, written, lost, handled>>

-----------------------------------------------------------------------------
(* Run.                                                                     *)

\* Fault: Run gives up after an error.
GiveUp == "stopped"

\* Run returns only when the context is cancelled.
AfterError == IF cancelled THEN "stopped" ELSE "waiting"

\* Fault: the delay is never capped.
BackoffUncapped(b) == 2 * b

NextBackoff(b) == IF 2 * b > MaxBackoff THEN MaxBackoff ELSE 2 * b

WaitElapses ==
  /\ pc = "waiting"
  /\ pc' = "opening"
  /\ backoff' = NextBackoff(backoff)
  /\ UNCHANGED <<worldVars, session, handle, readerVars, verbVars, handled>>

RunReturns ==
  /\ pc = "waiting" /\ cancelled
  /\ pc' = "stopped"
  /\ UNCHANGED <<worldVars, session, backoff, handle, readerVars, verbVars, handled>>

OpenFails ==
  /\ pc = "opening"
  /\ \/ ~plugged /\ UNCHANGED faults
     \/ plugged /\ Fault
  /\ pc' = AfterError
  /\ UNCHANGED <<plugged, cancelled, session, backoff, handle, readerVars, verbVars, handled>>

Open ==
  /\ pc = "opening" /\ plugged /\ session < MaxFaults + 1
  /\ session' = session + 1
  /\ handle' = [handle EXCEPT ![session + 1] = "open"]
  /\ reader' = [reader EXCEPT ![session + 1] = "reading"]
  /\ pc' = "select"
  /\ UNCHANGED <<worldVars, backoff, frames, readErr, verbVars, handled>>

-----------------------------------------------------------------------------
(* runOnce: the select loop, and the deferred Close when it returns.        *)

\* Fault: the handle is closed only when the read side fails.
EndSessionLeavesHandle(next) ==
  pc' = next /\ handle' = IF readErr[session] THEN [handle EXCEPT ![session] = "closed"] ELSE handle

EndSession(next) ==
  pc' = next /\ handle' = [handle EXCEPT ![session] = "closed"]

SelectDone ==
  /\ pc = "select" /\ cancelled
  /\ EndSession("stopped")
  /\ UNCHANGED <<worldVars, session, backoff, readerVars, verbVars, handled>>

SelectReadErr ==
  /\ pc = "select" /\ readErr[session]
  /\ readErr' = [readErr EXCEPT ![session] = FALSE]
  /\ EndSession(AfterError)
  /\ UNCHANGED <<worldVars, session, backoff, reader, frames, verbVars, handled>>

SelectFrame ==
  LET ch == ChannelOf(session) IN
  /\ pc = "select" /\ frames[ch] # <<>>
  /\ handled' = Head(frames[ch])
  /\ frames' = [frames EXCEPT ![ch] = Tail(@)]
  /\ UNCHANGED <<worldVars, runVars, reader, readErr, verbVars>>

SelectTick ==
  /\ pc = "select" /\ pc' = "draining"
  /\ UNCHANGED <<worldVars, session, backoff, handle, readerVars, verbVars, handled>>

\* Fault: the verb stays queued until it is written, behind the newer ones.
Requeue(v) == commands' = Append(Tail(commands), v) /\ UNCHANGED lost

\* The verb left the queue before the write failed.
WriteFails(v) == commands' = Tail(commands) /\ lost' = Append(lost, v)

DrainVerb ==
  /\ pc = "draining" /\ commands # <<>>
  /\ \/ /\ plugged
        /\ commands' = Tail(commands) /\ written' = Append(written, Head(commands))
        /\ UNCHANGED <<pc, handle, lost, faults>>
     \/ /\ \/ ~plugged /\ UNCHANGED faults
           \/ plugged /\ Fault
        /\ WriteFails(Head(commands))
        /\ EndSession(AfterError)
        /\ UNCHANGED written
  /\ UNCHANGED <<plugged, cancelled, session, backoff, readerVars, accepted, handled>>

\* The tick's poll, status or sample request.
WriteRequest ==
  /\ pc = "draining" /\ commands = <<>>
  /\ \/ /\ plugged /\ pc' = "select"
        /\ UNCHANGED <<handle, faults>>
     \/ /\ \/ ~plugged /\ UNCHANGED faults
           \/ plugged /\ Fault
        /\ EndSession(AfterError)
  /\ UNCHANGED <<plugged, cancelled, session, backoff, readerVars, verbVars, handled>>

-----------------------------------------------------------------------------
(* The read goroutine of session s.  Closing the handle fails its Read.     *)

HasRoom(s) == Len(frames[ChannelOf(s)]) < FramesCap
Deliver(s) == frames' = [frames EXCEPT ![ChannelOf(s)] = Append(@, s)]

ReaderReads(s) ==
  /\ reader[s] = "reading" /\ plugged /\ handle[s] = "open"
  /\ reader' = [reader EXCEPT ![s] = "holding"]
  /\ UNCHANGED <<worldVars, runVars, frames, readErr, verbVars, handled>>

ReaderDelivers(s) ==
  /\ reader[s] = "holding" /\ HasRoom(s)
  /\ Deliver(s)
  /\ reader' = [reader EXCEPT ![s] = "reading"]
  /\ UNCHANGED <<worldVars, runVars, readErr, verbVars, handled>>

\* Fault: the send on frames does not watch the context.
NeverGivesUp(s) == FALSE

MayGiveUp(s) == cancelled

ReaderGivesUp(s) ==
  /\ reader[s] = "holding" /\ MayGiveUp(s)
  /\ reader' = [reader EXCEPT ![s] = "ended"]
  /\ UNCHANGED <<worldVars, runVars, frames, readErr, verbVars, handled>>

ReadFails(s) ==
  /\ reader[s] = "reading"
  /\ \/ (~plugged \/ handle[s] = "closed") /\ UNCHANGED faults
     \/ plugged /\ handle[s] = "open" /\ Fault
  /\ reader' = [reader EXCEPT ![s] = "failed"]
  /\ UNCHANGED <<plugged, cancelled, runVars, frames, readErr, verbVars, handled>>

\* Fault: readErr has no buffer, the loop must be there to take the error.
ErrUnbuffered(s) == pc = "select" /\ session = s

\* readErr holds one error, and a reader sends at most one.
ErrFits(s) == ~readErr[s]

ReaderReports(s) ==
  /\ reader[s] = "failed" /\ ErrFits(s)
  /\ readErr' = [readErr EXCEPT ![s] = TRUE]
  /\ reader' = [reader EXCEPT ![s] = "ended"]
  /\ UNCHANGED <<worldVars, runVars, frames, verbVars, handled>>

Reader(s) == ReaderReads(s) \/ ReaderDelivers(s) \/ ReaderGivesUp(s) \/ ReadFails(s) \/ ReaderReports(s)

Owner ==
  \/ WaitElapses \/ RunReturns \/ OpenFails \/ Open
  \/ SelectDone \/ SelectReadErr \/ SelectFrame \/ SelectTick \/ DrainVerb \/ WriteRequest

World == Unplug \/ Plug \/ Cancel \/ Submit

Next == World \/ Owner \/ \E s \in Sessions : Reader(s)

Spec == Init /\ [][Next]_vars

\* Every goroutine keeps running; select picks at random among its ready
\* cases, so a case ready again and again is taken; a closed handle fails
\* the pending Read.
Fairness ==
  /\ WF_vars(WaitElapses \/ RunReturns) /\ WF_vars(OpenFails \/ Open)
  /\ SF_vars(SelectDone) /\ SF_vars(SelectReadErr) /\ SF_vars(SelectFrame)
  /\ WF_vars(DrainVerb) /\ WF_vars(WriteRequest) /\ WF_vars(Owner)
  /\ \A s \in Sessions :
       /\ WF_vars(ReadFails(s) /\ UNCHANGED faults) /\ WF_vars(ReaderReports(s))
       /\ WF_vars(ReaderDelivers(s)) /\ WF_vars(ReaderGivesUp(s))

FairSpec == Spec /\ Fairness

-----------------------------------------------------------------------------
(* Properties.                                                              *)

\* Every variable keeps its type and every channel its capacity.
TypeOK ==
  /\ plugged \in BOOLEAN /\ cancelled \in BOOLEAN /\ faults \in 0..MaxFaults
  /\ pc \in {"opening", "select", "draining", "waiting", "stopped"}
  /\ session \in 0..(MaxFaults + 1) /\ backoff \in 1..MaxBackoff
  /\ handle \in [Sessions -> {"none", "open", "closed"}]
  /\ reader \in [Sessions -> {"none", "reading", "holding", "failed", "ended"}]
  /\ \A s \in Sessions : frames[s] \in Seq(Sessions) /\ Len(frames[s]) <= FramesCap
  /\ readErr \in [Sessions -> BOOLEAN]
  /\ accepted \in 0..MaxVerbs /\ commands \in Seq(1..MaxVerbs) /\ Len(commands) <= QueueCap
  /\ written \in Seq(1..MaxVerbs) /\ lost \in Seq(1..MaxVerbs)
  /\ handled \in 0..(MaxFaults + 1)

\* The server owns one HID handle at a time: the one of the session that is
\* in its loop, however the earlier ones ended.
OneHandle ==
  \A s \in Sessions : handle[s] = "open" <=> s = session /\ pc \in {"select", "draining"}

\* The loop handles only reports its own handle delivered: a reader that is
\* still alive after its session cannot feed the next one.
OwnReportsOnly == [][handled' # handled => handled' = session]_vars

\* A verb accepted by Submit is queued, written or lost, never two of these;
\* verbs reach the meter in the order they were accepted, over reconnects
\* too; a failed session costs at most one of them.
VerbsAccountedFor ==
  /\ \A i, j \in 1..Len(written \o commands) : i < j => (written \o commands)[i] < (written \o commands)[j]
  /\ \A i, j \in 1..Len(lost) : i < j => lost[i] < lost[j]
  /\ Len(written) + Len(lost) + Len(commands) = accepted
  /\ Len(lost) <= session

\* A reader whose session is over ends, unless it holds a report for a full
\* channel nobody reads.
StaleReaderSettles ==
  \A s \in Sessions :
    (session > s) ~> reader[s] = "ended" \/ (reader[s] = "holding" /\ ~HasRoom(s))

\* A meter that stays plugged in is served again, for good.
Reconnects == <>[](plugged /\ ~cancelled) => <>[](pc \in {"select", "draining"})

\* On shutdown Run returns and every reader ends, blocked ones included.
ShutdownEnds ==
  cancelled ~> pc = "stopped" /\ \A s \in Sessions : reader[s] \in {"none", "ended"}
=============================================================================

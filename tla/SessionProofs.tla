--------------------------- MODULE SessionProofs ----------------------------
(* One HID handle at a time, reports of its own, and every verb accounted   *)
(* for, whatever the number of faults, sessions and verbs.                  *)
EXTENDS Session, TLAPS

InLoop == pc \in {"select", "draining"}

\* OneHandle with the types of what it speaks of; a session in its loop has a
\* handle of its own.
HandleInv ==
  /\ session \in 0..(MaxFaults + 1)
  /\ handle \in [Sessions -> {"none", "open", "closed"}]
  /\ InLoop => session \in Sessions
  /\ OneHandle

\* A session that ends closes the one open handle, whatever ended it.
LEMMA EndSessionClosesHandle ==
  ASSUME HandleInv, InLoop, NEW next, next \notin {"select", "draining"},
         EndSession(next), session' = session
  PROVE  HandleInv'
<1>1. handle' \in [Sessions -> {"none", "open", "closed"}]
  BY DEF HandleInv, EndSession
<1>2. ~InLoop'
  BY DEF EndSession, InLoop
<1>3. \A s \in Sessions : handle'[s] # "open"
  BY DEF HandleInv, EndSession, OneHandle, InLoop
<1> QED
  BY <1>1, <1>2, <1>3 DEF HandleInv, OneHandle, InLoop, Sessions

\* Run leaves the loop for good, or to wait.
LEMMA AfterErrorLeavesLoop == AfterError \notin {"select", "draining"}
BY DEF AfterError

\* A step that keeps the handles and the session keeps HandleInv when it
\* neither enters nor leaves the loop.
LEMMA HandlesKept ==
  ASSUME HandleInv, session' = session, handle' = handle, InLoop' = InLoop
  PROVE  HandleInv'
BY DEF HandleInv, OneHandle, InLoop, Sessions

LEMMA OwnerKeepsHandleInv ==
  ASSUME HandleInv, Owner
  PROVE  HandleInv'
<1>1. CASE WaitElapses
  BY <1>1, HandlesKept DEF WaitElapses, InLoop
<1>2. CASE RunReturns
  BY <1>2, HandlesKept DEF RunReturns, InLoop
<1>3. CASE OpenFails
  BY <1>3, HandlesKept, AfterErrorLeavesLoop DEF OpenFails, InLoop
<1>4. CASE Open
  <2>1. session + 1 \in Sessions /\ session' = session + 1 /\ pc' = "select"
    BY <1>4, SessionConstants DEF Open, HandleInv, Sessions
  <2>2. \A s \in Sessions : handle[s] # "open"
    BY <1>4 DEF Open, HandleInv, OneHandle
  <2>3. /\ handle' \in [Sessions -> {"none", "open", "closed"}]
        /\ \A s \in Sessions : handle'[s] = "open" <=> s = session'
    BY <1>4, <2>1, <2>2 DEF Open, HandleInv
  <2> QED
    BY <2>1, <2>3 DEF HandleInv, OneHandle, InLoop, Sessions
<1>5. CASE SelectDone
  BY <1>5, EndSessionClosesHandle DEF SelectDone, InLoop
<1>6. CASE SelectReadErr
  BY <1>6, EndSessionClosesHandle, AfterErrorLeavesLoop DEF SelectReadErr, InLoop
<1>7. CASE SelectFrame
  BY <1>7, HandlesKept DEF SelectFrame, runVars, InLoop
<1>8. CASE SelectTick
  BY <1>8, HandlesKept DEF SelectTick, InLoop
<1>9. CASE DrainVerb
  <2>1. CASE UNCHANGED <<pc, handle>>
    BY <1>9, <2>1, HandlesKept DEF DrainVerb, InLoop
  <2>2. CASE EndSession(AfterError)
    BY <1>9, <2>2, EndSessionClosesHandle, AfterErrorLeavesLoop DEF DrainVerb, InLoop
  <2> QED
    BY <1>9, <2>1, <2>2 DEF DrainVerb
<1>10. CASE WriteRequest
  <2>1. CASE pc' = "select" /\ UNCHANGED handle
    BY <1>10, <2>1, HandlesKept DEF WriteRequest, InLoop
  <2>2. CASE EndSession(AfterError)
    BY <1>10, <2>2, EndSessionClosesHandle, AfterErrorLeavesLoop DEF WriteRequest, InLoop
  <2> QED
    BY <1>10, <2>1, <2>2 DEF WriteRequest
<1> QED
  BY <1>1, <1>2, <1>3, <1>4, <1>5, <1>6, <1>7, <1>8, <1>9, <1>10 DEF Owner

\* The cable, the clients and the readers never touch a handle.
LEMMA OthersKeepHandleInv ==
  ASSUME HandleInv, World \/ \E s \in Sessions : Reader(s)
  PROVE  HandleInv'
<1>1. CASE World
  BY <1>1, HandlesKept DEF World, Unplug, Plug, Cancel, Submit, runVars, InLoop
<1>2. ASSUME NEW s \in Sessions, Reader(s) PROVE HandleInv'
  BY <1>2, HandlesKept
  DEF Reader, ReaderReads, ReaderDelivers, ReaderGivesUp, ReadFails, ReaderReports, runVars, InLoop
<1> QED
  BY <1>1, <1>2

LEMMA HandleStep ==
  ASSUME HandleInv, [Next]_vars
  PROVE  HandleInv'
<1>1. CASE Next
  BY <1>1, OwnerKeepsHandleInv, OthersKeepHandleInv DEF Next
<1>2. CASE UNCHANGED vars
  BY <1>2, HandlesKept DEF vars, runVars, InLoop
<1> QED
  BY <1>1, <1>2

\* The server owns one HID handle at a time, over unplugging, failed opens,
\* reads and writes, and shutdown (ARCHITECTURE.md, goal 1).
THEOREM OneHandleAlways == Spec => []OneHandle
<1>1. Init => HandleInv
  BY SessionConstants DEF Init, HandleInv, OneHandle, InLoop, Sessions
<1>2. HandleInv /\ [Next]_vars => HandleInv'
  BY HandleStep
<1>3. HandleInv => OneHandle
  BY DEF HandleInv
<1> QED
  BY <1>1, <1>2, <1>3, PTL DEF Spec

-----------------------------------------------------------------------------
\* A session's channel holds only reports of its own handle.
ChannelsInv ==
  /\ frames \in [Sessions -> Seq(Sessions)]
  /\ \A s \in Sessions : \A i \in 1..Len(frames[s]) : frames[s][i] = s

\* Taking a report off a channel leaves a channel of the same kind.
LEMMA SelectFrameKeepsChannels ==
  ASSUME HandleInv, ChannelsInv, SelectFrame
  PROVE  ChannelsInv' /\ handled' = session
<1>1. session \in Sessions /\ frames[session] \in Seq(Sessions) /\ frames[session] # <<>>
  BY DEF SelectFrame, ChannelOf, HandleInv, ChannelsInv, InLoop
<1>2. Head(frames[session]) = session
  BY <1>1 DEF ChannelsInv
<1>3. /\ Tail(frames[session]) \in Seq(Sessions)
      /\ \A i \in 1..Len(Tail(frames[session])) : Tail(frames[session])[i] = session
  BY <1>1 DEF ChannelsInv
<1>4. frames' = [frames EXCEPT ![session] = Tail(frames[session])] /\ handled' = Head(frames[session])
  BY DEF SelectFrame, ChannelOf
<1> QED
  BY <1>1, <1>2, <1>3, <1>4 DEF ChannelsInv

\* A reader adds its own session to its own channel.
LEMMA DeliverKeepsChannels ==
  ASSUME ChannelsInv, NEW s \in Sessions, Deliver(s)
  PROVE  ChannelsInv'
<1>1. frames[s] \in Seq(Sessions)
  BY DEF ChannelsInv
<1>2. /\ Append(frames[s], s) \in Seq(Sessions)
      /\ \A i \in 1..Len(Append(frames[s], s)) : Append(frames[s], s)[i] = s
  BY <1>1 DEF ChannelsInv
<1>3. frames' = [frames EXCEPT ![s] = Append(frames[s], s)]
  BY DEF Deliver, ChannelOf
<1> QED
  BY <1>1, <1>2, <1>3 DEF ChannelsInv

LEMMA ChannelsStep ==
  ASSUME HandleInv, ChannelsInv, [Next]_vars
  PROVE  ChannelsInv' /\ (handled' # handled => handled' = session)
<1>1. CASE UNCHANGED <<frames, handled>>
  BY <1>1 DEF ChannelsInv
<1>2. CASE SelectFrame
  BY <1>2, SelectFrameKeepsChannels
<1>3. ASSUME NEW s \in Sessions, ReaderDelivers(s)
      PROVE  ChannelsInv' /\ handled' = handled
  BY <1>3, DeliverKeepsChannels DEF ReaderDelivers
<1>4. World \/ (Owner /\ ~SelectFrame) => UNCHANGED <<frames, handled>>
  BY DEF World, Unplug, Plug, Cancel, Submit, Owner, WaitElapses, RunReturns, OpenFails, Open,
         SelectDone, SelectReadErr, SelectTick, DrainVerb, WriteRequest, readerVars
<1>5. \A s \in Sessions : Reader(s) /\ ~ReaderDelivers(s) => UNCHANGED <<frames, handled>>
  BY DEF Reader, ReaderReads, ReaderGivesUp, ReadFails, ReaderReports
<1>6. CASE UNCHANGED vars
  BY <1>1, <1>6 DEF vars, readerVars
<1> QED
  BY <1>1, <1>2, <1>3, <1>4, <1>5, <1>6 DEF Next

\* The loop handles only reports of its own handle: a reader left over from
\* an earlier session cannot feed it (owner.go, the channels made by runOnce).
THEOREM OnlyOwnReports == Spec => OwnReportsOnly
<1>1. Init => HandleInv /\ ChannelsInv
  BY SessionConstants DEF Init, HandleInv, OneHandle, InLoop, Sessions, ChannelsInv
<1>2. HandleInv /\ ChannelsInv /\ [Next]_vars => HandleInv' /\ ChannelsInv'
  <2> SUFFICES ASSUME HandleInv, ChannelsInv, [Next]_vars
               PROVE  HandleInv' /\ ChannelsInv'
    OBVIOUS
  <2>1. HandleInv'
    BY HandleStep
  <2> QED
    BY <2>1, ChannelsStep
<1>3. HandleInv /\ ChannelsInv /\ [Next]_vars => [handled' # handled => handled' = session]_vars
  BY ChannelsStep
<1> QED
  BY <1>1, <1>2, <1>3, PTL DEF Spec, OwnReportsOnly

-----------------------------------------------------------------------------
(* Where the accepted verbs are.                                            *)

Increasing(s) == \A i, j \in 1..Len(s) : i < j => s[i] < s[j]
Below(s, t) == \A i \in 1..Len(s), j \in 1..Len(t) : s[i] < t[j]

\* The queue holds verbs younger than those written and those lost; a session
\* that is still in its loop has not lost one.
VerbsInv ==
  /\ accepted \in Nat /\ commands \in Seq(Nat) /\ written \in Seq(Nat) /\ lost \in Seq(Nat)
  /\ Increasing(written) /\ Increasing(lost) /\ Increasing(commands)
  /\ Below(written, commands) /\ Below(lost, commands)
  /\ \A i \in 1..Len(commands) : commands[i] <= accepted
  /\ \A i \in 1..Len(written) : written[i] <= accepted
  /\ \A i \in 1..Len(lost) : lost[i] <= accepted
  /\ Len(written) + Len(lost) + Len(commands) = accepted
  /\ Len(lost) <= session /\ (InLoop => Len(lost) < session)

\* Two increasing sequences, the first below the second, are one.
LEMMA JoinIncreasing ==
  ASSUME NEW s \in Seq(Nat), NEW t \in Seq(Nat), Increasing(s), Increasing(t), Below(s, t)
  PROVE  Increasing(s \o t)
<1> SUFFICES ASSUME NEW i \in 1..Len(s \o t), NEW j \in 1..Len(s \o t), i < j
             PROVE  (s \o t)[i] < (s \o t)[j]
  BY DEF Increasing
<1>1. CASE j <= Len(s)
  BY <1>1 DEF Increasing
<1>2. CASE i <= Len(s) /\ j > Len(s)
  <2>1. (s \o t)[i] = s[i] /\ (s \o t)[j] = t[j - Len(s)] /\ j - Len(s) \in 1..Len(t)
    BY <1>2
  <2> QED
    BY <2>1, <1>2 DEF Below
<1>3. CASE i > Len(s)
  <2>1. (s \o t)[i] = t[i - Len(s)] /\ (s \o t)[j] = t[j - Len(s)]
    BY <1>3
  <2>2. i - Len(s) \in 1..Len(t) /\ j - Len(s) \in 1..Len(t) /\ i - Len(s) < j - Len(s)
    BY <1>3
  <2> QED
    BY <2>1, <2>2 DEF Increasing
<1> QED
  BY <1>1, <1>2, <1>3

\* What follows everything in an increasing sequence may be appended to it,
\* and a bound of both bounds the result.
LEMMA AppendIncreasing ==
  ASSUME NEW s \in Seq(Nat), Increasing(s), NEW n \in Nat, \A i \in 1..Len(s) : s[i] < n
  PROVE  /\ Append(s, n) \in Seq(Nat) /\ Len(Append(s, n)) = Len(s) + 1
         /\ Increasing(Append(s, n))
         /\ \A i \in 1..Len(Append(s, n)) : Append(s, n)[i] <= n
         /\ \A i \in 1..Len(Append(s, n)) : Append(s, n)[i] = n \/ (i \in 1..Len(s) /\ Append(s, n)[i] = s[i])
<1>1. Append(s, n) \in Seq(Nat) /\ Len(Append(s, n)) = Len(s) + 1 /\ Len(s) \in Nat
  OBVIOUS
<1>2. \A i \in 1..Len(s) : Append(s, n)[i] = s[i] /\ s[i] \in Nat
  OBVIOUS
<1>3. Append(s, n)[Len(s) + 1] = n
  OBVIOUS
<1>4. \A i \in 1..(Len(s) + 1) : i \in 1..Len(s) \/ i = Len(s) + 1
  BY <1>1
<1>5. Increasing(Append(s, n))
  BY <1>1, <1>2, <1>3, <1>4 DEF Increasing
<1>6. \A i \in 1..Len(Append(s, n)) : Append(s, n)[i] <= n
  BY <1>1, <1>2, <1>3, <1>4
<1> QED
  BY <1>1, <1>2, <1>3, <1>4, <1>5, <1>6

\* The queue without its head, and the head in relation to what is older.
LEMMA QueueAdvances ==
  ASSUME VerbsInv, commands # <<>>
  PROVE  /\ Head(commands) \in Nat /\ Head(commands) <= accepted
         /\ Tail(commands) \in Seq(Nat) /\ Len(Tail(commands)) = Len(commands) - 1
         /\ Increasing(Tail(commands))
         /\ \A i \in 1..Len(Tail(commands)) :
              Tail(commands)[i] <= accepted /\ Head(commands) < Tail(commands)[i]
         /\ Below(written, Tail(commands)) /\ Below(lost, Tail(commands))
         /\ \A i \in 1..Len(written) : written[i] < Head(commands)
         /\ \A i \in 1..Len(lost) : lost[i] < Head(commands)
<1>1. commands \in Seq(Nat) /\ Len(commands) \in Nat /\ 1 \in 1..Len(commands) /\ Head(commands) = commands[1]
  BY DEF VerbsInv
<1>2. \A i \in 1..Len(Tail(commands)) : i + 1 \in 1..Len(commands) /\ Tail(commands)[i] = commands[i + 1]
  BY <1>1
<1>3. Tail(commands) \in Seq(Nat) /\ Len(Tail(commands)) = Len(commands) - 1
  BY <1>1
<1>4. Increasing(Tail(commands))
  BY <1>2, <1>3 DEF VerbsInv, Increasing
<1>5. \A i \in 1..Len(Tail(commands)) :
        Tail(commands)[i] <= accepted /\ Head(commands) < Tail(commands)[i]
  BY <1>1, <1>2 DEF VerbsInv, Increasing
<1>6. Below(written, Tail(commands)) /\ Below(lost, Tail(commands))
  BY <1>2 DEF VerbsInv, Below
<1>7. /\ \A i \in 1..Len(written) : written[i] < Head(commands)
      /\ \A i \in 1..Len(lost) : lost[i] < Head(commands)
  BY <1>1 DEF VerbsInv, Below
<1> QED
  BY <1>1, <1>3, <1>4, <1>5, <1>6, <1>7 DEF VerbsInv

LEMMA SubmitKeepsVerbs ==
  ASSUME HandleInv, VerbsInv, Submit
  PROVE  VerbsInv'
<1>1. commands' = Append(commands, accepted + 1) /\ accepted' = accepted + 1
  BY DEF Submit
<1>2. UNCHANGED <<written, lost, session, pc>>
  BY DEF Submit, runVars
<1>3. /\ accepted + 1 \in Nat /\ accepted \in Nat /\ commands \in Seq(Nat)
      /\ Increasing(commands) /\ \A i \in 1..Len(commands) : commands[i] < accepted + 1
  BY DEF VerbsInv
<1>4. /\ commands' \in Seq(Nat) /\ Len(commands') = Len(commands) + 1 /\ Increasing(commands')
      /\ \A i \in 1..Len(commands') : commands'[i] <= accepted + 1
      /\ \A i \in 1..Len(commands') : commands'[i] = accepted + 1 \/ (i \in 1..Len(commands) /\ commands'[i] = commands[i])
  BY <1>1, <1>3, AppendIncreasing, SMTT(30)
<1>5. /\ \A i \in 1..Len(written) : written[i] < accepted + 1
      /\ \A i \in 1..Len(lost) : lost[i] < accepted + 1
      /\ written \in Seq(Nat) /\ lost \in Seq(Nat)
  BY DEF VerbsInv
<1>6. Below(written, commands') /\ Below(lost, commands')
  BY <1>4, <1>5 DEF VerbsInv, Below
<1>7. Len(written) + Len(lost) + Len(commands') = accepted'
  <2>1. Len(commands') = Len(commands) + 1 /\ accepted' = accepted + 1
    BY <1>1, <1>4
  <2>2. /\ Len(written) \in Nat /\ Len(lost) \in Nat /\ Len(commands) \in Nat /\ accepted \in Nat
        /\ Len(written) + Len(lost) + Len(commands) = accepted
    BY DEF VerbsInv
  <2> QED
    BY <2>1, <2>2
<1>8. /\ \A i \in 1..Len(written) : written[i] <= accepted'
      /\ \A i \in 1..Len(lost) : lost[i] <= accepted'
  BY <1>1, <1>3, <1>5
<1> QED
  BY <1>1, <1>2, <1>3, <1>4, <1>5, <1>6, <1>7, <1>8 DEF VerbsInv, InLoop

\* The head of the queue joins a sequence of older verbs.
LEMMA HeadJoins ==
  ASSUME VerbsInv, commands # <<>>, NEW s \in Seq(Nat), Increasing(s),
         \A i \in 1..Len(s) : s[i] < Head(commands)
  PROVE  /\ Append(s, Head(commands)) \in Seq(Nat)
         /\ Len(Append(s, Head(commands))) = Len(s) + 1
         /\ Increasing(Append(s, Head(commands)))
         /\ Below(Append(s, Head(commands)), Tail(commands))
         /\ \A i \in 1..Len(Append(s, Head(commands))) : Append(s, Head(commands))[i] <= accepted
<1> DEFINE h == Head(commands)  app == Append(s, h)
<1>1. /\ h \in Nat /\ h <= accepted /\ accepted \in Nat
      /\ Tail(commands) \in Seq(Nat)
      /\ \A i \in 1..Len(Tail(commands)) : h < Tail(commands)[i]
  BY QueueAdvances DEF VerbsInv
<1>2. /\ app \in Seq(Nat) /\ Len(app) = Len(s) + 1 /\ Increasing(app)
      /\ \A i \in 1..Len(app) : app[i] <= h
  BY <1>1, AppendIncreasing
<1> HIDE DEF h, app
<1>3. \A i \in 1..Len(app) : app[i] \in Nat /\ app[i] <= accepted
  BY <1>1, <1>2
<1>4. \A j \in 1..Len(Tail(commands)) : Tail(commands)[j] \in Nat
  BY <1>1
<1>5. Below(app, Tail(commands))
  BY <1>1, <1>2, <1>3, <1>4 DEF Below
<1> QED
  BY <1>2, <1>3, <1>5 DEF app, h

\* The head of the queue goes to the meter, or is the one verb this session
\* loses.
LEMMA DrainVerbKeepsVerbs ==
  ASSUME HandleInv, VerbsInv, DrainVerb
  PROVE  VerbsInv'
<1>1. /\ commands # <<>> /\ commands' = Tail(commands) /\ InLoop
      /\ UNCHANGED <<session, accepted>>
  BY DEF DrainVerb, WriteFails, InLoop
<1>2. /\ commands' \in Seq(Nat) /\ Len(commands') = Len(commands) - 1 /\ Increasing(commands')
      /\ \A i \in 1..Len(commands') : commands'[i] <= accepted
      /\ Below(written, commands') /\ Below(lost, commands')
      /\ \A i \in 1..Len(written) : written[i] < Head(commands)
      /\ \A i \in 1..Len(lost) : lost[i] < Head(commands)
  BY <1>1, QueueAdvances
<1>3. /\ Len(written) \in Nat /\ Len(lost) \in Nat /\ Len(commands) \in Nat /\ session \in Nat
      /\ accepted \in Nat /\ Len(written) + Len(lost) + Len(commands) = accepted
      /\ Len(lost) < session
  BY <1>1 DEF VerbsInv, HandleInv
<1>4. CASE written' = Append(written, Head(commands)) /\ UNCHANGED <<lost, pc>>
  <2>1. /\ written' \in Seq(Nat) /\ Len(written') = Len(written) + 1 /\ Increasing(written')
        /\ Below(written', commands')
        /\ \A i \in 1..Len(written') : written'[i] <= accepted
    BY <1>1, <1>2, <1>4, HeadJoins DEF VerbsInv
  <2>2. Len(written') + Len(lost') + Len(commands') = accepted'
    <3>1. /\ Len(written') = Len(written) + 1 /\ Len(lost') = Len(lost)
          /\ Len(commands') = Len(commands) - 1 /\ accepted' = accepted
      BY <1>1, <1>2, <1>4, <2>1
    <3> QED
      BY <1>3, <3>1
  <2>3. Len(lost') <= session' /\ (InLoop' => Len(lost') < session')
    BY <1>1, <1>3, <1>4
  <2> QED
    BY <1>1, <1>2, <1>4, <2>1, <2>2, <2>3 DEF VerbsInv
<1>5. CASE WriteFails(Head(commands)) /\ EndSession(AfterError) /\ UNCHANGED written
  <2>1. lost' = Append(lost, Head(commands)) /\ ~InLoop'
    BY <1>5, AfterErrorLeavesLoop DEF WriteFails, EndSession, InLoop
  <2>2. /\ lost' \in Seq(Nat) /\ Len(lost') = Len(lost) + 1 /\ Increasing(lost')
        /\ Below(lost', commands')
        /\ \A i \in 1..Len(lost') : lost'[i] <= accepted
    BY <1>1, <1>2, <2>1, HeadJoins DEF VerbsInv
  <2>3. Len(written') + Len(lost') + Len(commands') = accepted'
    <3>1. /\ Len(written') = Len(written) /\ Len(lost') = Len(lost) + 1
          /\ Len(commands') = Len(commands) - 1 /\ accepted' = accepted
      BY <1>1, <1>2, <1>5, <2>2
    <3> QED
      BY <1>3, <3>1
  <2>4. Len(lost') <= session'
    BY <1>1, <1>3, <2>2
  <2> QED
    BY <1>1, <1>2, <1>5, <2>1, <2>2, <2>3, <2>4 DEF VerbsInv
<1> QED
  BY <1>4, <1>5 DEF DrainVerb

\* A step that moves no verb, and enters the loop only with a new session.
LEMMA OthersKeepVerbs ==
  ASSUME HandleInv, VerbsInv, UNCHANGED verbVars,
         \/ session' = session /\ (InLoop' => InLoop)
         \/ session' = session + 1
  PROVE  VerbsInv'
<1>1. UNCHANGED <<commands, accepted, written, lost>>
  BY DEF verbVars
<1>2. Len(lost) \in Nat /\ session \in Nat
  BY DEF VerbsInv, HandleInv
<1>3. Len(lost') <= session' /\ (InLoop' => Len(lost') < session')
  BY <1>1, <1>2 DEF VerbsInv
<1> QED
  BY <1>1, <1>3 DEF VerbsInv

LEMMA VerbsStep ==
  ASSUME HandleInv, VerbsInv, [Next]_vars
  PROVE  VerbsInv'
<1>1. CASE Submit
  BY <1>1, SubmitKeepsVerbs
<1>2. CASE DrainVerb
  BY <1>2, DrainVerbKeepsVerbs
<1>3. CASE Open
  BY <1>3, OthersKeepVerbs DEF Open
<1>4. CASE Unplug \/ Plug \/ Cancel
  BY <1>4, OthersKeepVerbs DEF Unplug, Plug, Cancel, runVars, InLoop
<1>5. CASE WaitElapses \/ RunReturns \/ OpenFails
  BY <1>5, OthersKeepVerbs, AfterErrorLeavesLoop DEF WaitElapses, RunReturns, OpenFails, InLoop
<1>6. CASE SelectDone \/ SelectReadErr \/ SelectFrame \/ SelectTick \/ WriteRequest
  <2>1. InLoop
    BY <1>6 DEF SelectDone, SelectReadErr, SelectFrame, SelectTick, WriteRequest, InLoop
  <2> QED
    BY <1>6, <2>1, OthersKeepVerbs
    DEF SelectDone, SelectReadErr, SelectFrame, SelectTick, WriteRequest, runVars
<1>7. ASSUME NEW s \in Sessions, Reader(s) PROVE VerbsInv'
  BY <1>7, OthersKeepVerbs
  DEF Reader, ReaderReads, ReaderDelivers, ReaderGivesUp, ReadFails, ReaderReports, runVars, InLoop
<1>8. CASE UNCHANGED vars
  BY <1>8, OthersKeepVerbs DEF vars, runVars, InLoop
<1> QED
  BY <1>1, <1>2, <1>3, <1>4, <1>5, <1>6, <1>7, <1>8 DEF Next, World, Owner

\* Every verb a client was told ok about is queued, was written, or was lost to
\* a failed write, in order, and a session loses at most one (owner.go:358).
THEOREM EveryVerbAccountedFor == Spec => []VerbsAccountedFor
<1>1. Init => HandleInv /\ VerbsInv
  BY SessionConstants
  DEF Init, HandleInv, OneHandle, InLoop, Sessions, VerbsInv, Increasing, Below
<1>2. HandleInv /\ VerbsInv /\ [Next]_vars => HandleInv' /\ VerbsInv'
  <2> SUFFICES ASSUME HandleInv, VerbsInv, [Next]_vars
               PROVE  HandleInv' /\ VerbsInv'
    OBVIOUS
  <2>1. HandleInv'
    BY HandleStep
  <2> QED
    BY <2>1, VerbsStep
<1>3. HandleInv /\ VerbsInv => VerbsAccountedFor
  <2> SUFFICES ASSUME VerbsInv PROVE VerbsAccountedFor
    OBVIOUS
  <2>1. Increasing(written \o commands)
    BY JoinIncreasing DEF VerbsInv
  <2> QED
    BY <2>1 DEF VerbsInv, VerbsAccountedFor, Increasing
<1> QED
  BY <1>1, <1>2, <1>3, PTL DEF Spec

-----------------------------------------------------------------------------
(* Types, and the bounds of the channels and of the model.                  *)

\* The cable, the context, the fault count, the loop's place and its delay.
LEMMA RunTypes ==
  ASSUME TypeOK, [Next]_vars
  PROVE  /\ plugged' \in BOOLEAN /\ cancelled' \in BOOLEAN /\ faults' \in 0..MaxFaults
         /\ pc' \in {"opening", "select", "draining", "waiting", "stopped"}
         /\ backoff' \in 1..MaxBackoff
<1> USE SessionConstants
<1>1. /\ faults' = faults \/ (faults < MaxFaults /\ faults' = faults + 1)
      /\ plugged' \in {plugged, TRUE, FALSE} /\ cancelled' \in {cancelled, TRUE}
  BY DEF Next, World, Owner, Reader, Unplug, Plug, Cancel, Submit, Fault, WaitElapses, RunReturns,
         OpenFails, Open, SelectDone, SelectReadErr, SelectFrame, SelectTick, DrainVerb,
         WriteRequest, ReaderReads, ReaderDelivers, ReaderGivesUp, ReadFails, ReaderReports,
         vars, worldVars
<1>2. pc' \in {pc, "opening", "select", "draining", "waiting", "stopped"}
  BY DEF Next, World, Owner, Reader, Unplug, Plug, Cancel, Submit, WaitElapses, RunReturns,
         OpenFails, Open, SelectDone, SelectReadErr, SelectFrame, SelectTick, DrainVerb,
         WriteRequest, ReaderReads, ReaderDelivers, ReaderGivesUp, ReadFails, ReaderReports,
         vars, runVars, EndSession, AfterError
<1>3. backoff' \in {backoff, NextBackoff(backoff)}
  BY DEF Next, World, Owner, Reader, Unplug, Plug, Cancel, Submit, WaitElapses, RunReturns,
         OpenFails, Open, SelectDone, SelectReadErr, SelectFrame, SelectTick, DrainVerb,
         WriteRequest, ReaderReads, ReaderDelivers, ReaderGivesUp, ReadFails, ReaderReports,
         vars, runVars
<1>4. NextBackoff(backoff) \in 1..MaxBackoff
  BY DEF TypeOK, NextBackoff
<1>5. faults' \in 0..MaxFaults
  BY <1>1 DEF TypeOK
<1> QED
  BY <1>1, <1>2, <1>3, <1>4, <1>5 DEF TypeOK

\* The readers' states, their error channels, and room in every channel.
LEMMA ReaderTypes ==
  ASSUME HandleInv, ChannelsInv, TypeOK, [Next]_vars
  PROVE  /\ reader' \in [Sessions -> {"none", "reading", "holding", "failed", "ended"}]
         /\ readErr' \in [Sessions -> BOOLEAN]
         /\ \A s \in Sessions : Len(frames'[s]) <= FramesCap
<1>0. /\ reader \in [Sessions -> {"none", "reading", "holding", "failed", "ended"}]
      /\ readErr \in [Sessions -> BOOLEAN]
      /\ \A s \in Sessions : Len(frames[s]) <= FramesCap
      /\ \A s \in Sessions : frames[s] \in Seq(Sessions)
      /\ frames \in [Sessions -> Seq(Sessions)]
  BY DEF TypeOK, ChannelsInv
<1>1. CASE UNCHANGED <<reader, readErr, frames>>
  BY <1>0, <1>1
<1>2. CASE Open
  BY <1>0, <1>2 DEF Open
<1>3. CASE SelectReadErr
  BY <1>0, <1>3 DEF SelectReadErr
<1>4. CASE SelectFrame
  <2>1. /\ session \in Sessions /\ frames[session] # <<>>
        /\ frames' = [frames EXCEPT ![session] = Tail(frames[session])]
        /\ UNCHANGED <<reader, readErr>>
    BY <1>4 DEF SelectFrame, ChannelOf, HandleInv, InLoop
  <2>2. Len(Tail(frames[session])) <= FramesCap
    <3>1. Len(Tail(frames[session])) = Len(frames[session]) - 1 /\ Len(frames[session]) \in Nat
      BY <1>0, <2>1
    <3> QED
      BY <1>0, <2>1, <3>1, SessionConstants
  <2> QED
    BY <1>0, <2>1, <2>2
<1>5. ASSUME NEW s \in Sessions, ReaderDelivers(s)
      PROVE  /\ reader' \in [Sessions -> {"none", "reading", "holding", "failed", "ended"}]
             /\ readErr' \in [Sessions -> BOOLEAN]
             /\ \A t \in Sessions : Len(frames'[t]) <= FramesCap
  <2>1. /\ Len(frames[s]) < FramesCap /\ frames' = [frames EXCEPT ![s] = Append(frames[s], s)]
        /\ reader' = [reader EXCEPT ![s] = "reading"] /\ UNCHANGED readErr
    BY <1>5 DEF ReaderDelivers, HasRoom, Deliver, ChannelOf
  <2>2. Len(Append(frames[s], s)) <= FramesCap
    BY <1>0, <2>1, SessionConstants
  <2> QED
    BY <1>0, <2>1, <2>2
<1>6. ASSUME NEW s \in Sessions, Reader(s), ~ReaderDelivers(s)
      PROVE  /\ reader' \in [Sessions -> {"none", "reading", "holding", "failed", "ended"}]
             /\ readErr' \in [Sessions -> BOOLEAN]
             /\ UNCHANGED frames
  BY <1>0, <1>6 DEF Reader, ReaderReads, ReaderGivesUp, ReadFails, ReaderReports
<1>7. World \/ (Owner /\ ~Open /\ ~SelectReadErr /\ ~SelectFrame) => UNCHANGED <<reader, readErr, frames>>
  BY DEF World, Unplug, Plug, Cancel, Submit, Owner, WaitElapses, RunReturns, OpenFails,
         SelectDone, SelectTick, DrainVerb, WriteRequest, readerVars
<1>8. CASE UNCHANGED vars
  BY <1>1, <1>8 DEF vars, readerVars
<1> QED
  BY <1>0, <1>1, <1>2, <1>3, <1>4, <1>5, <1>6, <1>7, <1>8 DEF Next

\* The queue, and where its verbs go.
LEMMA VerbTypes ==
  ASSUME TypeOK, [Next]_vars
  PROVE  /\ accepted' \in 0..MaxVerbs /\ commands' \in Seq(1..MaxVerbs) /\ Len(commands') <= QueueCap
         /\ written' \in Seq(1..MaxVerbs) /\ lost' \in Seq(1..MaxVerbs)
<1> DEFINE V == 1..MaxVerbs
<1>0. /\ accepted \in 0..MaxVerbs /\ commands \in Seq(V) /\ Len(commands) <= QueueCap
      /\ written \in Seq(V) /\ lost \in Seq(V)
  BY DEF TypeOK
<1>1. CASE UNCHANGED verbVars
  BY <1>0, <1>1 DEF verbVars
<1>2. CASE Submit
  <2>1. /\ accepted < MaxVerbs /\ Len(commands) < QueueCap /\ accepted' = accepted + 1
        /\ commands' = Append(commands, accepted + 1) /\ UNCHANGED <<written, lost>>
    BY <1>2 DEF Submit
  <2>2. accepted' \in 0..MaxVerbs /\ accepted + 1 \in V
    BY <1>0, <2>1, SessionConstants
  <2> HIDE DEF V
  <2>3. commands' \in Seq(V) /\ Len(commands') = Len(commands) + 1 /\ Len(commands) \in Nat
    BY <1>0, <2>1, <2>2
  <2>4. Len(commands') <= QueueCap
    BY <2>1, <2>3, SessionConstants
  <2> QED
    BY <1>0, <2>1, <2>2, <2>3, <2>4 DEF V
<1>3. CASE DrainVerb
  <2>1. /\ commands # <<>> /\ commands' = Tail(commands) /\ UNCHANGED accepted
        /\ \/ written' = Append(written, Head(commands)) /\ UNCHANGED lost
           \/ lost' = Append(lost, Head(commands)) /\ UNCHANGED written
    BY <1>3 DEF DrainVerb, WriteFails
  <2> HIDE DEF V
  <2>2. /\ Head(commands) \in V /\ commands' \in Seq(V)
        /\ Len(commands') = Len(commands) - 1 /\ Len(commands) \in Nat
    BY <1>0, <2>1
  <2>3. Len(commands') <= QueueCap
    BY <1>0, <2>2, SessionConstants
  <2>4. Append(written, Head(commands)) \in Seq(V) /\ Append(lost, Head(commands)) \in Seq(V)
    BY <1>0, <2>2
  <2>5. written' \in Seq(V) /\ lost' \in Seq(V)
    BY <1>0, <2>1, <2>4
  <2> QED
    BY <1>0, <2>1, <2>2, <2>3, <2>5 DEF V
<1>4. Next /\ ~Submit /\ ~DrainVerb => UNCHANGED verbVars
  BY DEF Next, World, Owner, Reader, Unplug, Plug, Cancel, WaitElapses, RunReturns, OpenFails, Open,
         SelectDone, SelectReadErr, SelectFrame, SelectTick, WriteRequest,
         ReaderReads, ReaderDelivers, ReaderGivesUp, ReadFails, ReaderReports
<1>5. CASE UNCHANGED vars
  BY <1>1, <1>5 DEF vars
<1> QED
  BY <1>1, <1>2, <1>3, <1>4, <1>5

LEMMA TypesStep ==
  ASSUME HandleInv, ChannelsInv, TypeOK, [Next]_vars
  PROVE  TypeOK'
<1>1. HandleInv' /\ ChannelsInv' /\ (handled' # handled => handled' = session)
  BY HandleStep, ChannelsStep
<1>2. handled' \in 0..(MaxFaults + 1)
  BY <1>1 DEF TypeOK
<1> QED
  BY <1>1, <1>2, RunTypes, ReaderTypes, VerbTypes DEF TypeOK, HandleInv, ChannelsInv

\* Every variable keeps its type, and no channel or queue ever holds more than
\* the code gives it room for (owner.go, frames of 4; the command queue of 16).
THEOREM TypeCorrect == Spec => []TypeOK
<1> DEFINE Inv == HandleInv /\ ChannelsInv /\ TypeOK
<1>1. Init => Inv
  <2> SUFFICES ASSUME Init PROVE Inv
    OBVIOUS
  <2>1. HandleInv /\ ChannelsInv
    BY SessionConstants DEF Init, HandleInv, OneHandle, InLoop, Sessions, ChannelsInv
  <2>2. \A s \in Sessions : Len(frames[s]) <= FramesCap
    BY SessionConstants DEF Init
  <2>3. commands \in Seq(1..MaxVerbs) /\ written \in Seq(1..MaxVerbs) /\ lost \in Seq(1..MaxVerbs)
    BY DEF Init
  <2>4. Len(commands) <= QueueCap
    BY SessionConstants DEF Init
  <2>5. /\ reader \in [Sessions -> {"none", "reading", "holding", "failed", "ended"}]
        /\ readErr \in [Sessions -> BOOLEAN]
    BY DEF Init
  <2>6. /\ faults \in 0..MaxFaults /\ backoff \in 1..MaxBackoff
        /\ accepted \in 0..MaxVerbs /\ handled \in 0..(MaxFaults + 1)
    BY SessionConstants DEF Init
  <2>7. /\ plugged \in BOOLEAN /\ cancelled \in BOOLEAN
        /\ pc \in {"opening", "select", "draining", "waiting", "stopped"}
    BY DEF Init
  <2> QED
    BY <2>1, <2>2, <2>3, <2>4, <2>5, <2>6, <2>7 DEF TypeOK, HandleInv, ChannelsInv
<1>2. Inv /\ [Next]_vars => Inv'
  BY HandleStep, ChannelsStep, TypesStep
<1>3. Inv => TypeOK
  OBVIOUS
<1> QED
  BY <1>1, <1>2, <1>3, PTL DEF Spec

-----------------------------------------------------------------------------
(* What ends a session.                                                     *)

\* A session's reader is started with it and sends at most one error, its
\* last act.
ReaderInv ==
  /\ reader \in [Sessions -> {"none", "reading", "holding", "failed", "ended"}]
  /\ readErr \in [Sessions -> BOOLEAN]
  /\ \A s \in Sessions : s > session => reader[s] = "none"
  /\ \A s \in Sessions : readErr[s] => reader[s] = "ended"

LEMMA ReaderStep ==
  ASSUME HandleInv, ReaderInv, [Next]_vars
  PROVE  ReaderInv'
<1>0. session \in 0..(MaxFaults + 1) /\ MaxFaults \in Nat
  BY SessionConstants DEF HandleInv
<1>1. CASE UNCHANGED <<reader, readErr, session>>
  BY <1>1 DEF ReaderInv
<1>2. CASE Open
  <2>1. /\ session' = session + 1 /\ session' \in Sessions /\ readErr' = readErr
        /\ reader' = [reader EXCEPT ![session'] = "reading"]
    BY <1>0, <1>2 DEF Open, Sessions
  <2>2. reader[session'] = "none" /\ ~readErr[session']
    BY <1>0, <2>1 DEF ReaderInv
  <2>3. \A s \in Sessions : s > session' => s > session /\ s # session'
    BY <1>0, <2>1 DEF Sessions
  <2> QED
    BY <2>1, <2>2, <2>3 DEF ReaderInv
<1>3. CASE SelectReadErr
  <2>1. /\ readErr' = [readErr EXCEPT ![session] = FALSE]
        /\ UNCHANGED <<session, reader>>
    BY <1>3 DEF SelectReadErr
  <2> QED
    BY <2>1 DEF ReaderInv
<1>4. ASSUME NEW s \in Sessions, Reader(s)
      PROVE  ReaderInv'
  <2>1. session' = session /\ reader[s] \notin {"none", "ended"}
    BY <1>4 DEF Reader, ReaderReads, ReaderDelivers, ReaderGivesUp, ReadFails, ReaderReports, runVars
  <2>2. ~(s > session) /\ ~readErr[s]
    BY <2>1 DEF ReaderInv
  <2>3. CASE readErr' = readErr
    <3>1. PICK r \in {"reading", "holding", "failed", "ended"} : reader' = [reader EXCEPT ![s] = r]
      BY <1>4, <2>3 DEF Reader, ReaderReads, ReaderDelivers, ReaderGivesUp, ReadFails, ReaderReports, ReaderInv
    <3> QED
      BY <2>1, <2>2, <2>3, <3>1 DEF ReaderInv
  <2>4. CASE ReaderReports(s)
    <3>1. /\ readErr' = [readErr EXCEPT ![s] = TRUE]
          /\ reader' = [reader EXCEPT ![s] = "ended"]
      BY <2>4 DEF ReaderReports
    <3> QED
      BY <2>1, <2>2, <3>1 DEF ReaderInv
  <2> QED
    BY <1>4, <2>3, <2>4 DEF Reader, ReaderReads, ReaderDelivers, ReaderGivesUp, ReadFails
<1>5. World \/ (Owner /\ ~Open /\ ~SelectReadErr) => UNCHANGED <<reader, readErr, session>>
  BY DEF World, Unplug, Plug, Cancel, Submit, Owner, WaitElapses, RunReturns, OpenFails,
         SelectDone, SelectFrame, SelectTick, DrainVerb, WriteRequest, readerVars, runVars
<1>6. CASE UNCHANGED vars
  BY <1>1, <1>6 DEF vars, readerVars, runVars
<1> QED
  BY <1>1, <1>2, <1>3, <1>4, <1>5, <1>6 DEF Next

\* A session that is over has had a fault of its own, unless Run has returned;
\* one that is still served on a plugged meter with a live reader needs none.
Unspoiled ==
  /\ plugged /\ ~readErr[session]
  /\ reader[session] \in {"reading", "holding"} \/ (reader[session] = "ended" /\ cancelled)

FaultsInv ==
  /\ faults \in 0..MaxFaults
  /\ ~InLoop => session <= faults \/ pc = "stopped"
  /\ InLoop => session <= faults \/ (session = faults + 1 /\ Unspoiled)
  /\ session <= faults + 1

\* As many faults as sessions leave nothing to show.
LEMMA Paid ==
  ASSUME faults' \in 0..MaxFaults, session' \in Nat, session' <= faults'
  PROVE  FaultsInv'
<1>1. MaxFaults \in Nat /\ faults' \in Nat
  BY SessionConstants
<1>2. \A m, n \in Nat : m <= n => m <= n + 1
  OBVIOUS
<1>3. session' <= faults' + 1
  BY <1>1, <1>2
<1> QED
  BY <1>3 DEF FaultsInv

\* A write fails for want of the cable, which was a fault of this session, or
\* by a fault of its own.
LEMMA FailedWritePaid ==
  ASSUME HandleInv, FaultsInv, InLoop,
         \/ ~plugged /\ faults' = faults
         \/ plugged /\ Fault
  PROVE  session <= faults' /\ faults' \in 0..MaxFaults
<1>1. session \in 0..(MaxFaults + 1) /\ MaxFaults \in Nat /\ faults \in 0..MaxFaults
  BY SessionConstants DEF HandleInv, FaultsInv
<1> QED
  BY <1>1 DEF FaultsInv, Unspoiled, Fault

\* The reads that fail on a plugged meter with an open handle are the faults.
LEMMA ReaderKeepsFaultsInv ==
  ASSUME HandleInv, ReaderInv, FaultsInv, NEW s \in Sessions, Reader(s)
  PROVE  FaultsInv'
<1>0. /\ session \in 0..(MaxFaults + 1) /\ MaxFaults \in Nat /\ faults \in 0..MaxFaults
  BY SessionConstants DEF HandleInv, FaultsInv
<1>1. UNCHANGED <<session, pc, plugged, cancelled>> /\ (InLoop' <=> InLoop)
  BY DEF Reader, ReaderReads, ReaderDelivers, ReaderGivesUp, ReadFails, ReaderReports, runVars,
         worldVars, InLoop
<1>2. CASE faults' = faults + 1 /\ faults < MaxFaults
  <2>1. session <= faults' /\ faults' \in 0..MaxFaults
    BY <1>0, <1>1, <1>2 DEF FaultsInv
  <2> QED
    BY <1>0, <1>1, <2>1, Paid
<1>3. CASE faults' = faults
  <2>1. CASE session <= faults \/ ~InLoop
    BY <1>0, <1>1, <1>3, <2>1 DEF FaultsInv, InLoop
  <2>2. CASE InLoop /\ session = faults + 1 /\ Unspoiled
    <3>1. session \in Sessions /\ handle[session] = "open"
      BY <2>2 DEF HandleInv, OneHandle, InLoop
    <3>2. CASE s # session
      <4>1. reader'[session] = reader[session] /\ readErr'[session] = readErr[session]
        BY <3>1, <3>2
        DEF Reader, ReaderReads, ReaderDelivers, ReaderGivesUp, ReadFails, ReaderReports, ReaderInv
      <4> QED
        BY <1>0, <1>1, <1>3, <2>2, <4>1 DEF FaultsInv, Unspoiled
    <3>3. CASE s = session
      <4>1. ReaderReads(s) \/ ReaderDelivers(s) \/ ReaderGivesUp(s)
        <5>1. plugged /\ reader[s] # "failed" /\ handle[s] = "open" /\ ~Fault
          BY <1>3, <1>0, <2>2, <3>1, <3>3 DEF Fault, Unspoiled
        <5>2. ~ReadFails(s) /\ ~ReaderReports(s)
          BY <5>1 DEF ReadFails, ReaderReports
        <5> QED
          BY <5>2 DEF Reader
      <4>2. Unspoiled'
        BY <1>1, <2>2, <3>1, <3>3, <4>1
        DEF ReaderReads, ReaderDelivers, ReaderGivesUp, MayGiveUp, Unspoiled, ReaderInv
      <4> QED
        BY <1>0, <1>1, <1>3, <2>2, <4>2 DEF FaultsInv
    <3> QED
      BY <3>2, <3>3
  <2> QED
    BY <2>1, <2>2 DEF FaultsInv
<1> QED
  BY <1>2, <1>3 DEF Reader, ReaderReads, ReaderDelivers, ReaderGivesUp, ReadFails, ReaderReports,
                    Fault, worldVars

LEMMA FaultsStep ==
  ASSUME HandleInv, ReaderInv, FaultsInv, [Next]_vars
  PROVE  FaultsInv'
<1>0. /\ session \in 0..(MaxFaults + 1) /\ MaxFaults \in Nat /\ faults \in 0..MaxFaults
      /\ AfterError \in {"stopped", "waiting"}
  BY SessionConstants DEF HandleInv, FaultsInv, AfterError
<1>1. CASE Open
  <2>1. /\ session' = session + 1 /\ session' \in Sessions /\ plugged' = plugged /\ plugged
        /\ readErr' = readErr /\ reader' = [reader EXCEPT ![session'] = "reading"]
        /\ faults' = faults /\ pc' = "select" /\ pc = "opening" /\ session' > session
    BY <1>0, <1>1 DEF Open, Sessions, worldVars
  <2>2. session <= faults
    BY <2>1 DEF FaultsInv, InLoop
  <2>3. Unspoiled'
    BY <2>1 DEF ReaderInv, Unspoiled
  <2>4. session' <= faults' \/ session' = faults' + 1
    BY <1>0, <2>1, <2>2
  <2> QED
    BY <1>0, <2>1, <2>3, <2>4 DEF FaultsInv, InLoop
<1>2. CASE Unplug
  BY <1>0, <1>2 DEF Unplug, Fault, FaultsInv, runVars, InLoop
<1>3. CASE Plug \/ Cancel \/ Submit
  <2>1. /\ UNCHANGED <<session, pc, faults, reader, readErr>>
        /\ (plugged => plugged') /\ (cancelled => cancelled')
    BY <1>3 DEF Plug, Cancel, Submit, runVars, readerVars, worldVars
  <2> QED
    BY <2>1 DEF FaultsInv, Unspoiled, InLoop
<1>4. CASE WaitElapses \/ RunReturns
  BY <1>0, <1>4 DEF WaitElapses, RunReturns, FaultsInv, InLoop, worldVars
<1>5. CASE OpenFails
  BY <1>0, <1>5 DEF OpenFails, Fault, FaultsInv, InLoop
<1>6. CASE SelectDone
  BY <1>0, <1>6 DEF SelectDone, EndSession, FaultsInv, InLoop, worldVars
<1>7. CASE SelectReadErr
  <2>1. session <= faults
    BY <1>7 DEF SelectReadErr, FaultsInv, Unspoiled, InLoop
  <2> QED
    BY <1>0, <1>7, <2>1 DEF SelectReadErr, EndSession, FaultsInv, InLoop, worldVars
<1>8. CASE SelectFrame \/ SelectTick
  <2>1. InLoop /\ InLoop'
    BY <1>8 DEF SelectFrame, SelectTick, InLoop, runVars
  <2>2. UNCHANGED <<session, faults, plugged, cancelled, reader, readErr>>
    BY <1>8 DEF SelectFrame, SelectTick, worldVars, runVars, readerVars
  <2> QED
    BY <2>1, <2>2 DEF FaultsInv, Unspoiled
<1>9. CASE DrainVerb \/ WriteRequest
  <2>1. InLoop /\ UNCHANGED <<session, plugged, cancelled, reader, readErr>>
    BY <1>9 DEF DrainVerb, WriteRequest, InLoop, readerVars
  <2>2. CASE pc' \in {"select", "draining"} /\ faults' = faults
    BY <2>1, <2>2 DEF FaultsInv, Unspoiled, InLoop
  <2>3. CASE /\ EndSession(AfterError)
             /\ \/ ~plugged /\ faults' = faults
                \/ plugged /\ Fault
    BY <1>0, <2>1, <2>3, FailedWritePaid, Paid
  <2>4. \/ pc' \in {"select", "draining"} /\ faults' = faults
        \/ /\ EndSession(AfterError)
           /\ \/ ~plugged /\ faults' = faults
              \/ plugged /\ Fault
    BY <1>9 DEF DrainVerb, WriteRequest
  <2> QED
    BY <2>2, <2>3, <2>4
<1>10. ASSUME NEW s \in Sessions, Reader(s) PROVE FaultsInv'
  BY <1>10, ReaderKeepsFaultsInv
<1>11. CASE UNCHANGED vars
  BY <1>11 DEF vars, worldVars, runVars, readerVars, FaultsInv, Unspoiled, InLoop
<1> QED
  BY <1>1, <1>2, <1>3, <1>4, <1>5, <1>6, <1>7, <1>8, <1>9, <1>10, <1>11 DEF Next, World, Owner

\* Every reconnect is paid for by a fault: nothing a reader of an earlier
\* session still does can end the session that follows it.
EverySessionCostsAFault == session <= faults + 1

\* A reader that has an error to report never waits for room (owner.go,
\* readErr of capacity 1): it cannot stay behind on that send.
ErrorAlwaysFits == \A s \in Sessions : reader[s] = "failed" => ErrFits(s)

\* The model's bound on sessions never refuses an open.
OpenNeverBounded == pc = "opening" => session < MaxFaults + 1

\* A session of the owner ends only because the cable or the device failed
\* during it (or on shutdown, when no other follows), whatever the readers
\* left behind by earlier sessions do.
THEOREM SessionsEndOnlyByFaults ==
  Spec => [](EverySessionCostsAFault /\ ErrorAlwaysFits /\ OpenNeverBounded)
<1> DEFINE Inv == HandleInv /\ ReaderInv /\ FaultsInv
<1>1. Init => Inv
  <2> SUFFICES ASSUME Init PROVE Inv
    OBVIOUS
  <2>1. HandleInv
    BY SessionConstants DEF Init, HandleInv, OneHandle, InLoop, Sessions
  <2>2. ReaderInv
    BY DEF Init, ReaderInv
  <2>3. FaultsInv
    BY SessionConstants DEF Init, FaultsInv, InLoop
  <2> QED
    BY <2>1, <2>2, <2>3
<1>2. Inv /\ [Next]_vars => Inv'
  BY HandleStep, ReaderStep, FaultsStep
<1>3. Inv => EverySessionCostsAFault /\ ErrorAlwaysFits /\ OpenNeverBounded
  <2> SUFFICES ASSUME Inv
               PROVE  EverySessionCostsAFault /\ ErrorAlwaysFits /\ OpenNeverBounded
    OBVIOUS
  <2>1. EverySessionCostsAFault
    BY DEF FaultsInv, EverySessionCostsAFault
  <2>2. ErrorAlwaysFits
    BY DEF ReaderInv, ErrorAlwaysFits, ErrFits
  <2>3. OpenNeverBounded
    BY SessionConstants DEF FaultsInv, HandleInv, InLoop, OpenNeverBounded
  <2> QED
    BY <2>1, <2>2, <2>3
<1> QED
  BY <1>1, <1>2, <1>3, PTL DEF Spec

\* A verb is lost only to a fault, and no fault costs two.
EveryLossCostsAFault == Len(lost) <= faults

LEMMA LossStep ==
  ASSUME HandleInv, VerbsInv, FaultsInv, EveryLossCostsAFault, [Next]_vars
  PROVE  EveryLossCostsAFault'
<1>0. /\ session \in Nat /\ faults \in 0..MaxFaults /\ MaxFaults \in Nat
      /\ lost \in Seq(Nat) /\ Len(lost) \in Nat /\ Len(lost) <= faults
  BY SessionConstants DEF HandleInv, FaultsInv, VerbsInv, EveryLossCostsAFault
<1>1. CASE UNCHANGED lost
  <2>1. faults' = faults \/ (faults < MaxFaults /\ faults' = faults + 1)
    BY DEF Next, World, Owner, Reader, Unplug, Plug, Cancel, Submit, Fault, WaitElapses, RunReturns,
           OpenFails, Open, SelectDone, SelectReadErr, SelectFrame, SelectTick, DrainVerb,
           WriteRequest, ReaderReads, ReaderDelivers, ReaderGivesUp, ReadFails, ReaderReports,
           vars, worldVars
  <2> QED
    BY <1>0, <1>1, <2>1 DEF EveryLossCostsAFault
<1>2. CASE DrainVerb /\ lost' # lost
  <2>1. /\ InLoop /\ lost' = Append(lost, Head(commands))
        /\ \/ ~plugged /\ faults' = faults
           \/ plugged /\ Fault
    BY <1>2 DEF DrainVerb, WriteFails, InLoop
  <2>2. session <= faults' /\ faults' \in 0..MaxFaults
    BY <2>1, FailedWritePaid
  <2>3. Len(lost') = Len(lost) + 1 /\ Len(lost) < session
    BY <1>0, <2>1 DEF VerbsInv
  <2> QED
    BY <1>0, <2>2, <2>3 DEF EveryLossCostsAFault
<1>3. [Next]_vars /\ ~DrainVerb => UNCHANGED lost
  BY DEF Next, World, Owner, Reader, Unplug, Plug, Cancel, Submit, WaitElapses, RunReturns,
         OpenFails, Open, SelectDone, SelectReadErr, SelectFrame, SelectTick, WriteRequest,
         ReaderReads, ReaderDelivers, ReaderGivesUp, ReadFails, ReaderReports, vars, verbVars
<1> QED
  BY <1>1, <1>2, <1>3

\* A verb the client was told ok about goes missing only when the meter failed,
\* one verb for one fault: no reconnect, no shutdown and no full channel loses
\* one (owner.go:358, drainCommands).
THEOREM VerbsLostOnlyToFaults == Spec => []EveryLossCostsAFault
<1> DEFINE Inv == HandleInv /\ VerbsInv /\ ReaderInv /\ FaultsInv /\ EveryLossCostsAFault
<1>1. Init => Inv
  <2> SUFFICES ASSUME Init PROVE Inv
    OBVIOUS
  <2>1. HandleInv /\ VerbsInv
    BY SessionConstants
    DEF Init, HandleInv, OneHandle, InLoop, Sessions, VerbsInv, Increasing, Below
  <2>2. ReaderInv
    BY DEF Init, ReaderInv
  <2>3. FaultsInv /\ EveryLossCostsAFault
    BY SessionConstants DEF Init, FaultsInv, EveryLossCostsAFault, InLoop
  <2> QED
    BY <2>1, <2>2, <2>3
<1>2. Inv /\ [Next]_vars => Inv'
  BY HandleStep, VerbsStep, ReaderStep, FaultsStep, LossStep
<1>3. Inv => EveryLossCostsAFault
  OBVIOUS
<1> QED
  BY <1>1, <1>2, <1>3, PTL DEF Spec
=============================================================================

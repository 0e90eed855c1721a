----------------------------- MODULE MainProofs -----------------------------
(* The release checker over restarts of its process, for any tags, running  *)
(* versions, order of versions, log levels and delays.                      *)
EXTENDS Main, WellFoundedInduction, TLAPS

LEMMA Delays ==
  /\ FirstDelay \in Nat /\ RecheckInterval \in Nat /\ MinimumInterval \in Nat /\ FailureBackoff \in Nat
  /\ FirstDelay <= FailureBackoff /\ FailureBackoff <= RecheckInterval
BY UpdateConstants

\* What the checker's steps do, as far as the notices are concerned.
noticeVars == <<latest, loggedTag, logged, journal, answer, current, level>>

\* The process remembers the tag it logged last, and printed it.
NoticeInv ==
  /\ release \in Tags /\ level \in Levels
  /\ loggedTag = journal
  /\ latest \in {NoTag, loggedTag} /\ logged \in {NoTag, loggedTag}

LEMMA InitNotice == MainInit => NoticeInv
BY DEF MainInit, Init, NoticeInv

LEMMA NoticesArePrinted == level \in Levels => Printed
BY MainConstants DEF Printed

\* An answer logs its tag when it is newer and was not the last one logged.
LEMMA AnswerNotice ==
  ASSUME NoticeInv, CheckerRuns, RecordSuccess(release), pc = "fetching", release' = release
  PROVE  NoticeInv' /\ (logged' # NoTag => logged' # journal)
<1>1. release # NoTag
  BY UpdateConstants DEF NoticeInv, NoTag
<1>2. level' \in Levels /\ release' \in Tags
  BY DEF NoticeInv, CheckerRuns
<1>3. Printed
  BY NoticesArePrinted DEF NoticeInv
<1>4. CASE Logs(release)
  <2>1. IsNewer(release, current) /\ release # loggedTag
    BY <1>4 DEF Logs
  <2>2. loggedTag' = release /\ logged' = release /\ latest' = release
    BY <1>4, <2>1 DEF RecordSuccess, Latest
  <2>3. journal' = release
    BY <1>1, <1>3, <2>2 DEF CheckerRuns
  <2> QED
    BY <1>2, <2>1, <2>2, <2>3 DEF NoticeInv
<1>5. CASE ~Logs(release)
  <2>1. loggedTag' = loggedTag /\ logged' = NoTag
    BY <1>5 DEF RecordSuccess
  <2>2. latest' \in {NoTag, loggedTag}
    BY <1>5 DEF RecordSuccess, Latest, Logs
  <2>3. journal' = journal
    BY <2>1 DEF CheckerRuns
  <2> QED
    BY <1>2, <2>1, <2>2, <2>3 DEF NoticeInv
<1> QED
  BY <1>4, <1>5

LEMMA FetchNotice ==
  ASSUME NoticeInv, CheckerRuns, FetchReturns
  PROVE  NoticeInv' /\ (~cancelled /\ logged' # NoTag => logged' # journal)
<1>1. pc = "fetching" /\ release' = release
  BY DEF FetchReturns
<1>2. CASE cancelled /\ UNCHANGED <<result, history, logged>>
  BY <1>1, <1>2 DEF NoticeInv, CheckerRuns, result
<1>3. CASE RecordFailure
  BY <1>1, <1>3 DEF NoticeInv, CheckerRuns, RecordFailure
<1>4. CASE RecordSuccess(release)
  BY <1>1, <1>4, AnswerNotice
<1> QED
  BY <1>2, <1>3, <1>4 DEF FetchReturns

LEMMA RunNotice ==
  ASSUME NoticeInv, CheckerRuns, Start \/ TimePasses \/ TimerFires \/ Returns
  PROVE  NoticeInv' /\ pc # "fetching"
<1>1. /\ pc # "fetching" /\ UNCHANGED <<latest, loggedTag, logged, release>>
  BY DEF Start, TimePasses, TimerFires, Returns, result
<1>2. journal' = journal /\ level' = level
  BY <1>1 DEF CheckerRuns
<1> QED
  BY <1>1, <1>2 DEF NoticeInv

\* The process and the world around the checker.
Around ==
  \/ Listens \/ ServerFails \/ RequestArrives \/ RequestEnds \/ SetLogLevel
  \/ Signal \/ Shutdown \/ DeadlinePasses \/ Exit \/ Panic
  \/ TimeWhileDown \/ (Publish /\ UNCHANGED mainVars)

LEMMA AroundNotice ==
  ASSUME NoticeInv, Around
  PROVE  NoticeInv'
<1>1. UNCHANGED <<latest, loggedTag, logged, journal>>
  BY DEF Around, Listens, ServerFails, RequestArrives, RequestEnds, SetLogLevel, Signal, Cancel, Shutdown,
         DeadlinePasses, Exit, Panic, TimeWhileDown, Publish, MainUnchanged, mainVars, updateVars, result
<1>2. release' \in Tags
  BY DEF Around, Listens, ServerFails, RequestArrives, RequestEnds, SetLogLevel, Signal, Cancel, Shutdown,
         DeadlinePasses, Exit, Panic, TimeWhileDown, Publish, MainUnchanged, mainVars, updateVars, NoticeInv
<1>3. level' \in Levels
  BY DEF Around, Listens, ServerFails, RequestArrives, RequestEnds, SetLogLevel, Signal, Cancel, Shutdown,
         DeadlinePasses, Exit, Panic, TimeWhileDown, Publish, MainUnchanged, mainVars, updateVars, NoticeInv
<1> QED
  BY <1>1, <1>2, <1>3 DEF NoticeInv

LEMMA StartsNotice ==
  ASSUME NoticeInv, SystemdRestarts \/ OperatorStarts
  PROVE  NoticeInv' /\ pc' = "starting"
BY DEF NoticeInv, SystemdRestarts, OperatorStarts, Starts, New

\* The two properties of a step, with the invariant.
LEMMA StepNotice ==
  ASSUME NoticeInv, [Next]_vars
  PROVE  /\ NoticeInv'
         /\ pc = "fetching" /\ pc' = "waiting" /\ ~cancelled /\ logged' # NoTag => logged' # journal
<1>1. CASE CheckerRuns
  BY <1>1, FetchNotice, RunNotice DEF CheckerRuns, RunNext
<1>2. CASE Around
  <2>1. pc' = pc
    BY <1>2 DEF Around, Listens, ServerFails, RequestArrives, RequestEnds, SetLogLevel, Signal, Cancel, Shutdown,
       DeadlinePasses, Exit, Panic, TimeWhileDown, Publish, MainUnchanged, mainVars, updateVars
  <2> QED
    BY <1>2, <2>1, AroundNotice
<1>3. CASE SystemdRestarts \/ OperatorStarts
  BY <1>3, StartsNotice
<1>4. CASE UNCHANGED vars
  BY <1>4 DEF vars, updateVars, mainVars, NoticeInv, result
<1> QED
  BY <1>1, <1>2, <1>3, <1>4 DEF Next, Around

\* A release that is shown has been printed, whatever level was selected when
\* it was found and however often the process was restarted (main.go:30).
THEOREM NoticeIsPrinted == Spec => []NoticePrinted
<1>1. NoticeInv => NoticePrinted
  BY DEF NoticeInv, NoticePrinted
<1> QED
  BY InitNotice, StepNotice, <1>1, PTL DEF Spec

\* One process does not log the same tag twice in a row (update.go:450).
THEOREM NoticeIsNotRepeated == Spec => NoticeNotRepeated
<1>1. NoticeInv /\ [Next]_vars => [pc = "fetching" /\ pc' = "waiting" /\ ~cancelled /\ logged' # NoTag => logged' # journal]_vars
  BY StepNotice
<1> QED
  BY InitNotice, StepNotice, <1>1, PTL DEF Spec, NoticeNotRepeated

-----------------------------------------------------------------------------
(* What /api/update shows.                                                  *)

StatusInv ==
  /\ release \in Tags /\ current \in Running /\ answer \in Tags \cup {NoTag}
  /\ latest = IF answer # NoTag /\ IsNewer(answer, current) THEN answer ELSE NoTag

LEMMA StepStatus == StatusInv /\ [Next]_vars => StatusInv'
<1> SUFFICES ASSUME StatusInv, [Next]_vars PROVE StatusInv'
  OBVIOUS
<1>1. CASE FetchReturns /\ RecordSuccess(release)
  <2>1. /\ answer' = release /\ latest' = Latest(release) /\ release' = release /\ current' = current
        /\ release # NoTag
    BY <1>1, UpdateConstants DEF FetchReturns, RecordSuccess, options, StatusInv, NoTag
  <2> QED
    BY <2>1 DEF StatusInv, Latest
<1>2. CASE SystemdRestarts \/ OperatorStarts
  BY <1>2 DEF StatusInv, SystemdRestarts, OperatorStarts, Starts, New, options
<1>3. CASE UNCHANGED <<latest, answer, current>> /\ release' \in Tags
  BY <1>3 DEF StatusInv
<1>4. CheckerRuns /\ ~(FetchReturns /\ RecordSuccess(release)) => UNCHANGED <<latest, answer, current, release>>
  BY DEF CheckerRuns, RunNext, Start, TimePasses, TimerFires, Returns, FetchReturns, RecordFailure,
         options, result, history
<1>5. Around => UNCHANGED <<latest, answer, current>> /\ release' \in Tags
  BY DEF Around, Listens, ServerFails, RequestArrives, RequestEnds, SetLogLevel, Signal, Cancel, Shutdown,
         DeadlinePasses, Exit, Panic, TimeWhileDown, Publish, MainUnchanged, mainVars, updateVars,
         options, result, history, StatusInv
<1>6. CASE UNCHANGED vars
  BY <1>3, <1>6 DEF vars, updateVars, options, result, history, StatusInv
<1> QED
  BY <1>1, <1>2, <1>3, <1>4, <1>5, <1>6 DEF Next, Around, CheckerRuns, StatusInv

\* Where IsNewer is the documented order, /api/update shows the last answer
\* GitHub gave this process, if that is newer than the running version
\* (update.go:436).
THEOREM StatusFollowsAnswers ==
  ASSUME \A t \in Tags, v \in Running : IsNewer(t, v) <=> Newer(t, v)
  PROVE  Spec => []StatusIsLastAnswer
<1>1. MainInit => StatusInv
  BY UpdateConstants DEF MainInit, Init, StatusInv, NoTag
<1>2. StatusInv => StatusIsLastAnswer
  BY DEF StatusInv, StatusIsLastAnswer
<1> QED
  BY <1>1, <1>2, StepStatus, PTL DEF Spec

-----------------------------------------------------------------------------
(* When GitHub is asked.                                                    *)

Age == Nat \cup {None}

\* Since the last request there was, or the timer still leaves, a delay.
DelayLeft(delay) == sinceRequest # None /\ sinceRequest + timer >= delay

SpacedInv ==
  /\ timer \in Nat /\ lastSuccess \in Age /\ lastFailure \in Age /\ sinceRequest \in Age
  /\ sinceAnswer = lastSuccess
  /\ pc \in {"waiting", "fetching"} => enabled /\ Automatic
  /\ pc = "fetching" => sinceRequest # None
  /\ pc \in {"starting", "waiting"} => sinceRequest = None \/ DelayLeft(FirstDelay)
  /\ pc \in {"starting", "waiting"} => lastFailure = None \/ DelayLeft(FailureBackoff)

LEMMA InitSpaced == MainInit => SpacedInv
BY Delays DEF MainInit, Init, SpacedInv, Age, None

LEMMA AgedOK ==
  ASSUME NEW age \in Age, NEW limit \in Nat
  PROVE  /\ Aged(age, limit) \in Age /\ (age = None <=> Aged(age, limit) = None)
         /\ age # None => Aged(age, limit) >= limit \/ Aged(age, limit) = age + 1
         /\ age # None => Aged(age, limit) >= age
BY DEF Age, None, Aged

\* Time brings a request nearer by no more than it makes the last one older.
LEMMA TimeSpaced ==
  ASSUME SpacedInv, TimePasses, UNCHANGED options
  PROVE  SpacedInv'
<1>1. /\ pc = "waiting" /\ pc' = "waiting" /\ timer \in Nat /\ timer > 0 /\ timer' = timer - 1
      /\ lastSuccess' = Aged(lastSuccess, MinimumInterval) /\ sinceAnswer' = Aged(sinceAnswer, MinimumInterval)
      /\ lastFailure' = Aged(lastFailure, FailureBackoff) /\ sinceRequest' = Aged(sinceRequest, FailureBackoff)
  BY DEF TimePasses, SpacedInv
<1>2. /\ lastSuccess' \in Age /\ lastFailure' \in Age /\ sinceRequest' \in Age
      /\ sinceAnswer' = lastSuccess' /\ (lastFailure = None <=> lastFailure' = None)
      /\ (sinceRequest = None <=> sinceRequest' = None)
      /\ sinceRequest # None => sinceRequest' >= FailureBackoff \/ sinceRequest' = sinceRequest + 1
  BY <1>1, AgedOK, Delays DEF SpacedInv
<1>3. ASSUME NEW d \in Nat, d <= FailureBackoff, DelayLeft(d)
      PROVE  DelayLeft(d)'
  <2>1. sinceRequest \in Nat /\ sinceRequest' \in Nat
    BY <1>2, <1>3 DEF DelayLeft, SpacedInv, Age
  <2> QED
    BY <1>1, <1>2, <1>3, <2>1, Delays DEF DelayLeft
<1>4. /\ sinceRequest' = None \/ DelayLeft(FirstDelay)'
      /\ lastFailure' = None \/ DelayLeft(FailureBackoff)'
  BY <1>1, <1>2, <1>3, Delays DEF SpacedInv
<1>5. timer' \in Nat /\ (enabled /\ Automatic)'
  BY <1>1 DEF SpacedInv, options, Automatic
<1> QED
  BY <1>1, <1>2, <1>4, <1>5 DEF SpacedInv

\* A request starts late enough; the timer that is set anew is long enough.
LEMMA CheckerSpaced ==
  ASSUME SpacedInv, RunNext
  PROVE  /\ SpacedInv'
         /\ pc # "fetching" /\ pc' = "fetching" =>
              /\ enabled /\ Automatic
              /\ sinceRequest # None => sinceRequest >= FirstDelay
              /\ sinceAnswer # None => sinceAnswer >= MinimumInterval
              /\ lastFailure # None => sinceRequest >= FailureBackoff
<1>1. UNCHANGED options /\ (Automatic' <=> Automatic) /\ enabled' = enabled
  BY DEF RunNext, Start, TimePasses, TimerFires, Returns, FetchReturns, options, Automatic
<1>2. CASE TimePasses
  BY <1>1, <1>2, TimeSpaced DEF TimePasses
<1>3. CASE Start \/ Returns
  BY <1>1, <1>3 DEF Start, Returns, SpacedInv, result, history, DelayLeft
<1>4. CASE TimerFires
  <2>1. pc = "waiting" /\ timer = 0 /\ UNCHANGED <<lastSuccess, lastFailure, sinceAnswer>>
    BY <1>4 DEF TimerFires, result
  <2>2. CASE ShouldCheck
    <3>1. pc' = "fetching" /\ sinceRequest' = 0 /\ timer' = timer
      BY <1>4, <2>2 DEF TimerFires
    <3>2. /\ enabled /\ Automatic
          /\ sinceRequest # None => sinceRequest >= FirstDelay
          /\ lastFailure # None => sinceRequest >= FailureBackoff
      BY <2>1, Delays DEF SpacedInv, DelayLeft, Age
    <3>3. sinceAnswer # None => sinceAnswer >= MinimumInterval
      BY <2>2, Delays DEF ShouldCheck, Holds, SpacedInv, Age
    <3>4. SpacedInv'
      BY <1>1, <2>1, <3>1, <3>2 DEF SpacedInv, Age, None
    <3> QED
      BY <3>2, <3>3, <3>4
  <2>3. CASE ~ShouldCheck
    <3>1. timer' = RecheckInterval /\ UNCHANGED <<pc, sinceRequest>>
      BY <1>4, <2>3 DEF TimerFires
    <3>2. sinceRequest # None => DelayLeft(FirstDelay)' /\ DelayLeft(FailureBackoff)'
      BY <3>1, Delays DEF SpacedInv, DelayLeft, Age
    <3>3. lastFailure = None \/ sinceRequest # None
      BY <2>1 DEF SpacedInv, DelayLeft
    <3> QED
      BY <1>1, <2>1, <3>1, <3>2, <3>3, Delays DEF SpacedInv
  <2> QED
    BY <2>2, <2>3
<1>5. CASE FetchReturns
  <2>1. /\ pc = "fetching" /\ pc' = "waiting" /\ timer' = RecheckInterval /\ sinceRequest' = sinceRequest
    BY <1>5 DEF FetchReturns, history
  <2>2. /\ lastSuccess' \in Age /\ lastFailure' \in Age /\ sinceAnswer' = lastSuccess'
    BY <1>5 DEF FetchReturns, RecordSuccess, RecordFailure, SpacedInv, result, history, Age
  <2>3. DelayLeft(FirstDelay)' /\ DelayLeft(FailureBackoff)'
    BY <2>1, Delays DEF SpacedInv, DelayLeft, Age, None
  <2> QED
    BY <1>1, <2>1, <2>2, <2>3, Delays DEF SpacedInv
<1> QED
  BY <1>2, <1>3, <1>4, <1>5 DEF RunNext

LEMMA AroundSpaced ==
  ASSUME SpacedInv, Around
  PROVE  SpacedInv' /\ pc' = pc
<1>1. /\ UNCHANGED <<pc, timer, lastSuccess, lastFailure, enabled, current, testHook, sinceAnswer>>
      /\ sinceRequest' \in {sinceRequest, Aged(sinceRequest, FailureBackoff)}
  BY DEF Around, Listens, ServerFails, RequestArrives, RequestEnds, SetLogLevel, Signal, Cancel, Shutdown,
         DeadlinePasses, Exit, Panic, TimeWhileDown, Publish, MainUnchanged, mainVars, updateVars,
         options, result, history
<1>2. /\ sinceRequest' \in Age /\ (sinceRequest = None <=> sinceRequest' = None)
      /\ sinceRequest # None => sinceRequest' >= sinceRequest
  BY <1>1, AgedOK, Delays DEF SpacedInv, Age
<1>3. ASSUME NEW d \in Nat, DelayLeft(d) PROVE DelayLeft(d)'
  <2>1. /\ timer \in Nat /\ timer' = timer /\ sinceRequest \in Nat /\ sinceRequest' \in Nat
        /\ sinceRequest' >= sinceRequest /\ sinceRequest + timer >= d /\ sinceRequest' # None
    BY <1>1, <1>2, <1>3 DEF SpacedInv, DelayLeft, Age
  <2>2. \A a, b, left \in Nat : a + left >= d /\ b >= a => b + left >= d
    OBVIOUS
  <2>3. sinceRequest' + timer' >= d
    BY <2>1, <2>2
  <2> QED
    BY <2>1, <2>3 DEF DelayLeft
<1>4. Automatic' <=> Automatic
  BY <1>1 DEF Automatic
<1> QED
  BY <1>1, <1>2, <1>3, <1>4, Delays DEF SpacedInv

\* A new process waits FirstDelay, whatever the old one did last.
LEMMA StartsSpaced ==
  ASSUME SpacedInv, SystemdRestarts \/ OperatorStarts
  PROVE  SpacedInv' /\ pc' = "starting"
<1>1. /\ pc' = "starting" /\ timer' = FirstDelay /\ lastSuccess' = None /\ lastFailure' = None
      /\ sinceAnswer' = None /\ sinceRequest' = sinceRequest
  BY DEF SystemdRestarts, OperatorStarts, Starts, New
<1> QED
  BY <1>1, Delays DEF SpacedInv, DelayLeft, Age

LEMMA StepSpaced ==
  ASSUME SpacedInv, [Next]_vars
  PROVE  /\ SpacedInv'
         /\ pc # "fetching" /\ pc' = "fetching" =>
              /\ enabled /\ Automatic
              /\ sinceRequest # None => sinceRequest >= FirstDelay
              /\ sinceAnswer # None => sinceAnswer >= MinimumInterval
              /\ lastFailure # None => sinceRequest >= FailureBackoff
<1>1. CASE CheckerRuns
  BY <1>1, CheckerSpaced DEF CheckerRuns
<1>2. CASE Around
  BY <1>2, AroundSpaced
<1>3. CASE SystemdRestarts \/ OperatorStarts
  BY <1>3, StartsSpaced
<1>4. CASE UNCHANGED vars
  <2>1. pc' = pc /\ (Automatic' <=> Automatic)
    BY <1>4 DEF vars, updateVars, options, Automatic
  <2> QED
    BY <1>4, <2>1 DEF vars, updateVars, options, result, history, SpacedInv, DelayLeft
<1> QED
  BY <1>1, <1>2, <1>3, <1>4 DEF Next, Around

\* GitHub is asked no oftener than the delays allow, whatever the answers, the
\* failures, the crashes and the restarts (update.go:247).
THEOREM RequestsAreSpaced == Spec => RequestsSpaced
<1>1. SpacedInv /\ [Next]_vars =>
        [pc # "fetching" /\ pc' = "fetching" =>
           /\ enabled /\ Automatic
           /\ sinceRequest # None => sinceRequest >= FirstDelay
           /\ sinceAnswer # None => sinceAnswer >= MinimumInterval
           /\ lastFailure # None => sinceRequest >= FailureBackoff]_vars
  BY StepSpaced
<1> QED
  BY InitSpaced, StepSpaced, <1>1, PTL DEF Spec, RequestsSpaced

-----------------------------------------------------------------------------
(* The order of versions.                                                   *)

Signs == {-1, 0, 1}

\* A set of positions that is not empty has a first one.
LEMMA FirstPosition ==
  ASSUME NEW S, S \subseteq Nat, S # {}
  PROVE  Min(S) \in S /\ \A y \in S : Min(S) <= y
<1>1. PICK x \in S : \A y \in S : ~(<<y, x>> \in OpToRel(<, Nat))
  BY NatLessThanWellFounded, WFMin
<1>2. \A y \in S : x \in Nat /\ y \in Nat /\ ~(y < x)
  BY <1>1 DEF OpToRel
<1>3. \A m, n \in Nat : ~(n < m) => m <= n
  OBVIOUS
<1>4. \E z \in S : \A y \in S : z <= y
  BY <1>2, <1>3
<1> QED
  BY <1>4 DEF Min

LEMMA Extremes ==
  ASSUME NEW m \in Nat, NEW n \in Nat
  PROVE  /\ Max({m, n}) \in {m, n} /\ m <= Max({m, n}) /\ n <= Max({m, n})
         /\ Min({m, n}) \in {m, n} /\ Min({m, n}) <= m /\ Min({m, n}) <= n
<1>1. \E x \in {m, n} : \A y \in {m, n} : x >= y
  OBVIOUS
<1>2. \E x \in {m, n} : \A y \in {m, n} : x <= y
  OBVIOUS
<1>3. Max({m, n}) \in {m, n} /\ \A y \in {m, n} : Max({m, n}) >= y
  BY <1>1 DEF Max
<1>4. Min({m, n}) \in {m, n} /\ \A y \in {m, n} : Min({m, n}) <= y
  BY <1>2 DEF Min
<1> QED
  BY <1>3, <1>4

\* The first comparison that is not a tie decides.
LEMMA FirstDecides ==
  ASSUME NEW n \in Nat, NEW s \in [1..n -> Signs]
  PROVE  \/ FirstOf(s) = 0 /\ \A i \in 1..n : s[i] = 0
         \/ \E k \in 1..n : FirstOf(s) = s[k] /\ s[k] # 0 /\ \A i \in 1..n : i < k => s[i] = 0
<1> DEFINE D == {i \in 1..n : s[i] # 0}
<1>1. FirstOf(s) = IF D = {} THEN 0 ELSE s[Min(D)]
  BY DEF FirstOf
<1>2. CASE D = {}
  BY <1>1, <1>2
<1>3. CASE D # {}
  <2>1. Min(D) \in D /\ \A y \in D : Min(D) <= y
    <3>1. D \subseteq Nat
      OBVIOUS
    <3> HIDE DEF D
    <3> QED
      BY <1>3, <3>1, FirstPosition
  <2>2. Min(D) \in 1..n /\ s[Min(D)] # 0
    BY <2>1
  <2>3. \A i \in 1..n : i < Min(D) => s[i] = 0
    BY <2>1, <2>2
  <2> QED
    BY <1>1, <1>3, <2>2, <2>3
<1> QED
  BY <1>2, <1>3

\* How FirstOf is found out, once it is known where the tie ends.
LEMMA Decided ==
  ASSUME NEW n \in Nat, NEW s \in [1..n -> Signs]
  PROVE  /\ FirstOf(s) \in Signs
         /\ (\A i \in 1..n : s[i] = 0) => FirstOf(s) = 0
         /\ \A k \in 1..n : s[k] # 0 /\ (\A i \in 1..n : i < k => s[i] = 0) => FirstOf(s) = s[k]
<1>1. \A i \in 1..n : s[i] \in Signs
  OBVIOUS
<1>2. 0 \in Signs
  BY DEF Signs
<1>3. FirstOf(s) \in Signs /\ ((\A i \in 1..n : s[i] = 0) => FirstOf(s) = 0)
  BY <1>1, <1>2, FirstDecides
<1>4. ASSUME NEW k \in 1..n, s[k] # 0, \A i \in 1..n : i < k => s[i] = 0
      PROVE  FirstOf(s) = s[k]
  <2>1. PICK j \in 1..n : FirstOf(s) = s[j] /\ s[j] # 0 /\ \A i \in 1..n : i < j => s[i] = 0
    BY <1>4, FirstDecides
  <2>2. ~(j < k) /\ ~(k < j) /\ j \in Int /\ k \in Int
    BY <1>4, <2>1
  <2>3. j = k
    BY <2>2
  <2> QED
    BY <2>1, <2>3
<1> QED
  BY <1>3, <1>4

\* Ties at the end change nothing.
LEMMA TiesAtTheEnd ==
  ASSUME NEW m \in Nat, NEW n \in Nat, m <= n, NEW s \in [1..m -> Signs], NEW t \in [1..n -> Signs],
         \A i \in 1..m : t[i] = s[i], \A i \in 1..n : i > m => t[i] = 0
  PROVE  FirstOf(t) = FirstOf(s)
<1>1. \A i \in 1..n : i \in 1..m \/ i > m
  OBVIOUS
<1>2. 1..m \subseteq 1..n
  OBVIOUS
<1>3. CASE \A i \in 1..m : s[i] = 0
  <2>1. \A i \in 1..n : t[i] = 0
    BY <1>1, <1>3
  <2> QED
    BY <1>3, <2>1, Decided
<1>4. CASE ~(\A i \in 1..m : s[i] = 0)
  <2>1. PICK k \in 1..m : FirstOf(s) = s[k] /\ s[k] # 0 /\ \A i \in 1..m : i < k => s[i] = 0
    BY <1>4, FirstDecides
  <2>2. k \in 1..n /\ t[k] = s[k]
    BY <1>2
  <2>3. \A i \in 1..n : i < k => i \in 1..m
    OBVIOUS
  <2>4. \A i \in 1..n : i < k => t[i] = 0
    BY <2>1, <2>3
  <2> QED
    BY <2>1, <2>2, <2>4, Decided
<1> QED
  BY <1>3, <1>4

\* Turned round, the comparisons decide the other way.
LEMMA TurnedRound ==
  ASSUME NEW n \in Nat, NEW s \in [1..n -> Signs], NEW t \in [1..n -> Signs],
         \A i \in 1..n : t[i] = -s[i]
  PROVE  FirstOf(t) = -FirstOf(s)
<1>1. \A i \in 1..n : s[i] \in {-1, 0, 1}
  BY DEF Signs
<1>2. CASE \A i \in 1..n : s[i] = 0
  <2>1. \A i \in 1..n : t[i] = 0
    BY <1>2
  <2> QED
    BY <1>2, <2>1, Decided
<1>3. CASE ~(\A i \in 1..n : s[i] = 0)
  <2>1. PICK k \in 1..n : FirstOf(s) = s[k] /\ s[k] # 0 /\ \A i \in 1..n : i < k => s[i] = 0
    BY <1>3, FirstDecides
  <2>2. t[k] # 0 /\ t[k] = -s[k] /\ \A i \in 1..n : i < k => t[i] = 0
    BY <1>1, <2>1
  <2> QED
    BY <2>1, <2>2, Decided
<1> QED
  BY <1>2, <1>3

\* What the comparisons of a with b, of b with c and of a with c have to do
\* with each other in an order.
Chained(ab, bc, ac) == ab <= 0 /\ bc <= 0 => ac <= 0 /\ (ac = 0 <=> ab = 0 /\ bc = 0)

\* The first difference of three chains of comparisons.
LEMMA FirstChained ==
  ASSUME NEW n \in Nat, NEW x \in [1..n -> Signs], NEW y \in [1..n -> Signs], NEW z \in [1..n -> Signs],
         \A i \in 1..n : Chained(x[i], y[i], z[i])
  PROVE  Chained(FirstOf(x), FirstOf(y), FirstOf(z))
<1> SUFFICES ASSUME FirstOf(x) <= 0, FirstOf(y) <= 0
             PROVE  FirstOf(z) <= 0 /\ (FirstOf(z) = 0 <=> FirstOf(x) = 0 /\ FirstOf(y) = 0)
  BY DEF Chained
<1>0. \A i \in 1..n : x[i] \in {-1, 0, 1} /\ y[i] \in {-1, 0, 1} /\ z[i] \in {-1, 0, 1}
  BY DEF Signs
<1>n. FirstOf(x) \in {-1, 0, 1} /\ FirstOf(y) \in {-1, 0, 1} /\ FirstOf(z) \in {-1, 0, 1}
  BY Decided DEF Signs
<1>1. ASSUME NEW k \in 1..n, x[k] <= 0, y[k] <= 0, x[k] # 0 \/ y[k] # 0,
             \A i \in 1..n : i < k => x[i] = 0 /\ y[i] = 0
      PROVE  FirstOf(z) < 0
  <2>1. \A i \in 1..n : i < k => z[i] = 0
    BY <1>1 DEF Chained
  <2>2. z[k] < 0 /\ z[k] # 0
    BY <1>0, <1>1 DEF Chained
  <2> QED
    BY <2>1, <2>2, Decided
<1>2. CASE \A i \in 1..n : x[i] = 0
  <2>1. FirstOf(x) = 0
    BY <1>2, Decided
  <2>2. CASE \A i \in 1..n : y[i] = 0
    <3>1. \A i \in 1..n : z[i] = 0
      BY <1>2, <2>2 DEF Chained
    <3> QED
      BY <2>1, <2>2, <3>1, Decided
  <2>3. CASE ~(\A i \in 1..n : y[i] = 0)
    <3>1. PICK k \in 1..n : FirstOf(y) = y[k] /\ y[k] # 0 /\ \A i \in 1..n : i < k => y[i] = 0
      BY <2>3, FirstDecides
    <3>2. FirstOf(z) < 0 /\ FirstOf(y) # 0
      BY <1>1, <1>2, <3>1
    <3> QED
      BY <1>n, <3>2
  <2> QED
    BY <2>2, <2>3
<1>3. CASE ~(\A i \in 1..n : x[i] = 0)
  <2>1. PICK k \in 1..n : FirstOf(x) = x[k] /\ x[k] # 0 /\ \A i \in 1..n : i < k => x[i] = 0
    BY <1>3, FirstDecides
  <2>2. CASE \A i \in 1..n : i < k => y[i] = 0
    <3>1. y[k] <= 0
      <4>1. y[k] # 0 => FirstOf(y) = y[k]
        BY <2>2, Decided
      <4> QED
        BY <1>0, <4>1
    <3>2. FirstOf(z) < 0 /\ FirstOf(x) # 0
      BY <1>1, <2>1, <2>2, <3>1
    <3> QED
      BY <1>n, <3>2
  <2>3. CASE ~(\A i \in 1..n : i < k => y[i] = 0)
    <3>1. PICK j \in 1..n : FirstOf(y) = y[j] /\ y[j] # 0 /\ \A i \in 1..n : i < j => y[i] = 0
      BY <2>3, FirstDecides
    <3>2. j < k
      <4>1. PICK i \in 1..n : i < k /\ y[i] # 0
        BY <2>3
      <4>2. ~(i < j) /\ i \in Int /\ j \in Int /\ k \in Int
        BY <3>1, <4>1
      <4> QED
        BY <4>1, <4>2
    <3>3. x[j] = 0 /\ \A i \in 1..n : i < j => x[i] = 0
      <4>1. \A i \in 1..n : i < j => i < k
        BY <3>2
      <4> QED
        BY <2>1, <3>2, <4>1
    <3>4. FirstOf(z) < 0
      BY <1>1, <3>1, <3>3
    <3> QED
      BY <1>n, <2>1, <3>1, <3>4
  <2> QED
    BY <2>2, <2>3
<1> QED
  BY <1>2, <1>3

\* What ParseVersion makes of a version, and the words of pre-releases.
Words == DOMAIN NumberOf \cup DOMAIN Ascii
Parsed == [core : Seq(Nat), pre : Seq(Words), ahead : Nat]

LEMMA NumbersCompared ==
  ASSUME NEW x \in Int, NEW y \in Int, NEW z \in Int
  PROVE  /\ Cmp(x, y) \in Signs /\ Cmp(y, x) = -Cmp(x, y) /\ Cmp(x, x) = 0
         /\ Chained(Cmp(x, y), Cmp(y, z), Cmp(x, z))
BY DEF Cmp, Signs, Chained

\* Numbers before words, each by its own order.
LEMMA WordOrder ==
  ASSUME NEW x \in Words, NEW y \in Words
  PROVE  /\ ComparePreID(x, y) = IF IsNumber(x) THEN IF IsNumber(y) THEN Cmp(Digits(x), Digits(y)) ELSE -1
                                 ELSE IF IsNumber(y) THEN 1 ELSE Cmp(Ascii[x], Ascii[y])
         /\ IsNumber(x) => Digits(x) \in Int
         /\ ~IsNumber(x) => Ascii[x] \in Int
<1>1. IsNumber(x) => Digits(x) \in Int
  <2> SUFFICES ASSUME IsNumber(x) PROVE Digits(x) \in Int
    OBVIOUS
  <2>1. NumberOf[x] \in Nat /\ MaxInt \in Nat
    BY WordConstants DEF IsNumber
  <2>2. Digits(x) \in {NumberOf[x], MaxInt}
    BY <2>1, Extremes DEF Digits
  <2> QED
    BY <2>1, <2>2
<1>2. ~IsNumber(x) => Ascii[x] \in Int
  BY WordConstants DEF IsNumber, Words
<1>3. CASE IsNumber(x) /\ IsNumber(y)
  BY <1>1, <1>2, <1>3 DEF ComparePreID
<1>4. CASE IsNumber(x) /\ ~IsNumber(y)
  BY <1>1, <1>2, <1>4 DEF ComparePreID
<1>5. CASE ~IsNumber(x) /\ IsNumber(y)
  BY <1>1, <1>2, <1>5 DEF ComparePreID
<1>6. CASE ~IsNumber(x) /\ ~IsNumber(y)
  BY <1>1, <1>2, <1>6 DEF ComparePreID
<1> QED
  BY <1>3, <1>4, <1>5, <1>6

LEMMA WordsCompared ==
  ASSUME NEW x \in Words, NEW y \in Words, NEW z \in Words
  PROVE  /\ ComparePreID(x, y) \in Signs /\ ComparePreID(y, x) = -ComparePreID(x, y)
         /\ ComparePreID(x, x) = 0
         /\ Chained(ComparePreID(x, y), ComparePreID(y, z), ComparePreID(x, z))
<1>1. \A v, w \in Words :
        ComparePreID(v, w) = IF IsNumber(v) THEN IF IsNumber(w) THEN Cmp(Digits(v), Digits(w)) ELSE -1
                             ELSE IF IsNumber(w) THEN 1 ELSE Cmp(Ascii[v], Ascii[w])
  BY WordOrder
<1>2. \A w \in Words : (IsNumber(w) => Digits(w) \in Int) /\ (~IsNumber(w) => Ascii[w] \in Int)
  BY WordOrder
<1>3. /\ ComparePreID(x, y) \in Signs /\ ComparePreID(y, x) = -ComparePreID(x, y) /\ ComparePreID(x, x) = 0
  BY <1>1, <1>2, NumbersCompared DEF Signs
<1>4. Chained(ComparePreID(x, y), ComparePreID(y, z), ComparePreID(x, z))
  <2>1. CASE IsNumber(x) /\ IsNumber(y) /\ IsNumber(z)
    BY <1>1, <1>2, <2>1, NumbersCompared
  <2>2. CASE ~IsNumber(x) /\ ~IsNumber(y) /\ ~IsNumber(z)
    BY <1>1, <1>2, <2>2, NumbersCompared
  <2>3. CASE IsNumber(x) /\ ~IsNumber(z)
    <3>1. ComparePreID(x, z) = -1 /\ (ComparePreID(x, y) = -1 \/ ComparePreID(y, z) = -1)
      BY <1>1, <2>3
    <3> QED
      BY <3>1 DEF Chained
  <2>4. CASE ~IsNumber(x) /\ IsNumber(z)
    <3>1. ComparePreID(x, y) = 1 \/ ComparePreID(y, z) = 1
      BY <1>1, <2>4
    <3> QED
      BY <3>1 DEF Chained
  <2>5. CASE (IsNumber(x) <=> IsNumber(z)) /\ (IsNumber(y) <=> ~IsNumber(x))
    <3>1. ComparePreID(x, y) = 1 \/ ComparePreID(y, z) = 1
      BY <1>1, <2>5
    <3> QED
      BY <3>1 DEF Chained
  <2> QED
    BY <2>1, <2>2, <2>3, <2>4, <2>5
<1> QED
  BY <1>3, <1>4

\* The parts of Compare.
CoreAt(a, b, i) == Cmp(At(a.core, i), At(b.core, i))
CoreOrder(a, b) == FirstOf([i \in 1..Max({Len(a.core), Len(b.core)}) |-> CoreAt(a, b, i)])
PreOrder(a, b) ==
  LET first == FirstOf([i \in 1..Min({Len(a.pre), Len(b.pre)}) |-> ComparePreID(a.pre[i], b.pre[i])])
  IN  IF first # 0 THEN first ELSE Cmp(Len(a.pre), Len(b.pre))
Keys(a, b) == <<CoreOrder(a, b), CompareRelease(a, b), PreOrder(a, b), Cmp(a.ahead, b.ahead)>>

\* Compare does not care how many missing parts it looks at.
LEMMA CorePadded ==
  ASSUME NEW a \in Parsed, NEW b \in Parsed, NEW n \in Nat, Len(a.core) <= n, Len(b.core) <= n
  PROVE  /\ [i \in 1..n |-> CoreAt(a, b, i)] \in [1..n -> Signs]
         /\ CoreOrder(a, b) = FirstOf([i \in 1..n |-> CoreAt(a, b, i)])
         /\ CoreOrder(a, b) \in Signs
<1>0. a.core \in Seq(Nat) /\ b.core \in Seq(Nat) /\ Len(a.core) \in Nat /\ Len(b.core) \in Nat
  BY DEF Parsed
<1>1. \A i \in Nat \ {0} : At(a.core, i) \in Nat /\ At(b.core, i) \in Nat
  BY <1>0 DEF At
<1>2. \A i \in Nat \ {0} : CoreAt(a, b, i) \in Signs
  BY <1>1, NumbersCompared DEF CoreAt
<1> DEFINE m == Max({Len(a.core), Len(b.core)})
<1>3. m \in Nat /\ m <= n /\ Len(a.core) <= m /\ Len(b.core) <= m
  BY <1>0, Extremes
<1>4. \A i \in 1..n : i > m => CoreAt(a, b, i) = 0
  <2> SUFFICES ASSUME NEW i \in 1..n, i > m PROVE CoreAt(a, b, i) = 0
    OBVIOUS
  <2>1. ~(i <= Len(a.core)) /\ ~(i <= Len(b.core))
    BY <1>0, <1>3
  <2> QED
    BY <2>1 DEF CoreAt, At, Cmp
<1> DEFINE s == [i \in 1..m |-> CoreAt(a, b, i)]  t == [i \in 1..n |-> CoreAt(a, b, i)]
<1>5. CoreOrder(a, b) = FirstOf(s)
  BY DEF CoreOrder
<1> HIDE DEF m
<1>6. s \in [1..m -> Signs] /\ t \in [1..n -> Signs]
  BY <1>2
<1>7. (\A i \in 1..m : t[i] = s[i]) /\ (\A i \in 1..n : i > m => t[i] = 0)
  BY <1>3, <1>4
<1> HIDE DEF s, t
<1>8. FirstOf(t) = FirstOf(s)
  BY <1>3, <1>6, <1>7, TiesAtTheEnd
<1>9. FirstOf(s) \in Signs
  BY <1>3, <1>6, Decided
<1> QED
  BY <1>5, <1>6, <1>8, <1>9 DEF t

\* A pre-release that ends first is the lower one: as if its next word were
\* below every word.
PreAt(a, b, i) ==
  IF i <= Len(a.pre) THEN IF i <= Len(b.pre) THEN ComparePreID(a.pre[i], b.pre[i]) ELSE 1
  ELSE IF i <= Len(b.pre) THEN -1 ELSE 0

LEMMA PrePadded ==
  ASSUME NEW a \in Parsed, NEW b \in Parsed, NEW n \in Nat, Len(a.pre) <= n, Len(b.pre) <= n
  PROVE  /\ [i \in 1..n |-> PreAt(a, b, i)] \in [1..n -> Signs]
         /\ PreOrder(a, b) = FirstOf([i \in 1..n |-> PreAt(a, b, i)])
         /\ PreOrder(a, b) \in Signs
<1> DEFINE la == Len(a.pre)  lb == Len(b.pre)  m == Min({la, lb})
           s == [i \in 1..m |-> ComparePreID(a.pre[i], b.pre[i])]
           t == [i \in 1..n |-> PreAt(a, b, i)]
<1>0. a.pre \in Seq(Words) /\ b.pre \in Seq(Words) /\ la \in Nat /\ lb \in Nat
  BY DEF Parsed
<1>1. /\ \A i \in 1..la : a.pre[i] \in Words
      /\ \A i \in 1..lb : b.pre[i] \in Words
  BY <1>0
<1>2. m \in {la, lb} /\ m \in Nat /\ m <= la /\ m <= lb
  BY <1>0, Extremes
<1>3. \A i \in 1..n : PreAt(a, b, i) \in Signs
  <2> SUFFICES ASSUME NEW i \in 1..n PROVE PreAt(a, b, i) \in Signs
    OBVIOUS
  <2>1. CASE i <= la /\ i <= lb
    <3>1. i \in 1..la /\ i \in 1..lb
      BY <1>0, <2>1
    <3>2. ComparePreID(a.pre[i], b.pre[i]) \in Signs
      BY <1>1, <3>1, WordsCompared
    <3> QED
      BY <2>1, <3>2 DEF PreAt
  <2>2. CASE ~(i <= la /\ i <= lb)
    BY <2>2 DEF PreAt, Signs
  <2> QED
    BY <2>1, <2>2
<1>4. PreOrder(a, b) = IF FirstOf(s) # 0 THEN FirstOf(s) ELSE Cmp(la, lb)
  BY DEF PreOrder
<1>5. \A i \in 1..m : i \in 1..n /\ PreAt(a, b, i) = ComparePreID(a.pre[i], b.pre[i])
  BY <1>0, <1>2 DEF PreAt
<1>6. t \in [1..n -> Signs] /\ s \in [1..m -> Signs] /\ \A i \in 1..m : t[i] = s[i]
  BY <1>3, <1>5
<1>7. (la < lb => t[m + 1] = -1) /\ (lb < la => t[m + 1] = 1) /\ (la # lb => m + 1 \in 1..n)
  <2>1. CASE la < lb
    <3>1. m = la /\ m + 1 \in 1..n /\ ~(m + 1 <= la) /\ m + 1 <= lb /\ ~(lb < la)
      BY <1>0, <1>2, <2>1
    <3>2. PreAt(a, b, m + 1) = -1
      BY <3>1 DEF PreAt
    <3> QED
      BY <3>1, <3>2
  <2>2. CASE lb < la
    <3>1. m = lb /\ m + 1 \in 1..n /\ ~(m + 1 <= lb) /\ m + 1 <= la /\ ~(la < lb)
      BY <1>0, <1>2, <2>2
    <3>2. PreAt(a, b, m + 1) = 1
      BY <3>1 DEF PreAt
    <3> QED
      BY <3>1, <3>2
  <2>3. CASE la = lb
    <3>1. ~(la < lb) /\ ~(lb < la)
      BY <1>0, <2>3
    <3> QED
      BY <2>3, <3>1
  <2> QED
    BY <1>0, <2>1, <2>2, <2>3
<1>8. la = lb => \A i \in 1..n : i > m => t[i] = 0
  BY <1>0, <1>2 DEF PreAt
<1> HIDE DEF s, t, m, la, lb
<1>9. CASE FirstOf(s) # 0
  <2>1. PICK k \in 1..m : FirstOf(s) = s[k] /\ s[k] # 0 /\ \A i \in 1..m : i < k => s[i] = 0
    BY <1>2, <1>6, <1>9, FirstDecides
  <2>2. \A i \in 1..n : i < k => i \in 1..m
    BY <1>2
  <2>3. k \in 1..n /\ t[k] # 0 /\ \A i \in 1..n : i < k => t[i] = 0
    BY <1>5, <1>6, <2>1, <2>2
  <2>4. FirstOf(t) = t[k]
    BY <1>6, <2>3, Decided
  <2>5. FirstOf(t) \in Signs /\ PreOrder(a, b) = FirstOf(t)
    BY <1>4, <1>6, <1>9, <2>1, <2>4
  <2> QED
    BY <1>6, <2>5 DEF t
<1>10. CASE FirstOf(s) = 0
  <2>1. \A i \in 1..m : s[i] = 0
    BY <1>2, <1>6, <1>10, FirstDecides
  <2>2. PreOrder(a, b) = Cmp(la, lb) /\ Cmp(la, lb) \in Signs
    BY <1>0, <1>4, <1>10, NumbersCompared
  <2>3. CASE la = lb
    <3>1. \A i \in 1..n : i \in 1..m \/ i > m
      BY <1>2
    <3>2. \A i \in 1..n : t[i] = 0
      BY <1>6, <1>8, <2>1, <2>3, <3>1
    <3>3. FirstOf(t) = 0 /\ Cmp(la, lb) = 0
      BY <1>0, <1>6, <2>3, <3>2, Decided, NumbersCompared
    <3> QED
      BY <1>6, <2>2, <3>3 DEF t
  <2>4. CASE la # lb
    <3>1. m + 1 \in 1..n /\ t[m + 1] = Cmp(la, lb) /\ t[m + 1] # 0
      BY <1>0, <1>7, <2>4 DEF Cmp
    <3>2. \A i \in 1..n : i < m + 1 => i \in 1..m
      BY <1>2
    <3>3. \A i \in 1..n : i < m + 1 => t[i] = 0
      BY <1>6, <2>1, <3>2
    <3>4. FirstOf(t) = t[m + 1]
      BY <1>6, <3>1, <3>3, Decided
    <3> QED
      BY <1>6, <2>2, <3>1, <3>4 DEF t
  <2> QED
    BY <2>3, <2>4
<1> QED
  BY <1>9, <1>10

LEMMA ReleaseCompared ==
  ASSUME NEW a \in Parsed, NEW b \in Parsed, NEW c \in Parsed
  PROVE  /\ CompareRelease(a, b) \in Signs /\ CompareRelease(b, a) = -CompareRelease(a, b)
         /\ CompareRelease(a, a) = 0
         /\ Chained(CompareRelease(a, b), CompareRelease(b, c), CompareRelease(a, c))
BY DEF CompareRelease, Cmp, Signs, Chained

\* Compare is the first difference of four comparisons: cores, release or
\* pre-release, words of the pre-release, commits past the tag.
LEMMA FourKeys ==
  ASSUME NEW a \in Parsed, NEW b \in Parsed
  PROVE  Keys(a, b) \in [1..4 -> Signs] /\ Compare(a, b) = FirstOf(Keys(a, b))
<1> DEFINE core == CoreOrder(a, b)  rel == CompareRelease(a, b)
           first == FirstOf([i \in 1..Min({Len(a.pre), Len(b.pre)}) |-> ComparePreID(a.pre[i], b.pre[i])])
           len == Cmp(Len(a.pre), Len(b.pre))  past == Cmp(a.ahead, b.ahead)
           pre == PreOrder(a, b)
<1>1. a.ahead \in Nat /\ b.ahead \in Nat /\ Len(a.pre) \in Nat /\ Len(b.pre) \in Nat
      /\ Len(a.core) \in Nat /\ Len(b.core) \in Nat
  BY DEF Parsed
<1>2. core \in Signs /\ pre \in Signs
  <2>1. Len(a.core) + Len(b.core) \in Nat /\ Len(a.core) <= Len(a.core) + Len(b.core)
        /\ Len(b.core) <= Len(a.core) + Len(b.core)
        /\ Len(a.pre) + Len(b.pre) \in Nat /\ Len(a.pre) <= Len(a.pre) + Len(b.pre)
        /\ Len(b.pre) <= Len(a.pre) + Len(b.pre)
    <3>1. \A i, j \in Nat : i + j \in Nat /\ i <= i + j /\ j <= i + j
      OBVIOUS
    <3> QED
      BY <1>1, <3>1
  <2> QED
    BY <2>1, CorePadded, PrePadded
<1>3. rel \in Signs /\ past \in Signs /\ len \in Signs
  BY <1>1, ReleaseCompared, NumbersCompared
<1>4. pre = IF first # 0 THEN first ELSE len
  BY DEF PreOrder
<1>5. first \in Signs
  <2> DEFINE m == Min({Len(a.pre), Len(b.pre)})
  <2>1. m \in Nat /\ m <= Len(a.pre) /\ m <= Len(b.pre)
    BY <1>1, Extremes
  <2> HIDE DEF m
  <2>2. \A i \in 1..m : i \in 1..Len(a.pre) /\ i \in 1..Len(b.pre)
    BY <1>1, <2>1
  <2>3. a.pre \in Seq(Words) /\ b.pre \in Seq(Words)
    BY DEF Parsed
  <2>4. \A i \in 1..m : a.pre[i] \in Words /\ b.pre[i] \in Words
    BY <2>2, <2>3
  <2>5. [i \in 1..m |-> ComparePreID(a.pre[i], b.pre[i])] \in [1..m -> Signs]
    BY <2>4, WordsCompared
  <2>6. FirstOf([i \in 1..m |-> ComparePreID(a.pre[i], b.pre[i])]) \in Signs
    BY <2>1, <2>5, Decided
  <2> QED
    BY <2>6 DEF m
<1>6. Compare(a, b) = FirstOf(<<core, rel, first, len, past>>)
  BY DEF Compare, CoreOrder, CoreAt
<1>7. Keys(a, b) = <<core, rel, pre, past>>
  BY DEF Keys
<1> HIDE DEF core, rel, first, len, past, pre
<1> DEFINE five == <<core, rel, first, len, past>>  four == <<core, rel, pre, past>>
<1>8. five \in [1..5 -> Signs] /\ four \in [1..4 -> Signs]
  BY <1>2, <1>3, <1>5
<1>9. /\ five[1] = core /\ five[2] = rel /\ five[3] = first /\ five[4] = len /\ five[5] = past
      /\ four[1] = core /\ four[2] = rel /\ four[3] = pre /\ four[4] = past
  OBVIOUS
<1> HIDE DEF five, four
<1>10. \A i \in 1..5 : i \in {1, 2, 3, 4, 5}
  OBVIOUS
<1>11. \A i \in 1..4 : i \in {1, 2, 3, 4}
  OBVIOUS
<1>a. \A k \in 1..5 : five[k] # 0 /\ (\A i \in 1..5 : i < k => five[i] = 0) => FirstOf(five) = five[k]
  BY <1>8, Decided
<1>b. \A k \in 1..4 : four[k] # 0 /\ (\A i \in 1..4 : i < k => four[i] = 0) => FirstOf(four) = four[k]
  BY <1>8, Decided
<1>12. FirstOf(five) = FirstOf(four)
  <2>1. CASE core # 0
    <3>1. FirstOf(five) = five[1]
      BY <1>9, <1>10, <1>a, <2>1
    <3>2. FirstOf(four) = four[1]
      BY <1>9, <1>11, <1>b, <2>1
    <3> QED
      BY <1>9, <3>1, <3>2
  <2>2. CASE core = 0 /\ rel # 0
    <3>1. FirstOf(five) = five[2]
      BY <1>9, <1>10, <1>a, <2>2
    <3>2. FirstOf(four) = four[2]
      BY <1>9, <1>11, <1>b, <2>2
    <3> QED
      BY <1>9, <3>1, <3>2
  <2>3. CASE core = 0 /\ rel = 0 /\ first # 0
    <3>1. FirstOf(five) = five[3]
      BY <1>9, <1>10, <1>a, <2>3
    <3>2. FirstOf(four) = four[3]
      BY <1>4, <1>9, <1>11, <1>b, <2>3
    <3> QED
      BY <1>4, <1>9, <2>3, <3>1, <3>2
  <2>4. CASE core = 0 /\ rel = 0 /\ first = 0 /\ len # 0
    <3>1. FirstOf(five) = five[4]
      BY <1>9, <1>10, <1>a, <2>4
    <3>2. FirstOf(four) = four[3]
      BY <1>4, <1>9, <1>11, <1>b, <2>4
    <3> QED
      BY <1>4, <1>9, <2>4, <3>1, <3>2
  <2>5. CASE core = 0 /\ rel = 0 /\ first = 0 /\ len = 0 /\ past # 0
    <3>1. FirstOf(five) = five[5]
      BY <1>9, <1>10, <1>a, <2>5
    <3>2. FirstOf(four) = four[4]
      BY <1>4, <1>9, <1>11, <1>b, <2>5
    <3> QED
      BY <1>9, <3>1, <3>2
  <2>6. CASE core = 0 /\ rel = 0 /\ first = 0 /\ len = 0 /\ past = 0
    <3>1. (\A i \in 1..5 : five[i] = 0) => FirstOf(five) = 0
      BY <1>8, Decided
    <3>2. (\A i \in 1..4 : four[i] = 0) => FirstOf(four) = 0
      BY <1>8, Decided
    <3>3. \A i \in 1..5 : five[i] = 0
      BY <1>9, <1>10, <2>6
    <3>4. \A i \in 1..4 : four[i] = 0
      BY <1>4, <1>9, <1>11, <2>6
    <3> QED
      BY <3>1, <3>2, <3>3, <3>4
  <2> QED
    BY <2>1, <2>2, <2>3, <2>4, <2>5, <2>6
<1> QED
  BY <1>6, <1>7, <1>8, <1>12 DEF five, four

\* Three versions on each of the four keys.
LEMMA KeysChained ==
  ASSUME NEW a \in Parsed, NEW b \in Parsed, NEW c \in Parsed
  PROVE  /\ \A i \in 1..4 : Chained(Keys(a, b)[i], Keys(b, c)[i], Keys(a, c)[i])
         /\ \A i \in 1..4 : Keys(b, a)[i] = -Keys(a, b)[i]
         /\ \A i \in 1..4 : Keys(a, a)[i] = 0
<1> DEFINE n == Len(a.core) + Len(b.core) + Len(c.core)
           m == Len(a.pre) + Len(b.pre) + Len(c.pre)
<1>1. /\ a.core \in Seq(Nat) /\ b.core \in Seq(Nat) /\ c.core \in Seq(Nat)
      /\ a.pre \in Seq(Words) /\ b.pre \in Seq(Words) /\ c.pre \in Seq(Words)
      /\ a.ahead \in Int /\ b.ahead \in Int /\ c.ahead \in Int
  BY DEF Parsed
<1>2. /\ n \in Nat /\ Len(a.core) <= n /\ Len(b.core) <= n /\ Len(c.core) <= n
      /\ m \in Nat /\ Len(a.pre) <= m /\ Len(b.pre) <= m /\ Len(c.pre) <= m
  <2>1. /\ Len(a.core) \in Nat /\ Len(b.core) \in Nat /\ Len(c.core) \in Nat
        /\ Len(a.pre) \in Nat /\ Len(b.pre) \in Nat /\ Len(c.pre) \in Nat
    BY <1>1
  <2>2. \A i, j, k \in Nat : i + j + k \in Nat /\ i <= i + j + k /\ j <= i + j + k /\ k <= i + j + k
    OBVIOUS
  <2> QED
    BY <2>1, <2>2
<1> DEFINE C(v, w) == [i \in 1..n |-> CoreAt(v, w, i)]
           P(v, w) == [i \in 1..m |-> PreAt(v, w, i)]
<1> HIDE DEF n, m
<1>3. \A v, w \in {a, b, c} : C(v, w) \in [1..n -> Signs] /\ CoreOrder(v, w) = FirstOf(C(v, w))
  BY <1>2, CorePadded
<1>4. \A v, w \in {a, b, c} : P(v, w) \in [1..m -> Signs] /\ PreOrder(v, w) = FirstOf(P(v, w))
  BY <1>2, PrePadded
<1>5. \A v \in {a, b, c} : \A i \in 1..n : At(v.core, i) \in Int
  <2> SUFFICES ASSUME NEW v \in {a, b, c}, NEW i \in 1..n PROVE At(v.core, i) \in Int
    OBVIOUS
  <2>1. v.core \in Seq(Nat)
    BY <1>1
  <2>2. i <= Len(v.core) => v.core[i] \in Nat
    BY <2>1
  <2> QED
    BY <2>2 DEF At
<1>6. \A i \in 1..n : /\ Chained(C(a, b)[i], C(b, c)[i], C(a, c)[i])
                      /\ C(b, a)[i] = -C(a, b)[i] /\ C(a, a)[i] = 0
  BY <1>5, NumbersCompared DEF CoreAt
<1>7. \A i \in 1..m : /\ Chained(P(a, b)[i], P(b, c)[i], P(a, c)[i])
                      /\ P(b, a)[i] = -P(a, b)[i] /\ P(a, a)[i] = 0
  <2> SUFFICES ASSUME NEW i \in 1..m
               PROVE  /\ Chained(PreAt(a, b, i), PreAt(b, c, i), PreAt(a, c, i))
                      /\ PreAt(b, a, i) = -PreAt(a, b, i) /\ PreAt(a, a, i) = 0
    OBVIOUS
  <2>1. /\ i <= Len(a.pre) => a.pre[i] \in Words
        /\ i <= Len(b.pre) => b.pre[i] \in Words
        /\ i <= Len(c.pre) => c.pre[i] \in Words
    BY <1>1
  <2>2. PreAt(b, a, i) = -PreAt(a, b, i) /\ PreAt(a, a, i) = 0
    BY <2>1, WordsCompared DEF PreAt
  <2>3. CASE i <= Len(a.pre) /\ i <= Len(b.pre) /\ i <= Len(c.pre)
    BY <2>1, <2>3, WordsCompared DEF PreAt
  <2>4. CASE ~(i <= Len(a.pre))
    <3>1. /\ PreAt(a, b, i) = IF i <= Len(b.pre) THEN -1 ELSE 0
          /\ PreAt(a, c, i) = IF i <= Len(c.pre) THEN -1 ELSE 0
      BY <2>4 DEF PreAt
    <3>2. CASE i <= Len(b.pre) /\ i <= Len(c.pre)
      BY <2>2, <3>1, <3>2 DEF Chained
    <3>3. CASE i <= Len(b.pre) /\ ~(i <= Len(c.pre))
      <4>1. PreAt(b, c, i) = 1
        BY <3>3 DEF PreAt
      <4> QED
        BY <2>2, <4>1 DEF Chained
    <3>4. CASE ~(i <= Len(b.pre))
      <4>1. PreAt(b, c, i) = IF i <= Len(c.pre) THEN -1 ELSE 0
        BY <3>4 DEF PreAt
      <4> QED
        BY <2>2, <3>1, <3>4, <4>1 DEF Chained
    <3> QED
      BY <2>2, <3>2, <3>3, <3>4
  <2>5. CASE i <= Len(a.pre) /\ ~(i <= Len(b.pre))
    <3>1. PreAt(a, b, i) = 1
      BY <2>5 DEF PreAt
    <3> QED
      BY <2>2, <3>1 DEF Chained
  <2>6. CASE i <= Len(b.pre) /\ ~(i <= Len(c.pre))
    <3>1. PreAt(b, c, i) = 1
      BY <2>6 DEF PreAt
    <3> QED
      BY <2>2, <3>1 DEF Chained
  <2> QED
    BY <2>2, <2>3, <2>4, <2>5, <2>6
<1> HIDE DEF C, P
<1>8. /\ Chained(CoreOrder(a, b), CoreOrder(b, c), CoreOrder(a, c))
      /\ CoreOrder(b, a) = -CoreOrder(a, b) /\ CoreOrder(a, a) = 0
  <2>a. /\ n \in Nat /\ C(a, b) \in [1..n -> Signs] /\ C(b, c) \in [1..n -> Signs]
        /\ C(a, c) \in [1..n -> Signs] /\ C(b, a) \in [1..n -> Signs]
    BY <1>2, <1>3
  <2>b. /\ \A i \in 1..n : Chained(C(a, b)[i], C(b, c)[i], C(a, c)[i])
        /\ \A i \in 1..n : C(b, a)[i] = -C(a, b)[i]
    BY <1>6
  <2>1. Chained(FirstOf(C(a, b)), FirstOf(C(b, c)), FirstOf(C(a, c)))
    BY <2>a, <2>b, FirstChained
  <2>2. FirstOf(C(b, a)) = -FirstOf(C(a, b))
    BY <2>a, <2>b, TurnedRound
  <2>c. C(a, a) \in [1..n -> Signs] /\ \A i \in 1..n : C(a, a)[i] = 0
    BY <1>3, <1>6
  <2>3. FirstOf(C(a, a)) = 0
    BY <2>a, <2>c, Decided
  <2> QED
    BY <1>3, <2>1, <2>2, <2>3
<1>9. /\ Chained(PreOrder(a, b), PreOrder(b, c), PreOrder(a, c))
      /\ PreOrder(b, a) = -PreOrder(a, b) /\ PreOrder(a, a) = 0
  <2>a. /\ m \in Nat /\ P(a, b) \in [1..m -> Signs] /\ P(b, c) \in [1..m -> Signs]
        /\ P(a, c) \in [1..m -> Signs] /\ P(b, a) \in [1..m -> Signs]
    BY <1>2, <1>4
  <2>b. /\ \A i \in 1..m : Chained(P(a, b)[i], P(b, c)[i], P(a, c)[i])
        /\ \A i \in 1..m : P(b, a)[i] = -P(a, b)[i]
    BY <1>7
  <2>1. Chained(FirstOf(P(a, b)), FirstOf(P(b, c)), FirstOf(P(a, c)))
    BY <2>a, <2>b, FirstChained
  <2>2. FirstOf(P(b, a)) = -FirstOf(P(a, b))
    BY <2>a, <2>b, TurnedRound
  <2>c. P(a, a) \in [1..m -> Signs] /\ \A i \in 1..m : P(a, a)[i] = 0
    BY <1>4, <1>7
  <2>3. FirstOf(P(a, a)) = 0
    BY <2>a, <2>c, Decided
  <2> QED
    BY <1>4, <2>1, <2>2, <2>3
<1>10. /\ Chained(Cmp(a.ahead, b.ahead), Cmp(b.ahead, c.ahead), Cmp(a.ahead, c.ahead))
       /\ Cmp(b.ahead, a.ahead) = -Cmp(a.ahead, b.ahead) /\ Cmp(a.ahead, a.ahead) = 0
  BY <1>1, NumbersCompared
<1>11. /\ Chained(CompareRelease(a, b), CompareRelease(b, c), CompareRelease(a, c))
       /\ CompareRelease(b, a) = -CompareRelease(a, b) /\ CompareRelease(a, a) = 0
  BY ReleaseCompared
<1>12. \A v, w : /\ Keys(v, w)[1] = CoreOrder(v, w) /\ Keys(v, w)[2] = CompareRelease(v, w)
                 /\ Keys(v, w)[3] = PreOrder(v, w) /\ Keys(v, w)[4] = Cmp(v.ahead, w.ahead)
  BY DEF Keys
<1>13. \A i \in 1..4 : i \in {1, 2, 3, 4}
  OBVIOUS
<1> QED
  BY <1>8, <1>9, <1>10, <1>11, <1>12, <1>13

\* Compare orders all versions: every version is its own equal, turning the
\* two round turns the answer round, and what is not older than a third stays
\* so through a second, with cores and pre-releases of any length
\* (update.go:163-186).
THEOREM VersionsOrdered ==
  ASSUME NEW a \in Parsed, NEW b \in Parsed, NEW c \in Parsed
  PROVE  /\ Compare(a, a) = 0 /\ Compare(b, a) = -Compare(a, b)
         /\ Chained(Compare(a, b), Compare(b, c), Compare(a, c))
<1>1. \A v, w \in {a, b, c} : Keys(v, w) \in [1..4 -> Signs] /\ Compare(v, w) = FirstOf(Keys(v, w))
  BY FourKeys
<1>2. Compare(a, a) = 0
  BY <1>1, KeysChained, Decided
<1>3. Compare(b, a) = -Compare(a, b)
  <2>1. Keys(a, b) \in [1..4 -> Signs] /\ Keys(b, a) \in [1..4 -> Signs] /\ 4 \in Nat
    BY <1>1
  <2>2. \A i \in 1..4 : Keys(b, a)[i] = -Keys(a, b)[i]
    BY KeysChained
  <2>3. FirstOf(Keys(b, a)) = -FirstOf(Keys(a, b))
    BY <2>1, <2>2, TurnedRound
  <2> QED
    BY <1>1, <2>3
<1>4. Chained(Compare(a, b), Compare(b, c), Compare(a, c))
  <2>1. /\ Keys(a, b) \in [1..4 -> Signs] /\ Keys(b, c) \in [1..4 -> Signs]
        /\ Keys(a, c) \in [1..4 -> Signs] /\ 4 \in Nat
    BY <1>1
  <2>2. \A i \in 1..4 : Chained(Keys(a, b)[i], Keys(b, c)[i], Keys(a, c)[i])
    BY KeysChained
  <2>3. Chained(FirstOf(Keys(a, b)), FirstOf(Keys(b, c)), FirstOf(Keys(a, c)))
    BY <2>1, <2>2, FirstChained
  <2> QED
    BY <1>1, <2>3
<1> QED
  BY <1>2, <1>3, <1>4

\* The same core, up to missing parts that count as 0.
SameCore(a, b) == \A i \in Nat \ {0} : At(a.core, i) = At(b.core, i)

LEMMA SameCoreTies ==
  ASSUME NEW a \in Parsed, NEW b \in Parsed, NEW c \in Parsed, SameCore(a, b)
  PROVE  CoreOrder(a, b) = 0 /\ CoreOrder(a, c) = CoreOrder(b, c)
<1> DEFINE n == Len(a.core) + Len(b.core) + Len(c.core)
<1>1. n \in Nat /\ Len(a.core) <= n /\ Len(b.core) <= n /\ Len(c.core) <= n
  <2>1. Len(a.core) \in Nat /\ Len(b.core) \in Nat /\ Len(c.core) \in Nat
    BY DEF Parsed
  <2>2. \A i, j, k \in Nat : i + j + k \in Nat /\ i <= i + j + k /\ j <= i + j + k /\ k <= i + j + k
    OBVIOUS
  <2> QED
    BY <2>1, <2>2
<1> HIDE DEF n
<1>2. \A i \in 1..n : CoreAt(a, b, i) = CoreAt(b, b, i) /\ CoreAt(a, c, i) = CoreAt(b, c, i)
  BY DEF SameCore, CoreAt
<1>3. CoreOrder(a, b) = CoreOrder(b, b)
  <2>1. [i \in 1..n |-> CoreAt(a, b, i)] = [i \in 1..n |-> CoreAt(b, b, i)]
    BY <1>2
  <2>2. CoreOrder(a, b) = FirstOf([i \in 1..n |-> CoreAt(a, b, i)])
    BY <1>1, CorePadded
  <2>3. CoreOrder(b, b) = FirstOf([i \in 1..n |-> CoreAt(b, b, i)])
    BY <1>1, CorePadded
  <2> QED
    BY <2>1, <2>2, <2>3
<1>4. CoreOrder(a, c) = CoreOrder(b, c)
  <2>1. [i \in 1..n |-> CoreAt(a, c, i)] = [i \in 1..n |-> CoreAt(b, c, i)]
    BY <1>2
  <2>2. CoreOrder(a, c) = FirstOf([i \in 1..n |-> CoreAt(a, c, i)])
    BY <1>1, CorePadded
  <2>3. CoreOrder(b, c) = FirstOf([i \in 1..n |-> CoreAt(b, c, i)])
    BY <1>1, CorePadded
  <2> QED
    BY <2>1, <2>2, <2>3
<1>5. Keys(b, b)[1] = 0
  BY KeysChained
<1> QED
  BY <1>3, <1>4, <1>5 DEF Keys

\* The same version but for the commits past it.
SameTag(a, b) == SameCore(a, b) /\ a.pre = b.pre

LEMMA SameTagTies ==
  ASSUME NEW a \in Parsed, NEW b \in Parsed, NEW c \in Parsed, SameTag(a, b)
  PROVE  /\ \A i \in 1..3 : Keys(a, b)[i] = 0 /\ Keys(a, c)[i] = Keys(b, c)[i]
         /\ Keys(a, b)[4] = Cmp(a.ahead, b.ahead)
<1>1. CoreOrder(a, b) = 0 /\ CoreOrder(a, c) = CoreOrder(b, c)
  BY SameCoreTies DEF SameTag
<1>2. CompareRelease(a, b) = CompareRelease(b, b) /\ CompareRelease(a, c) = CompareRelease(b, c)
  BY DEF SameTag, CompareRelease
<1>3. PreOrder(a, b) = PreOrder(b, b) /\ PreOrder(a, c) = PreOrder(b, c)
  BY DEF SameTag, PreOrder
<1>4. Keys(b, b)[2] = 0 /\ Keys(b, b)[3] = 0
  BY KeysChained
<1>5. \A v, w : /\ Keys(v, w)[1] = CoreOrder(v, w) /\ Keys(v, w)[2] = CompareRelease(v, w)
                /\ Keys(v, w)[3] = PreOrder(v, w) /\ Keys(v, w)[4] = Cmp(v.ahead, w.ahead)
  BY DEF Keys
<1>6. \A i \in 1..3 : i \in {1, 2, 3}
  OBVIOUS
<1> QED
  BY <1>1, <1>2, <1>3, <1>4, <1>5, <1>6

\* What the package comment says of the order: missing parts count as 0, a
\* pre-release sorts below its release, whatever was committed on top of it,
\* and a git describe build sorts above its tag and below every other tag
\* that is above it (update.go:9-13).
THEOREM OrderAsDocumented ==
  ASSUME NEW a \in Parsed, NEW b \in Parsed, NEW c \in Parsed
  PROVE  /\ SameTag(a, b) => Compare(a, b) = Cmp(a.ahead, b.ahead)
         /\ SameCore(a, b) /\ a.pre # <<>> /\ b.pre = <<>> => Compare(a, b) = -1
         /\ SameTag(a, b) /\ b.ahead = c.ahead /\ Compare(b, c) = -1 => Compare(a, c) = -1
<1>0. \A v, w \in {a, b, c} : Keys(v, w) \in [1..4 -> Signs] /\ Compare(v, w) = FirstOf(Keys(v, w))
  BY FourKeys
<1>a. \A i \in 1..4 : i \in 1..3 \/ i = 4
  OBVIOUS
<1>b. \A v, w \in {a, b, c} : \A k \in 1..4 :
        Keys(v, w)[k] # 0 /\ (\A i \in 1..4 : i < k => Keys(v, w)[i] = 0) => Compare(v, w) = Keys(v, w)[k]
  <2> SUFFICES ASSUME NEW v \in {a, b, c}, NEW w \in {a, b, c}, NEW k \in 1..4, Keys(v, w)[k] # 0,
                      \A i \in 1..4 : i < k => Keys(v, w)[i] = 0
               PROVE  Compare(v, w) = Keys(v, w)[k]
    OBVIOUS
  <2> DEFINE s == Keys(v, w)
  <2>1. s \in [1..4 -> Signs] /\ Compare(v, w) = FirstOf(s) /\ 4 \in Nat
    BY <1>0
  <2>2. s[k] # 0 /\ \A i \in 1..4 : i < k => s[i] = 0
    OBVIOUS
  <2> HIDE DEF s
  <2>3. FirstOf(s) = s[k]
    BY <2>1, <2>2, Decided
  <2> QED
    BY <2>1, <2>3 DEF s
<1>c. \A v, w \in {a, b, c} : (\A i \in 1..4 : Keys(v, w)[i] = 0) => Compare(v, w) = 0
  <2> SUFFICES ASSUME NEW v \in {a, b, c}, NEW w \in {a, b, c}, \A i \in 1..4 : Keys(v, w)[i] = 0
               PROVE  Compare(v, w) = 0
    OBVIOUS
  <2>1. Keys(v, w) \in [1..4 -> Signs] /\ Compare(v, w) = FirstOf(Keys(v, w)) /\ 4 \in Nat
    BY <1>0
  <2>2. FirstOf(Keys(v, w)) = 0
    BY <2>1, Decided
  <2> QED
    BY <2>1, <2>2
<1>1. ASSUME SameTag(a, b) PROVE Compare(a, b) = Cmp(a.ahead, b.ahead)
  <2>1. (\A i \in 1..3 : Keys(a, b)[i] = 0) /\ Keys(a, b)[4] = Cmp(a.ahead, b.ahead)
    BY <1>1, SameTagTies
  <2>2. CASE Keys(a, b)[4] = 0
    <3>1. \A i \in 1..4 : Keys(a, b)[i] = 0
      BY <1>a, <2>1, <2>2
    <3> QED
      BY <1>c, <2>1, <2>2, <3>1
  <2>3. CASE Keys(a, b)[4] # 0
    <3>1. \A i \in 1..4 : i < 4 => Keys(a, b)[i] = 0
      BY <1>a, <2>1
    <3>2. 4 \in 1..4
      OBVIOUS
    <3> QED
      BY <1>b, <2>1, <2>3, <3>1, <3>2
  <2> QED
    BY <2>2, <2>3
<1>2. ASSUME SameCore(a, b), a.pre # <<>>, b.pre = <<>> PROVE Compare(a, b) = -1
  <2>1. Keys(a, b)[1] = 0
    BY <1>2, SameCoreTies DEF Keys
  <2>2. Keys(a, b)[2] = -1
    BY <1>2 DEF Keys, CompareRelease, Cmp
  <2>3. \A i \in 1..4 : i < 2 => i = 1
    OBVIOUS
  <2>4. 2 \in 1..4 /\ Keys(a, b)[2] # 0 /\ \A i \in 1..4 : i < 2 => Keys(a, b)[i] = 0
    BY <2>1, <2>2, <2>3
  <2> QED
    BY <1>b, <2>2, <2>4
<1>3. ASSUME SameTag(a, b), b.ahead = c.ahead, Compare(b, c) = -1 PROVE Compare(a, c) = -1
  <2>1. PICK k \in 1..4 : /\ Compare(b, c) = Keys(b, c)[k] /\ Keys(b, c)[k] # 0
                          /\ \A i \in 1..4 : i < k => Keys(b, c)[i] = 0
    <3> DEFINE s == Keys(b, c)
    <3>1. s \in [1..4 -> Signs] /\ Compare(b, c) = FirstOf(s) /\ FirstOf(s) = -1 /\ 4 \in Nat
      BY <1>0, <1>3
    <3> HIDE DEF s
    <3>2. \/ FirstOf(s) = 0 /\ \A i \in 1..4 : s[i] = 0
          \/ \E k \in 1..4 : FirstOf(s) = s[k] /\ s[k] # 0 /\ \A i \in 1..4 : i < k => s[i] = 0
      BY <3>1, FirstDecides
    <3> QED
      BY <3>1, <3>2 DEF s
  <2>2. Keys(b, c)[4] = 0
    <3>1. b.ahead \in Int /\ c.ahead \in Int
      BY DEF Parsed
    <3> QED
      BY <1>3, <3>1, NumbersCompared DEF Keys
  <2>3. k \in 1..3 /\ \A i \in 1..4 : i < k => i \in 1..3
    <3>1. k # 4
      BY <2>1, <2>2
    <3> QED
      BY <1>a, <3>1
  <2>4. \A i \in 1..3 : Keys(a, c)[i] = Keys(b, c)[i]
    BY <1>3, SameTagTies
  <2>5. Keys(a, c)[k] = -1 /\ Keys(a, c)[k] # 0 /\ \A i \in 1..4 : i < k => Keys(a, c)[i] = 0
    BY <1>3, <2>1, <2>3, <2>4
  <2> QED
    BY <1>b, <2>5
<1> QED
  BY <1>1, <1>2, <1>3

\* No text is newer than itself, of two texts at most one is newer than the
\* other, and newer than newer is newer: no round of releases can keep
\* announcing one another (update.go:228).
THEOREM NewerIsAnOrder ==
  ASSUME NEW t, NEW u, NEW v,
         ParseVersion(t) \in Parsed, ParseVersion(u) \in Parsed, ParseVersion(v) \in Parsed
  PROVE  /\ ~IsNewer(t, t)
         /\ IsNewer(t, u) => ~IsNewer(u, t)
         /\ IsNewer(t, u) /\ IsNewer(u, v) => IsNewer(t, v)
<1> DEFINE a == ParseVersion(t)  b == ParseVersion(u)  c == ParseVersion(v)
<1>1. a \in Parsed /\ b \in Parsed /\ c \in Parsed
  OBVIOUS
<1>2. /\ IsNewer(t, t) <=> a.core # <<>> /\ Compare(a, a) > 0
      /\ IsNewer(t, u) <=> a.core # <<>> /\ b.core # <<>> /\ Compare(a, b) > 0
      /\ IsNewer(u, t) <=> a.core # <<>> /\ b.core # <<>> /\ Compare(b, a) > 0
      /\ IsNewer(u, v) <=> b.core # <<>> /\ c.core # <<>> /\ Compare(b, c) > 0
      /\ IsNewer(t, v) <=> a.core # <<>> /\ c.core # <<>> /\ Compare(a, c) > 0
  BY DEF IsNewer
<1> HIDE DEF a, b, c
<1>3. Compare(a, a) = 0 /\ Compare(b, a) = -Compare(a, b)
  BY <1>1, VersionsOrdered
<1>4. Compare(c, b) = -Compare(b, c) /\ Compare(c, a) = -Compare(a, c)
  BY <1>1, VersionsOrdered
<1>5. Chained(Compare(c, b), Compare(b, a), Compare(c, a))
  BY <1>1, VersionsOrdered
<1>6. Compare(a, b) \in {-1, 0, 1} /\ Compare(b, c) \in {-1, 0, 1} /\ Compare(a, c) \in {-1, 0, 1}
  <2>1. ASSUME NEW w \in Parsed, NEW x \in Parsed PROVE Compare(w, x) \in Signs
    <3>1. Keys(w, x) \in [1..4 -> Signs] /\ Compare(w, x) = FirstOf(Keys(w, x)) /\ 4 \in Nat
      BY FourKeys
    <3> QED
      BY <3>1, Decided
  <2> QED
    BY <1>1, <2>1 DEF Signs
<1>7. IsNewer(t, u) => ~IsNewer(u, t)
  BY <1>2, <1>3, <1>6
<1>8. IsNewer(t, u) /\ IsNewer(u, v) => IsNewer(t, v)
  <2>1. Compare(a, b) > 0 /\ Compare(b, c) > 0 => Compare(a, c) > 0
    BY <1>3, <1>4, <1>5, <1>6 DEF Chained
  <2> QED
    BY <1>2, <2>1
<1> QED
  BY <1>2, <1>3, <1>7, <1>8

\* Every tag and every running version is one ParseVersion can take apart, or
\* one without a number, which has no core.
Readable == \A t \in Tags \cup Running : ParseVersion(t) \in Parsed

\* A notice never leads back: the version a page is told to install is not the
\* running one, and a server that runs it is not told to go to this one
\* (update.go:436).
THEOREM NoticePointsForward ==
  ASSUME Readable
  PROVE  Spec => [](latest # NoTag => latest # current /\ ~IsNewer(current, latest))
<1>1. MainInit => StatusInv
  BY UpdateConstants DEF MainInit, Init, StatusInv, NoTag
<1>2. StatusInv => (latest # NoTag => latest # current /\ ~IsNewer(current, latest))
  <2> SUFFICES ASSUME StatusInv, latest # NoTag PROVE latest # current /\ ~IsNewer(current, latest)
    OBVIOUS
  <2>1. latest \in Tags /\ current \in Running /\ IsNewer(latest, current)
    BY DEF StatusInv
  <2>2. ParseVersion(latest) \in Parsed /\ ParseVersion(current) \in Parsed
    BY <2>1 DEF Readable
  <2> QED
    BY <2>1, <2>2, NewerIsAnOrder
<1> QED
  BY <1>1, <1>2, StepStatus, PTL DEF Spec
=============================================================================

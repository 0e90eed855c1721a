--------------------------- MODULE UpdateChecker ----------------------------
(***************************************************************************)
(* The release checker (internal/update/update.go): Run's timer loop,       *)
(* checkIfDue, record and the Status it serves.  Times are ages on the       *)
(* monotonic clock Go's time.Now carries, each kept up to the interval it is *)
(* compared with; an age is None while its time is the zero Time.  GitHub,   *)
(* external, names some tag as the latest release or fails.                  *)
(***************************************************************************)
EXTENDS Versions

CONSTANTS
  Tags,              \* texts of the release tags GitHub may name
  Running,           \* texts of the versions that may be running
  FirstDelay,        \* time to the first check (a minute)
  RecheckInterval,   \* time between evaluations (1 h)
  MinimumInterval,   \* time a success holds (24 h)
  FailureBackoff     \* time a failure holds (1 h)

ASSUME UpdateConstants ==
  /\ <<>> \notin Tags
  /\ FirstDelay \in Nat \ {0} /\ RecheckInterval \in Nat \ {0}
  /\ MinimumInterval \in Nat \ {0} /\ FailureBackoff \in Nat \ {0}
  /\ FirstDelay <= FailureBackoff /\ FailureBackoff <= RecheckInterval

None == -1
NoTag == <<>>   \* the empty text

VARIABLES
  enabled, current, testHook, \* the setting, the version compared with, and whether it is set by the test hook
  pc,                         \* Run: "starting", "waiting", "fetching", "returned"
  timer,                      \* time until the timer fires
  cancelled,                  \* ctx is done
  lastSuccess, lastFailure,   \* ages
  latest, loggedTag,
  release,                    \* external: the release GitHub names now
  answer, sinceAnswer,        \* history: the last tag GitHub answered, and its age
  sinceRequest,               \* history: the age of the last request
  logged                      \* history: the tag logged for the last answer or failure
options == <<enabled, current, testHook>>
result  == <<lastSuccess, lastFailure, latest, loggedTag>>
history == <<answer, sinceAnswer, sinceRequest>>
updateVars == <<options, pc, timer, cancelled, release, result, history, logged>>

\* c.automatic: a development build or one without a number is never checked.
Automatic == testHook \/ (~IsDevVersion(current) /\ ParseVersion(current).core # <<>>)

Init ==
  /\ enabled \in BOOLEAN /\ current \in Running /\ testHook \in BOOLEAN
  /\ pc = "starting" /\ timer = FirstDelay /\ cancelled = FALSE
  /\ lastSuccess = None /\ lastFailure = None /\ latest = NoTag /\ loggedTag = NoTag
  /\ answer = NoTag /\ sinceAnswer = None /\ logged = NoTag
  /\ release \in Tags /\ sinceRequest = None

\* The checker of a new process, which remembers nothing of an earlier one.
New ==
  /\ pc' = "starting" /\ timer' = FirstDelay /\ cancelled' = FALSE
  /\ lastSuccess' = None /\ lastFailure' = None /\ latest' = NoTag /\ loggedTag' = NoTag
  /\ answer' = NoTag /\ sinceAnswer' = None /\ logged' = NoTag

-----------------------------------------------------------------------------
(* The world: time, GitHub and the shutdown signal.                         *)

Aged(age, limit) == IF age = None \/ age >= limit THEN age ELSE age + 1

TimePasses ==
  /\ pc = "waiting" /\ timer > 0
  /\ timer' = timer - 1
  /\ lastSuccess' = Aged(lastSuccess, MinimumInterval)
  /\ lastFailure' = Aged(lastFailure, FailureBackoff)
  /\ sinceAnswer' = Aged(sinceAnswer, MinimumInterval)
  /\ sinceRequest' = Aged(sinceRequest, FailureBackoff)
  /\ UNCHANGED <<options, pc, cancelled, latest, loggedTag, release, answer, logged>>

\* A release is published, or withdrawn, which makes an older one the latest.
Publish ==
  /\ release' \in Tags \ {release}
  /\ UNCHANGED <<options, pc, timer, cancelled, result, history, logged>>

Cancel ==
  /\ ~cancelled /\ cancelled' = TRUE
  /\ UNCHANGED <<options, pc, timer, result, release, history, logged>>

-----------------------------------------------------------------------------
(* Run and checkIfDue.                                                      *)

Start ==
  /\ pc = "starting"
  /\ pc' = IF enabled /\ Automatic THEN "waiting" ELSE "returned"
  /\ UNCHANGED <<options, timer, cancelled, result, release, history, logged>>

\* Faults: once set, a time holds checks back for good; the comparison with
\* the interval is turned round.
HoldsForever(age, limit) == age # None
HoldsOnceOver(age, limit) == age # None /\ age >= limit

\* A time holds checks back while its age is below the limit.
Holds(age, limit) == age # None /\ age < limit

ShouldCheck == ~Holds(lastSuccess, MinimumInterval) /\ ~Holds(lastFailure, FailureBackoff)

TimerFires ==
  /\ pc = "waiting" /\ timer = 0
  /\ IF ShouldCheck THEN pc' = "fetching" /\ sinceRequest' = 0 /\ UNCHANGED timer
     ELSE timer' = RecheckInterval /\ UNCHANGED <<pc, sinceRequest>>
  /\ UNCHANGED <<options, cancelled, result, release, answer, sinceAnswer, logged>>

Returns ==
  /\ pc = "waiting" /\ cancelled
  /\ pc' = "returned"
  /\ UNCHANGED <<options, timer, cancelled, result, release, history, logged>>

-----------------------------------------------------------------------------
(* record.                                                                  *)

\* Fault: an answer that is not newer leaves the old notice up.
LatestSticky(tag) == IF IsNewer(tag, current) THEN tag ELSE latest

Latest(tag) == IF IsNewer(tag, current) THEN tag ELSE NoTag

\* Fault: any newer answer is logged.
LogsAlways(tag) == IsNewer(tag, current)

Logs(tag) == IsNewer(tag, current) /\ tag # loggedTag

RecordSuccess(tag) ==
  /\ lastSuccess' = 0 /\ lastFailure' = None
  /\ latest' = Latest(tag)
  /\ loggedTag' = IF Logs(tag) THEN tag ELSE loggedTag
  /\ logged' = IF Logs(tag) THEN tag ELSE NoTag
  /\ answer' = tag /\ sinceAnswer' = 0

\* A failure records only the back-off start and keeps the previous result:
\* no network, a timeout, a status other than 200, an answer without a tag.
RecordFailure ==
  /\ lastFailure' = 0 /\ logged' = NoTag
  /\ UNCHANGED <<lastSuccess, latest, loggedTag, answer, sinceAnswer>>

\* The request returns; after a shutdown it counts as neither.
FetchReturns ==
  /\ pc = "fetching"
  /\ pc' = "waiting" /\ timer' = RecheckInterval
  /\ \/ cancelled /\ UNCHANGED <<result, history, logged>>
     \/ ~cancelled /\ (RecordFailure \/ RecordSuccess(release)) /\ UNCHANGED sinceRequest
  /\ UNCHANGED <<options, cancelled, release>>

RunNext == Start \/ TimePasses \/ TimerFires \/ Returns \/ FetchReturns
=============================================================================

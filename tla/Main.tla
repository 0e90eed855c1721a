-------------------------------- MODULE Main --------------------------------
(***************************************************************************)
(* The server process (main.go) under systemd (deploy/lp700-server.service), *)
(* with the release checker in it: start, the HTTP server, the shutdown on a *)
(* signal or when the server fails, and what is lost with the process.  Hub, *)
(* Session and Panel model the other goroutines; main does not wait for any  *)
(* of them, and one that panics ends the process.                            *)
(***************************************************************************)
EXTENDS UpdateChecker

CONSTANTS
  Levels,        \* levels /api/log-level can select, as slog numbers them
  NoticeLevel,   \* levelNotice: above every one of them
  Rank,          \* [texts -> Nat]: the order the package comment documents,
                 \* 0 for a text without a numeric core
  MaxRequests,   \* model bound on ordinary requests at a time
  MaxLives       \* model bound on the processes started

ASSUME MainConstants ==
  /\ Levels \subseteq Int /\ NoticeLevel \in Int /\ \A l \in Levels : l < NoticeLevel
  /\ MaxRequests \in Nat /\ MaxLives \in Nat \ {0}

VARIABLES
  process,    \* "up", "stopping" (in srv.Shutdown), "exited" (status 0) or "crashed"
  server,     \* srv.ListenAndServe: "starting", "listening" or "ended"
  requests,   \* requests being served, WebSocket connections not counted
  overdue,    \* the 5 s of shutCtx are over
  level,      \* levelVar
  lives,      \* processes started
  journal     \* history: the tag of the last notice this process printed
mainVars == <<process, server, requests, overdue, level, lives, journal>>
vars == <<updateVars, mainVars>>

Alive == process \in {"up", "stopping"}

\* A process starts at level error, or with -v at debug.
MainInit ==
  /\ Init
  /\ process = "up" /\ server = "starting" /\ requests = 0 /\ overdue = FALSE
  /\ level \in Levels /\ lives = 1 /\ journal = NoTag

-----------------------------------------------------------------------------
(* The HTTP server and the runtime log level.                               *)

MainUnchanged == UNCHANGED updateVars /\ UNCHANGED <<lives, journal>>

Listens ==
  /\ process = "up" /\ server = "starting"
  /\ server' = "listening"
  /\ MainUnchanged /\ UNCHANGED <<process, requests, overdue, level>>

\* The address is taken, or Accept fails: logged, and ctx is cancelled.
ServerFails ==
  /\ process = "up" /\ server # "ended"
  /\ server' = "ended"
  /\ cancelled' = TRUE
  /\ UNCHANGED <<options, pc, timer, result, release, history, logged>>
  /\ UNCHANGED <<process, requests, overdue, level, lives, journal>>

RequestArrives ==
  /\ process = "up" /\ server = "listening" /\ requests < MaxRequests
  /\ requests' = requests + 1
  /\ MainUnchanged /\ UNCHANGED <<process, server, overdue, level>>

RequestEnds ==
  /\ Alive /\ requests > 0
  /\ requests' = requests - 1
  /\ MainUnchanged /\ UNCHANGED <<process, server, overdue, level>>

\* POST /api/log-level; a name it does not know changes nothing.
SetLogLevel ==
  /\ Alive /\ requests > 0
  /\ level' \in Levels \ {level}
  /\ MainUnchanged /\ UNCHANGED <<process, server, requests, overdue>>

-----------------------------------------------------------------------------
(* The end of the process.                                                  *)

\* SIGINT or SIGTERM.  A second one changes nothing: NotifyContext keeps both
\* signals until main returns.
Signal == Alive /\ Cancel /\ UNCHANGED mainVars

\* <-ctx.Done() and srv.Shutdown: the listener is closed, or never opened.
Shutdown ==
  /\ process = "up" /\ cancelled
  /\ process' = "stopping" /\ server' = "ended"
  /\ MainUnchanged /\ UNCHANGED <<requests, overdue, level>>

DeadlinePasses ==
  /\ process = "stopping" /\ ~overdue
  /\ overdue' = TRUE
  /\ MainUnchanged /\ UNCHANGED <<process, server, requests, level>>

\* Fault: the shutdown waits for the requests without a deadline.
ShutdownWaits == requests = 0

\* srv.Shutdown returns.
ShutdownReturns == requests = 0 \/ overdue

\* main returns, and the process ends with status 0, whatever ended it.
Exit ==
  /\ process = "stopping" /\ ShutdownReturns
  /\ process' = "exited" /\ requests' = 0
  /\ MainUnchanged /\ UNCHANGED <<server, overdue, level>>

\* Some goroutine panics (status 2).
Panic ==
  /\ Alive
  /\ process' = "crashed" /\ server' = "ended" /\ requests' = 0
  /\ MainUnchanged /\ UNCHANGED <<overdue, level>>

-----------------------------------------------------------------------------
(* systemd and the operator (external).                                     *)

\* A new process remembers nothing.
Starts ==
  /\ lives < MaxLives /\ lives' = lives + 1
  /\ New /\ journal' = NoTag
  /\ process' = "up" /\ server' = "starting" /\ requests' = 0 /\ overdue' = FALSE
  /\ level' \in Levels
  /\ UNCHANGED <<release, sinceRequest>>

\* Restart=on-failure: a process that exited with status 0 stays down.
SystemdRestarts == process = "crashed" /\ Starts /\ UNCHANGED options

\* systemctl start, perhaps after a redeploy with another binary or setting.
OperatorStarts ==
  /\ process = "exited" /\ Starts
  /\ enabled' \in BOOLEAN /\ current' \in Running /\ UNCHANGED testHook

TimeWhileDown ==
  /\ ~Alive
  /\ sinceRequest' = Aged(sinceRequest, FailureBackoff)
  /\ UNCHANGED <<options, pc, timer, cancelled, release, result, answer, sinceAnswer, logged>>
  /\ UNCHANGED mainVars

-----------------------------------------------------------------------------
(* The checker in its process.                                              *)

\* Fault: notices are logged at slog.LevelInfo, the checker's default.
PrintedAtInfo == 0 >= level

\* The handler prints what is not below the level selected.
Printed == NoticeLevel >= level

CheckerRuns ==
  /\ Alive /\ RunNext
  /\ journal' = IF logged' # NoTag /\ pc = "fetching" /\ Printed THEN logged' ELSE journal
  /\ UNCHANGED <<process, server, requests, overdue, level, lives>>

Next ==
  \/ Listens \/ ServerFails \/ RequestArrives \/ RequestEnds \/ SetLogLevel
  \/ Signal \/ Shutdown \/ DeadlinePasses \/ Exit \/ Panic
  \/ SystemdRestarts \/ OperatorStarts \/ TimeWhileDown
  \/ CheckerRuns
  \/ Publish /\ UNCHANGED mainVars

Spec == MainInit /\ [][Next]_vars

\* The runtime runs every goroutine and timer, select does not pass over
\* ctx.Done() for ever, the client's Timeout bounds a request, systemd restarts.
Fairness ==
  /\ WF_vars(Shutdown) /\ WF_vars(DeadlinePasses) /\ WF_vars(Exit) /\ WF_vars(SystemdRestarts)
  /\ WF_vars(CheckerRuns) /\ SF_vars(Alive /\ Returns /\ UNCHANGED mainVars)

FairSpec == Spec /\ Fairness

-----------------------------------------------------------------------------
(* Properties.                                                              *)

Newer(tag, version) == Rank[version] > 0 /\ Rank[tag] > Rank[version]

\* /api/update shows the last answer, and only if it is newer than the running
\* version in the order the package comment of update.go documents: neither a
\* failure nor an answer that is older hides or keeps a release (update.go:436).
StatusIsLastAnswer ==
  latest = IF answer # NoTag /\ Newer(answer, current) THEN answer ELSE NoTag

\* A release that is shown has been printed in the journal, whatever level was
\* selected when it was found (main.go:30, update.go:450).
NoticePrinted == latest # NoTag => journal = latest

\* No notice is logged twice in a row by one process, whatever other answers
\* and failures come between (update.go:450).
NoticeNotRepeated ==
  [][pc = "fetching" /\ pc' = "waiting" /\ ~cancelled /\ logged' # NoTag => logged' # journal]_vars

\* GitHub is asked only while checks are on; FirstDelay after a start at the
\* earliest, also when the process crashes again and again; and in one process
\* not within MinimumInterval of an answer nor FailureBackoff of any request
\* that came to an end (update.go:247).
RequestsSpaced ==
  [][pc # "fetching" /\ pc' = "fetching" =>
       /\ enabled /\ Automatic
       /\ sinceRequest # None => sinceRequest >= FirstDelay
       /\ sinceAnswer # None => sinceAnswer >= MinimumInterval
       /\ lastFailure # None => sinceRequest >= FailureBackoff]_vars

\* While the process stays up, GitHub names newer releases and the requests do
\* not go on failing, /api/update shows, again and again, the release GitHub
\* names: for good once GitHub stays with one (update.go:388).
NoticeAppears ==
  LET due == /\ process = "up" /\ ~cancelled /\ enabled /\ Automatic
             /\ Newer(release, current) /\ lastFailure # 0
  IN  []<>(due => latest = release)

\* After a signal, or the end of the HTTP server, the process ends, whatever
\* requests are being served and wherever the checker is (main.go:196).
ShutdownEnds == cancelled ~> ~Alive
=============================================================================

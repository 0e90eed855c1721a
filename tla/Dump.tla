-------------------------------- MODULE Dump --------------------------------
(***************************************************************************)
(* probe -dump and probe -capture (runDump, runCapture of                   *)
(* internal/lpmeter/probe.go): a goroutine polls the meter every 50 ms until *)
(* ctx is done while the main loop reads and prints what comes in.  The      *)
(* meter is external: it sends one IN report for every OUT report.          *)
(***************************************************************************)
EXTENDS Integers

CONSTANT MaxWire   \* model bound on answers not yet read

VARIABLES
  timed,        \* -capture with a -duration
  interrupted,  \* ctx is done: ^C, and a second one is swallowed
  expired,      \* the duration is over
  plugged,      \* the meter is there
  polling,      \* the goroutine: "on", "failed" (pollErr filled) or "off"
  wire,         \* answers not yet read
  pc            \* main loop: "top", "reading", "done" or "error"
vars == <<timed, interrupted, expired, plugged, polling, wire, pc>>

Init ==
  /\ timed \in BOOLEAN /\ interrupted = FALSE /\ expired = FALSE /\ plugged = TRUE
  /\ polling = "on" /\ wire = 0 /\ pc = "top"

Running == pc \in {"top", "reading"}

Interrupt ==
  /\ Running /\ ~interrupted
  /\ interrupted' = TRUE
  /\ UNCHANGED <<timed, expired, plugged, polling, wire, pc>>

DurationEnds ==
  /\ Running /\ timed /\ ~expired
  /\ expired' = TRUE
  /\ UNCHANGED <<timed, interrupted, plugged, polling, wire, pc>>

Unplug ==
  /\ Running /\ plugged
  /\ plugged' = FALSE /\ wire' = 0
  /\ UNCHANGED <<timed, interrupted, expired, polling, pc>>

-----------------------------------------------------------------------------
(* The polling goroutine.                                                   *)

\* A tick; at the same moment as ^C, select may still take it.
Poll ==
  /\ Running /\ polling = "on" /\ wire < MaxWire
  /\ IF plugged THEN wire' = wire + 1 /\ UNCHANGED polling
     ELSE polling' = "failed" /\ UNCHANGED wire
  /\ UNCHANGED <<timed, interrupted, expired, plugged, pc>>

PollingStops ==
  /\ Running /\ polling = "on" /\ interrupted
  /\ polling' = "off"
  /\ UNCHANGED <<timed, interrupted, expired, plugged, wire, pc>>

-----------------------------------------------------------------------------
(* The main loop.                                                           *)

Top ==
  /\ pc = "top"
  /\ pc' = CASE interrupted                              -> "done"
             [] ~interrupted /\ polling = "failed"       -> "error"
             [] ~interrupted /\ polling # "failed" /\ expired -> "done"
             [] OTHER                                    -> "reading"
  /\ UNCHANGED <<timed, interrupted, expired, plugged, polling, wire>>

\* dev.Read blocks until a report comes or the device is gone.
Read ==
  /\ pc = "reading"
  /\ IF plugged THEN wire > 0 /\ wire' = wire - 1 /\ pc' = "top"
     ELSE pc' = "error" /\ UNCHANGED wire
  /\ UNCHANGED <<timed, interrupted, expired, plugged, polling>>

Next ==
  \/ Interrupt \/ DurationEnds \/ Unplug
  \/ Poll \/ PollingStops
  \/ Top \/ Read

Spec == Init /\ [][Next]_vars

\* The ticker ticks, both goroutines run, and select does not pass over
\* ctx.Done() for ever.
FairSpec ==
  Spec /\ WF_vars(Poll) /\ SF_vars(PollingStops) /\ WF_vars(Top) /\ WF_vars(Read) /\ WF_vars(DurationEnds)

\* ^C ends the dump and the capture: "until ^C" (main.go:218, main.go:220).
InterruptEnds == interrupted ~> ~Running
=============================================================================

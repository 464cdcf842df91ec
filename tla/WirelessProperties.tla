------------------------- MODULE WirelessProperties -------------------------
(***************************************************************************)
(* What makes the wireless machine correct: it never waits for something   *)
(* that no timer ends, and its port is opened off the link by nothing but  *)
(* a frame that comes late.                                                *)
(***************************************************************************)
EXTENDS WirelessLink

Runs(t) == Running(w.timers, t)

(***************************************************************************)
(* No wait without a timer: an association that gets no answer, a held     *)
(* interface and the pause after a scan that found nothing all have a      *)
(* timer that ends them, whatever was cancelled on the way there           *)
(* (wireless_sm.c:594, :875, :1448; cardif_linux.c:1989).                  *)
(***************************************************************************)
Pausing(c) == c.state = "ACTIVE_SCAN" /\ c.checked

Timed(c) ==
    /\ c.state = "ASSOCIATING" => Running(c.timers, "ASSOCIATION")
    /\ c.state = "INT_HELD" => Running(c.timers, "INT_HELD")
    /\ Pausing(c) => Running(c.timers, "RESCAN")

WaitIsTimed == Timed(w)

(***************************************************************************)
(* Every timer but the passive scan's is taken off the list, or set again, *)
(* when it reaches zero: none wraps round (timer.c:251, :269).             *)
(***************************************************************************)
Period(t) ==
    CASE t = "RESCAN" -> RescanSecs
      [] t = "INT_HELD" -> HeldSecs
      [] t \in {"ASSOCIATION", "SCANCHECK"} -> AssocSecs
      [] t = "SIG_STRENGTH" -> PollSecs
      [] t = "PASSIVE_SCAN" ->
            IF PassiveSecs > PollSecs THEN PassiveSecs ELSE PollSecs

InPeriod(t) == Runs(t) => w.timers.left[t] \in 1 .. Period(t)

CountersInRange == \A t \in Timers \ {"PASSIVE_SCAN"} : InPeriod(t)

(***************************************************************************)
(* Off the link the port is shut, and in INT_STOPPED the port machine is   *)
(* "jammed in to a force unauthenticated state" (wireless_sm.c:1597).      *)
(* Every way out of ASSOCIATED, and every change after it, keeps this,     *)
(* whatever the user asks for and the driver reports (wireless_sm.c:422,   *)
(* :513, :885, :1050, :1169).  Only a frame that comes late can break it,  *)
(* since neither eapol.c nor the key handshakes look at the state: where   *)
(* the interface was stopped a key frame, elsewhere any.                   *)
(***************************************************************************)
OpenStates == {"ASSOCIATED", "NO_ENC_ASSOCIATION"}

ShutOffLink(c) ==
    /\ c.port = "AUTHORIZED" => c.state \in OpenStates
    /\ c.state = "INT_STOPPED" => c.control = "FORCE_UNAUTHORIZED"

TakesEap == \E verdict \in {"AUTHORIZED", "UNAUTHORIZED"} : Frame(verdict)

TakesLateFrame == KeyFrame \/ (TakesEap /\ w.state # "INT_STOPPED")

PortFollowsLink ==
    [][ShutOffLink(w) /\ ~TakesLateFrame => ShutOffLink(w')]_vars

(***************************************************************************)
(* What a comment says, and the code does not do.                          *)
(***************************************************************************)
\* The walk over the timers never follows a node that a timer freed
\* (timer.c:299).
NextIsAlive == at # "CRASHED"

(***************************************************************************)
(* Liveness.  event_core is left in select after a second at the latest,   *)
(* and a pass is finished once begun; nothing is assumed of the driver.    *)
(***************************************************************************)
FairSpec ==
    Spec /\ WF_vars(TickStarts) /\ WF_vars(TimerTicks)
         /\ WF_vars(at = "run" /\ MachineRuns)

\* An attempt to associate and the pause after a scan that found nothing end,
\* and a held interface is released or tries again, even when the driver
\* reports nothing (wireless_sm.c:527, :771, :1421).
TriesAgain == at = "INT_HELD" /\ w.timers.left["INT_HELD"] = 1

\* The crash that NextIsAlive is about is the other way out.
WaitsEnd ==
    /\ w.state = "ASSOCIATING" ~> w.state # "ASSOCIATING" \/ at = "CRASHED"
    /\ w.state = "INT_HELD"
          ~> w.state # "INT_HELD" \/ TriesAgain \/ at = "CRASHED"
    /\ Pausing(w) ~> ~Pausing(w) \/ at = "CRASHED"
=============================================================================

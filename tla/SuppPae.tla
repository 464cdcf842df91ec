------------------------------ MODULE SuppPae ------------------------------
(***************************************************************************)
(* The 802.1X supplicant port access entity (statemachine.c): the states   *)
(* of the port, its timers, and statemachine_run, which the event loop     *)
(* calls once a second and eapol_execute calls for every EAP frame.  Same  *)
(* conventions as SuppBackend.                                             *)
(***************************************************************************)
EXTENDS SuppBackend

\* statemachine_init and statemachine_reinit, with the initial link state.
NewSm(link) ==
    [curState |-> "DISCONNECTED", beCurState |-> "UNKNOWN",
     initialize |-> TRUE, tick |-> FALSE, portEnabled |-> link,
     portControl |-> "AUTO", sPortMode |-> "AUTO",
     suppPortStatus |-> "UNAUTHORIZED", userLogoff |-> FALSE,
     logoffSent |-> FALSE, eapolEap |-> FALSE, eapReq |-> FALSE,
     eapRestart |-> FALSE, suppStart |-> FALSE, suppAbort |-> FALSE,
     suppSuccess |-> FALSE, suppFail |-> FALSE, suppTimeout |-> FALSE,
     authWhile |-> AuthPeriod, heldWhile |-> HeldPeriod, startWhen |-> 0,
     startCount |-> 0]

(***************************************************************************)
(* Frames the machine sends of its own accord.  A logoff needs an enabled  *)
(* port, a profile and a connection; on a wired port a start always goes.  *)
(***************************************************************************)
TxStart(c) == Transmit(c, "START", NullResp)

TxLogoff(c) ==
    IF c.sm.portEnabled /\ c.conn # "NONE" /\ c.prof # "NONE"
    THEN Transmit(c, "LOGOFF", NullResp) ELSE c

(***************************************************************************)
(* statemachine_change_to_*.  A change asked for in a state the function   *)
(* does not expect falls back to DISCONNECTED.                             *)
(***************************************************************************)
\* Mutation: the backend is not aborted.
DisconnectWithoutAbort(c) ==
    [c EXCEPT !.sm.sPortMode = "AUTO", !.sm.startCount = 0,
              !.sm.logoffSent = FALSE, !.sm.suppPortStatus = "UNAUTHORIZED",
              !.sm.curState = "DISCONNECTED"]

ToDisconnected(c) ==
    [c EXCEPT !.sm.sPortMode = "AUTO", !.sm.startCount = 0,
              !.sm.logoffSent = FALSE, !.sm.suppPortStatus = "UNAUTHORIZED",
              !.sm.suppAbort = TRUE, !.sm.curState = "DISCONNECTED"]

ToForceAuth(c) ==
    [c EXCEPT !.sm.curState = "S_FORCE_AUTH",
              !.sm.suppPortStatus = "AUTHORIZED",
              !.sm.sPortMode = "FORCE_AUTHORIZED",
              !.sm.portControl = "FORCE_AUTHORIZED"]

ToForceUnauth(c) ==
    TxLogoff([c EXCEPT !.sm.curState = "S_FORCE_UNAUTH",
                       !.sm.suppPortStatus = "UNAUTHORIZED",
                       !.sm.sPortMode = "FORCE_UNAUTHORIZED",
                       !.sm.portControl = "FORCE_UNAUTHORIZED"])

\* Mutation: the port stays open.
LogoffWithOpenPort(c) ==
    [TxLogoff(c) EXCEPT !.sm.logoffSent = TRUE, !.sm.curState = "LOGOFF",
                        !.eap = EapForceInit(@)]

ToLogoff(c) ==
    [TxLogoff(c) EXCEPT !.sm.logoffSent = TRUE,
                        !.sm.suppPortStatus = "UNAUTHORIZED",
                        !.sm.curState = "LOGOFF",
                        !.eap = EapForceInit(@)]

\* Mutation: the frame that brought the failure stays pending.
HoldWithFrame(c) ==
    IF c.sm.curState \in {"CONNECTING", "AUTHENTICATING"}
    THEN [c EXCEPT !.sm.heldWhile = HeldPeriod,
                   !.sm.suppPortStatus = "UNAUTHORIZED",
                   !.sm.curState = "HELD"]
    ELSE ToDisconnected(c)

ToHeld(c) ==
    IF c.sm.curState \in {"CONNECTING", "AUTHENTICATING"}
    THEN [c EXCEPT !.sm.heldWhile = HeldPeriod,
                   !.sm.suppPortStatus = "UNAUTHORIZED",
                   !.sm.curState = "HELD", !.sm.eapolEap = FALSE]
    ELSE ToDisconnected(c)

\* Mutations: one verdict of the last conversation is kept.
KeepFailure(c) ==
    [c EXCEPT !.sm.suppSuccess = FALSE, !.sm.suppTimeout = FALSE]

KeepSuccess(c) ==
    [c EXCEPT !.sm.suppFail = FALSE, !.sm.suppTimeout = FALSE]

ForgetVerdict(c) ==
    [c EXCEPT !.sm.suppSuccess = FALSE, !.sm.suppFail = FALSE,
              !.sm.suppTimeout = FALSE]

ToAuthenticating(c) ==
    IF c.sm.curState \in {"CONNECTING", "RESTART"}
    THEN [ForgetVerdict(c) EXCEPT
             !.sm.startCount = 0, !.sm.suppStart = TRUE,
             !.sm.curState = "AUTHENTICATING"]
    ELSE ToDisconnected(c)

ToAuthenticated(c) ==
    [c EXCEPT !.sm.suppPortStatus = "AUTHORIZED",
              !.sm.curState = "AUTHENTICATED", !.sm.eapolEap = FALSE]

(***************************************************************************)
(* RESTART runs the backend at once, with eapReq masked, so that the EAP   *)
(* machine is initialised; it stays in RESTART if that did not happen.     *)
(***************************************************************************)
DoRestart(c) == IF c.sm.eapRestart THEN c ELSE ToAuthenticating(c)

ToRestart(c, in) ==
    LET masked == [c EXCEPT !.sm.eapRestart = TRUE,
                            !.sm.curState = "RESTART",
                            !.sm.portControl = "AUTO", !.sm.eapReq = FALSE]
    IN  IF c.sm.curState \notin {"AUTHENTICATED", "CONNECTING", "HELD",
                                 "S_FORCE_AUTH", "S_FORCE_UNAUTH"}
        THEN ToDisconnected(c)
        ELSE DoRestart([BackendRun(masked, in) EXCEPT
                           !.sm.eapReq = c.sm.eapReq])

ToConnecting(c, in) ==
    LET d == [c EXCEPT !.sm.curState = "CONNECTING"]
        w == [d EXCEPT !.sm.startWhen = StartPeriod]
    IN  IF c.sm.curState \notin {"CONNECTING", "HELD", "DISCONNECTED",
                                 "AUTHENTICATING"}
        THEN ToDisconnected(c)
        ELSE IF d.sm.eapolEap THEN ToRestart(d, in)
        ELSE IF d.conn = "NONE" THEN w
        ELSE [TxStart(w) EXCEPT !.sm.startCount = (@ + 1) % 256]

(***************************************************************************)
(* statemachine_do_*.                                                      *)
(***************************************************************************)
DoLogoff(c) == IF c.sm.userLogoff THEN c ELSE ToDisconnected(c)

DoDisconnected(c, in) ==
    IF ~c.sm.initialize /\ c.sm.portEnabled THEN ToConnecting(c, in) ELSE c

\* Mutation: only a frame ends HELD.
DoHeldForever(c, in) == IF c.sm.eapolEap THEN ToRestart(c, in) ELSE c

DoHeld(c, in) ==
    IF c.sm.heldWhile = 0 THEN ToConnecting(c, in)
    ELSE IF c.sm.eapolEap THEN ToRestart(c, in)
    ELSE c

DoConnecting(c, in) ==
    IF c.sm.startWhen = 0
    THEN IF c.sm.startCount < MaxStart THEN ToConnecting(TxStart(c), in)
                                       ELSE ToForceAuth(c)
    ELSE IF c.eap.eapSuccess \/ c.eap.eapFail THEN ToAuthenticating(c)
    ELSE IF c.sm.eapolEap THEN ToRestart(c, in)
    ELSE c

DoAuthenticating(c, in) ==
    IF c.sm.suppSuccess THEN ToAuthenticated(c)
    ELSE IF c.sm.suppFail THEN ToHeld(c)
    ELSE IF c.sm.suppTimeout THEN ToConnecting(c, in)
    ELSE c

\* The frame is released, so a pointer of the EAP machine into it dangles.
ReleaseFrame(c) ==
    [c EXCEPT !.recvframe = NullFrame,
              !.eap.reqData = IF c.recvframe = NullFrame \/ @ = NullFrame
                              THEN @ ELSE FreedFrame]

DoAuthenticated(c, in) ==
    IF ~c.sm.eapolEap THEN c
    ELSE IF c.recvframe.code = "SUCCESS"
    THEN ReleaseFrame([c EXCEPT !.sm.eapolEap = FALSE])
    ELSE ToRestart(IF c.recvframe.code \in {"NULL", "OTHER"}
                   THEN [c EXCEPT !.eap.wild = TRUE] ELSE c, in)

(***************************************************************************)
(* One second has passed.                                                  *)
(***************************************************************************)
\* Mutation: an 8-bit counter wraps.
DecAlways(n) == (n + 255) % 256

DecIfNz(n) == IF n = 0 THEN 0 ELSE n - 1

TimerTick(c) ==
    [c EXCEPT !.sm.authWhile = DecIfNz(@), !.sm.heldWhile = DecIfNz(@),
              !.sm.startWhen = DecIfNz(@), !.sm.tick = FALSE]

Usable(c) == ~c.sm.initialize /\ c.sm.portEnabled

(***************************************************************************)
(* statemachine_check_global_transition: looked at on a tick only, and     *)
(* with the portEnabled of the previous run.                               *)
(***************************************************************************)
UserLogsOff(c) ==
    IF c.sm.userLogoff /\ ~c.sm.logoffSent /\ Usable(c)
    THEN ToLogoff(c) ELSE c

ForcedOpen(c) ==
    IF /\ c.sm.portControl = "FORCE_AUTHORIZED"
       /\ c.sm.sPortMode # "FORCE_AUTHORIZED" /\ Usable(c)
    THEN ToForceAuth(c) ELSE c

ForcedShut(c) ==
    IF /\ c.sm.portControl = "FORCE_UNAUTHORIZED"
       /\ c.sm.sPortMode # "FORCE_UNAUTHORIZED" /\ Usable(c)
    THEN ToForceUnauth(c) ELSE c

BackToAuto(c) ==
    IF /\ c.sm.portControl = "AUTO"
       /\ c.sm.sPortMode # "AUTO" \/ ~Usable(c)
       /\ c.sm.curState # "DISCONNECTED"
    THEN ToDisconnected(c) ELSE c

GlobalTransition(c) == BackToAuto(ForcedShut(ForcedOpen(UserLogsOff(c))))

DoPae(c, in) ==
    CASE c.sm.curState = "LOGOFF"         -> DoLogoff(c)
      [] c.sm.curState = "DISCONNECTED"   -> DoDisconnected(c, in)
      [] c.sm.curState = "HELD"           -> DoHeld(c, in)
      [] c.sm.curState = "CONNECTING"     -> DoConnecting(c, in)
      [] c.sm.curState = "RESTART"        -> DoRestart(c)
      [] c.sm.curState = "AUTHENTICATING" -> DoAuthenticating(c, in)
      [] c.sm.curState = "AUTHENTICATED"  -> DoAuthenticated(c, in)
      [] OTHER                            -> c

LinkDown(c) ==
    [c EXCEPT !.sm.portEnabled = FALSE, !.sm.initialize = TRUE,
              !.eap.eapRestart = TRUE, !.eap.portEnabled = FALSE]

(***************************************************************************)
(* statemachine_run.                                                       *)
(***************************************************************************)
LinkUp(c) == [c EXCEPT !.sm.portEnabled = TRUE]

TickedOn(c) == IF c.sm.tick THEN GlobalTransition(TimerTick(c)) ELSE c

BackendUnlessForced(c, in) ==
    IF c.sm.curState \in {"S_FORCE_AUTH", "S_FORCE_UNAUTH"}
    THEN c ELSE BackendRun(c, in)

StatemachineRun(c, in) ==
    LET t == TickedOn(c)
    IN  IF in.link THEN BackendUnlessForced(DoPae(LinkUp(t), in), in)
                   ELSE LinkDown(t)
=============================================================================

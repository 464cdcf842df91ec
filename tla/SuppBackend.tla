---------------------------- MODULE SuppBackend ----------------------------
(***************************************************************************)
(* The 802.1X supplicant backend machine (backend_sm.c).  The operators    *)
(* act on the value c of the C struct context: c.sm is ctx->statemachine   *)
(* (struct dot1x_state), c.eap is ctx->eap_state.  backend_sm_run calls    *)
(* the EAP machine, so one operator stands for a whole call chain.         *)
(*                                                                         *)
(* in is what the environment decides during one run: in.m the outcome of  *)
(* the EAP method should one be called, in.ub what a buffer without an EAP *)
(* packet holds, in.link the answer of cardif_get_link_state.             *)
(***************************************************************************)
EXTENDS EapPeer, Sequences

CONSTANTS Conns,        \* the configured connections (strings)
          ProfileOf,    \* [Conns -> SUBSET Methods]; {}: not an 802.1X one
          AuthPeriod,   \* seconds to wait for the authenticator
          HeldPeriod,   \* seconds of silence after a failure
          StartPeriod,  \* seconds between EAPOL-Starts
          MaxStart      \* EAPOL-Starts before giving up on 802.1X

ASSUME ConnsAssumption ==
    "NONE" \notin Conns /\ ProfileOf \in [Conns -> SUBSET Methods]

ASSUME PeriodsAssumption ==
    /\ AuthPeriod \in 1 .. 255 /\ HeldPeriod \in 1 .. 255
    /\ StartPeriod \in 1 .. 255 /\ MaxStart \in 1 .. 255

PaeStateNames == {"LOGOFF", "DISCONNECTED", "CONNECTING", "AUTHENTICATING",
                  "HELD", "AUTHENTICATED", "RESTART", "S_FORCE_AUTH",
                  "S_FORCE_UNAUTH"}

BackendStateNames == {"UNKNOWN", "REQUEST", "RESPONSE", "SUCCESS", "FAIL",
                      "TIMEOUT", "IDLE", "INITIALIZE", "RECEIVE"}

PortModes == {"AUTO", "FORCE_AUTHORIZED", "FORCE_UNAUTHORIZED"}

(***************************************************************************)
(* struct dot1x_state.  portValid is never cleared and keyDone never set   *)
(* in the repository, so they are left out with the branches they guard.   *)
(* The counters are uint8_t; AuthPeriod, HeldPeriod and StartPeriod bound  *)
(* the timers, startCount is an 8-bit count.                               *)
(***************************************************************************)
SmStates ==
    [curState : PaeStateNames, beCurState : BackendStateNames,
     initialize : BOOLEAN, tick : BOOLEAN, portEnabled : BOOLEAN,
     portControl : PortModes, sPortMode : PortModes,
     suppPortStatus : {"AUTHORIZED", "UNAUTHORIZED"},
     userLogoff : BOOLEAN, logoffSent : BOOLEAN, eapolEap : BOOLEAN,
     eapReq : BOOLEAN, eapRestart : BOOLEAN, suppStart : BOOLEAN,
     suppAbort : BOOLEAN, suppSuccess : BOOLEAN, suppFail : BOOLEAN,
     suppTimeout : BOOLEAN, authWhile : 0 .. AuthPeriod,
     heldWhile : 0 .. HeldPeriod, startWhen : 0 .. StartPeriod,
     startCount : 0 .. 255]

\* What is put on the wire; body tells EAP responses apart.
Sent == [kind : {"START", "LOGOFF", "RESPONSE"}, resp : Responses]

(***************************************************************************)
(* struct context, as far as the machines use it, and a record of what the *)
(* current step did: out, the frames it transmitted.                       *)
(***************************************************************************)
Contexts ==
    [sm : SmStates, eap : EapStates, recvframe : Frames,
     conn : Conns \cup {"NONE"}, prof : Conns \cup {"NONE"},
     out : Seq(Sent)]

Inputs == [link : BOOLEAN, m : Outcomes, ub : Frames]

Transmit(c, kind, resp) ==
    [c EXCEPT !.out = Append(@, [kind |-> kind, resp |-> resp])]

(***************************************************************************)
(* Handing values to the EAP machine and taking its results back.          *)
(***************************************************************************)
SyncLowerToPeer(c) ==
    [c EXCEPT !.eap.eapReq = c.sm.eapReq,
              !.eap.portEnabled = c.sm.portEnabled,
              !.eap.eapRestart = c.sm.eapRestart,
              !.eap.curMethods = IF c.prof # "NONE" THEN ProfileOf[c.prof]
                                                    ELSE @]

SyncPeerToLower(c, e) ==
    [c EXCEPT !.eap = e, !.sm.eapRestart = e.eapRestart]

RunEap(c, in) ==
    LET d == SyncLowerToPeer(c)
    IN  SyncPeerToLower(d, EapRun(d.eap, in.m, in.ub))

\* Mutation: only the first frame is taken.
TakeFirstFrame(c) ==
    IF c.eap.reqData = NullFrame
    THEN [c EXCEPT !.eap.reqData = c.recvframe] ELSE c

TakeFrame(c) ==
    IF c.recvframe # NullFrame
    THEN [c EXCEPT !.eap.reqData = c.recvframe] ELSE c

GetSuppRsp(c, in) == RunEap(TakeFrame(c), in)

AbortSupp(c) == [c EXCEPT !.sm.suppStart = FALSE, !.eap.eapSuccess = FALSE]

TxSuppRsp(c) ==
    LET d == [c EXCEPT !.eap.eapResp = FALSE, !.sm.eapolEap = FALSE]
    IN  IF c.eap.respData = NullResp THEN d
        ELSE Transmit(d, "RESPONSE", c.eap.respData)

(***************************************************************************)
(* backend_sm_change_to_*.                                                 *)
(***************************************************************************)
BeIdle(c) == [c EXCEPT !.sm.suppStart = FALSE, !.sm.beCurState = "IDLE"]

BeInitialize(c) ==
    BeIdle([AbortSupp(c) EXCEPT !.sm.suppAbort = FALSE,
                                !.sm.initialize = FALSE])

BeRequest(c, in) ==
    GetSuppRsp([c EXCEPT !.sm.authWhile = 0, !.sm.eapReq = TRUE,
                         !.sm.beCurState = "REQUEST"], in)

BeReceive(c) ==
    [c EXCEPT !.sm.authWhile = AuthPeriod, !.sm.eapolEap = FALSE,
              !.eap.eapNoResp = FALSE, !.sm.beCurState = "RECEIVE"]

BeResponse(c) ==
    BeReceive([TxSuppRsp(c) EXCEPT !.eap.respData = NullResp])

BeFail(c) == BeIdle([c EXCEPT !.sm.suppFail = TRUE])

\* Mutation: the port access entity is not told.
BeSilentTimeout(c) == BeIdle(c)

BeTimeout(c) == BeIdle([c EXCEPT !.sm.suppTimeout = TRUE])

BeSuccess(c) == BeIdle([c EXCEPT !.sm.suppSuccess = TRUE])

(***************************************************************************)
(* backend_sm_do_*: each is a run of independent ifs, so later tests see   *)
(* what earlier ones changed.  The states that only pass through (FAIL,    *)
(* TIMEOUT, SUCCESS, RESPONSE, INITIALIZE) are never left behind.          *)
(***************************************************************************)
Failed(c) == IF c.eap.eapFail THEN BeFail(c) ELSE c

Succeeded(c) == IF c.eap.eapSuccess THEN BeSuccess(c) ELSE c

Silent(c) == IF c.eap.eapNoResp THEN BeReceive(c) ELSE c

Answered(c) == IF c.eap.eapResp THEN BeResponse(c) ELSE c

TimedOut(c) == IF c.sm.authWhile = 0 THEN BeTimeout(c) ELSE c

Heard(c, in) == IF c.sm.eapolEap THEN BeRequest(c, in) ELSE c

FailedIfAsked(c) == IF c.sm.suppStart THEN Failed(c) ELSE c

HeardIfAsked(c, in) == IF c.sm.suppStart THEN Heard(c, in) ELSE c

SucceededIfAsked(c) == IF c.sm.suppStart THEN Succeeded(c) ELSE c

BeDoIdle(c, in) == SucceededIfAsked(HeardIfAsked(FailedIfAsked(c), in))

BeDoRequest(c) == Succeeded(Answered(Silent(Failed(c))))

BeDoReceive(c, in) == Heard(Succeeded(TimedOut(Failed(c))), in)

\* backend_sm_check_globals.
Aborted(c) ==
    IF c.sm.initialize \/ c.sm.suppAbort THEN BeInitialize(c) ELSE c

Restarted(c, in) ==
    IF c.sm.eapRestart THEN RunEap(BeInitialize(c), in) ELSE c

BeGlobals(c, in) == Restarted(Aborted(c), in)

BeDo(c, in) ==
    CASE c.sm.beCurState = "IDLE"    -> BeDoIdle(c, in)
      [] c.sm.beCurState = "REQUEST" -> BeDoRequest(c)
      [] c.sm.beCurState = "RECEIVE" -> BeDoReceive(c, in)
      [] OTHER                       -> c

BackendRun(c, in) == BeDo(BeGlobals(c, in), in)
=============================================================================

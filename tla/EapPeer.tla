------------------------------ MODULE EapPeer ------------------------------
(***************************************************************************)
(* The EAP peer state machine of xsupplicant (eap_sm.c), which follows the *)
(* peer machine of RFC 4137.  Every eap_sm_change_to_* function is one     *)
(* operator: it takes the value of the C struct eap_sm and returns its     *)
(* value after the call, the state changes it triggers included.           *)
(*                                                                         *)
(* The module describes a phase 1 machine (eap_sm_init sets phase = 1).    *)
(* What an EAP method does is external: a record m of Outcomes gives what  *)
(* eap_check, eap_process and eap_buildResp leave behind.  idleWhile is    *)
(* left out: it is reloaded with a non-zero value before every run, so the *)
(* tests for idleWhile = 0 are never true.  Key material, credsSent and    *)
(* eap_sm_state (displayed, never tested) are left out too.                *)
(***************************************************************************)
EXTENDS Integers

CONSTANTS Methods,      \* the EAP types of eaphandlers[] (strings)
          IdSpace       \* how many EAP identifiers there are; 256 in the code

ASSUME IdSpaceAssumption == IdSpace \in Nat \ {0, 1}

ASSUME MethodsAssumption ==
    Methods \cap {"NONE", "IDENTITY", "NOTIFY", "NULL", "NAK"} = {}

Ids == 0 .. (IdSpace - 1)

\* Mutation: a conversation starts from identifier 0.
ZeroInitialId == 0

InitialId == IdSpace - 1        \* lastId = 0xff: no request seen yet

(***************************************************************************)
(* Frames and responses.  A NULL pointer is a record with code or body     *)
(* "NULL".  A packet too short to hold an EAP type has type "NONE".  Code  *)
(* "OTHER" is a received frame that is no EAP packet.                      *)
(***************************************************************************)
Frames == [code : {"NULL", "FREED", "OTHER", "REQUEST", "RESPONSE",
                   "SUCCESS", "FAILURE"},
           id   : Ids,
           type : Methods \cup {"NONE", "IDENTITY", "NOTIFY"}]

NullFrame == [code |-> "NULL", id |-> 0, type |-> "NONE"]

\* What a pointer sees once the buffer it points into has been freed.
FreedFrame == [code |-> "FREED", id |-> 0, type |-> "NONE"]

OtherFrame == [code |-> "OTHER", id |-> 0, type |-> "NONE"]

\* Memory that does not hold an EAP packet.
Garbage == {FreedFrame, OtherFrame}

Responses == [id : Ids, body : Methods \cup {"NULL", "IDENTITY", "NAK"}]

NullResp == [id |-> 0, body |-> "NULL"]

(***************************************************************************)
(* eap_type_common_fail, the methods and the machine itself share one      *)
(* numbering: a decision can be MAY_CONT and a methodState EAP_FAIL.       *)
(* "UNSET" is the zero that Malloc leaves in a new structure.              *)
(***************************************************************************)
Decisions == {"UNSET", "EAP_FAIL", "COND_SUCC", "UNCOND_SUCC", "MAY_CONT"}

MethodStates == {"NONE", "INIT", "CONT", "MAY_CONT", "DONE", "EAP_FAIL"}

(***************************************************************************)
(* What one call of the selected method produces.  ask: the method lacks a *)
(* password, stores the frame and asks the user for it.                    *)
(***************************************************************************)
Outcomes == [ignore : BOOLEAN, methodState : MethodStates,
             decision : Decisions \ {"UNSET"}, resp : BOOLEAN,
             altAccept : BOOLEAN, altReject : BOOLEAN, ask : BOOLEAN]

(***************************************************************************)
(* struct eap_sm, with the password callback of the context (pwdCallback,  *)
(* pwdFrame) that only methods arm and this machine reads.                 *)
(* Three history fields say what happened since the last EAP INITIALIZE:   *)
(* won, EAP SUCCESS was reached; by, the last method that ran; wild, a     *)
(* freed buffer, a frame that is no EAP packet or a field never            *)
(* initialised was used.                                                   *)
(***************************************************************************)
EapStates ==
    [portEnabled : BOOLEAN, eapReq : BOOLEAN, eapResp : BOOLEAN,
     eapNoResp : BOOLEAN, eapSuccess : BOOLEAN, eapFail : BOOLEAN,
     eapRestart : BOOLEAN, altAccept : BOOLEAN, altReject : BOOLEAN,
     decision : Decisions, methodState : MethodStates,
     selectedMethod : Methods \cup {"NONE"},
     lastMethod : Methods \cup {"NONE"}, allowNotifications : BOOLEAN,
     lastId : Ids, reqData : Frames,
     respData : Responses, lastRespData : Responses,
     curMethods : SUBSET Methods, pwdCallback : BOOLEAN, pwdFrame : Frames,
     won : BOOLEAN, by : Methods \cup {"NONE"}, wild : BOOLEAN]

\* eap_sm_init: a zeroed structure.
NewEap ==
    [portEnabled |-> FALSE, eapReq |-> FALSE, eapResp |-> FALSE,
     eapNoResp |-> FALSE, eapSuccess |-> FALSE, eapFail |-> FALSE,
     eapRestart |-> FALSE, altAccept |-> FALSE, altReject |-> FALSE,
     decision |-> "UNSET", methodState |-> "NONE",
     selectedMethod |-> "NONE", lastMethod |-> "NONE",
     allowNotifications |-> FALSE, lastId |-> 0, reqData |-> NullFrame,
     respData |-> NullResp, lastRespData |-> NullResp,
     curMethods |-> {}, pwdCallback |-> FALSE, pwdFrame |-> NullFrame,
     won |-> FALSE, by |-> "NONE", wild |-> FALSE]

(***************************************************************************)
(* FAILURE and SUCCESS end the conversation.                               *)
(***************************************************************************)
EapFailure(e) == [e EXCEPT !.eapFail = TRUE]

EapSuccess(e) == [e EXCEPT !.eapSuccess = TRUE, !.won = TRUE]

(***************************************************************************)
(* IDLE as DISCARD and SEND_RESPONSE reach it, with eapReq FALSE: only an  *)
(* indication of the method (altAccept, altReject) moves on.               *)
(***************************************************************************)
RejectedByMethod(e) ==
    \/ e.altReject
    \/ e.altAccept /\ e.methodState # "CONT" /\ e.decision = "EAP_FAIL"

AcceptedByMethod(e) == e.altAccept /\ e.decision # "EAP_FAIL"

EapIdleQuiet(e) ==
    IF RejectedByMethod(e) THEN EapFailure(e)
    ELSE IF AcceptedByMethod(e) THEN EapSuccess(e)
    ELSE e

EapDiscard(e) ==
    EapIdleQuiet([e EXCEPT !.eapReq = FALSE, !.eapNoResp = TRUE,
                           !.lastRespData = NullResp])

EapSendResponse(e, id) ==
    LET f == [e EXCEPT !.lastId = id, !.lastRespData = NullResp]
    IN  IF f.respData = NullResp
        THEN EapDiscard(f)
        ELSE EapIdleQuiet([f EXCEPT !.lastRespData = f.respData,
                                    !.eapReq = FALSE, !.eapResp = TRUE])

(***************************************************************************)
(* The password dialogue of eapotp.c and eapmschapv2.c: the frame is kept, *)
(* its identifier is recorded so that retransmissions of it are dropped.   *)
(***************************************************************************)
AskPassword(e, p) == [e EXCEPT !.lastId = p.id, !.pwdCallback = TRUE,
                               !.pwdFrame = p]

\* eap_deinit of a method frees the stored frame, not the callback pointer.
DeinitMethod(e) == [e EXCEPT !.pwdFrame = NullFrame]

(***************************************************************************)
(* METHOD.  With no method selected eap_sm_find_method fails and the call  *)
(* returns; the request stays pending.  No method accepts the conversation *)
(* by itself (altAccept) on the first message it sees.                     *)
(***************************************************************************)
MethodResult(e, p, m) ==
    LET f == [e EXCEPT !.methodState = m.methodState,
                       !.decision = m.decision, !.altReject = m.altReject,
                       !.altAccept = m.altAccept /\ e.methodState # "INIT",
                       !.by = e.selectedMethod]
    IN  IF m.ask THEN AskPassword(f, p) ELSE f

EapMethod(e, p, m) ==
    LET f == MethodResult(e, p, m)
        g == [f EXCEPT !.respData =
                 IF m.resp THEN [id |-> p.id, body |-> e.selectedMethod]
                           ELSE NullResp]
    IN  IF e.selectedMethod = "NONE" THEN e
        ELSE IF m.ignore THEN EapDiscard(f)
        ELSE IF g.methodState = "DONE" /\ g.decision = "EAP_FAIL"
        THEN EapFailure(g)
        ELSE EapSendResponse(g, p.id)

(***************************************************************************)
(* GET_METHOD: select a configured method or answer with a NAK.            *)
(***************************************************************************)
EapGetMethod(e, p, m) ==
    LET old == IF e.lastMethod \notin {p.type, "NONE"}
               THEN DeinitMethod(e) ELSE e
        new == [old EXCEPT !.lastMethod = p.type, !.selectedMethod = p.type,
                           !.methodState = "INIT"]
        nak == [e EXCEPT !.respData = [id |-> p.id, body |-> "NAK"]]
    IN  IF p.type \in e.curMethods THEN EapMethod(new, p, m)
        ELSE IF e.curMethods = {}
        THEN EapDiscard([e EXCEPT !.respData = NullResp, !.eapResp = FALSE])
        ELSE IF p.type = e.selectedMethod THEN EapMethod(nak, p, m)
        ELSE EapSendResponse(nak, p.id)

(***************************************************************************)
(* IDENTITY forgets the method of the conversation, but not its decision.  *)
(***************************************************************************)
EapIdentity(e, p, m) ==
    LET f == [e EXCEPT !.selectedMethod = "NONE", !.respData = NullResp]
    IN  IF m.resp
        THEN EapSendResponse(
                [f EXCEPT !.respData = [id |-> p.id, body |-> "IDENTITY"],
                          !.eapResp = TRUE, !.eapNoResp = FALSE,
                          !.methodState = "INIT"], p.id)
        ELSE EapDiscard(f)

\* NOTIFICATION: buildNotify returns NULL, so nothing is answered.
EapNotification(e, p) ==
    EapSendResponse([e EXCEPT !.respData = NullResp], p.id)

EapRetransmit(e, p) ==
    LET f == [e EXCEPT !.respData = NullResp]
    IN  IF e.lastRespData # NullResp
        THEN EapSendResponse([f EXCEPT !.respData = e.lastRespData,
                                       !.eapResp = TRUE], p.id)
        ELSE IF e.pwdCallback THEN EapDiscard(f)
        ELSE [f EXCEPT !.eapFail = TRUE]

(***************************************************************************)
(* RECEIVED: the order of the tests is the order of the code.  TNC sends   *)
(* the machine back through INITIALIZE and IDLE to RECEIVED, at most once: *)
(* it needs a selected method and INITIALIZE leaves none.                  *)
(***************************************************************************)
MeansSuccess(e, p) == p.code = "SUCCESS" /\ e.decision # "EAP_FAIL"

MeansFailure(e, p) ==
    /\ e.methodState # "CONT"
    /\ \/ p.code = "FAILURE" /\ e.decision # "UNCOND_SUCC"
       \/ p.code = "SUCCESS" /\ e.decision = "EAP_FAIL"

\* Mutation: retransmissions are not told apart.
AnyRequest(e, p) == p.code = "REQUEST"

IsFresh(e, p) == p.code = "REQUEST" /\ p.id # e.lastId

SwitchesToTnc(e, p) ==
    p.type = "TNC" /\ e.selectedMethod \notin {"TNC", "NONE"}

EapRequest(e, p, m) ==
    IF IsFresh(e, p) /\ e.selectedMethod = "NONE" /\ p.type # "NOTIFY"
    THEN EapGetMethod(e, p, m)
    ELSE IF IsFresh(e, p) /\ p.type = e.selectedMethod
            /\ e.methodState # "DONE" THEN EapMethod(e, p, m)
    ELSE IF p.code = "REQUEST" /\ p.id = e.lastId THEN EapRetransmit(e, p)
    ELSE IF e.selectedMethod = "LEAP" THEN EapMethod(e, p, m)
    ELSE EapDiscard(e)

ForgetResult(e) == [e EXCEPT !.eapSuccess = FALSE, !.eapFail = FALSE]

InitEapVars(e) ==
    [ForgetResult(e) EXCEPT
        !.selectedMethod = "NONE", !.methodState = "NONE",
        !.allowNotifications = TRUE, !.decision = "EAP_FAIL",
        !.lastId = InitialId, !.altAccept = FALSE, !.altReject = FALSE,
        !.eapRestart = FALSE,
        !.eapReq = e.eapReq /\ e.reqData # NullFrame,
        !.won = FALSE, !.by = "NONE"]

EapDispatch(e, p, m) ==
    IF MeansSuccess(e, p)
    THEN IF e.selectedMethod = "LEAP" THEN EapMethod(e, p, m)
                                      ELSE EapSuccess(e)
    ELSE IF MeansFailure(e, p) THEN EapFailure(e)
    ELSE IF IsFresh(e, p) /\ p.type = "NOTIFY" /\ e.allowNotifications
    THEN EapNotification(e, p)
    ELSE IF p.code = "REQUEST" /\ p.type = "IDENTITY"
    THEN EapIdentity(IF e.selectedMethod # "NONE" THEN DeinitMethod(e)
                                                  ELSE e, p, m)
    ELSE EapRequest(e, p, m)

\* parseEapReq: ub is what a buffer without an EAP packet happens to hold.
EapReceived(e, m, ub) ==
    LET p == IF e.reqData \in Garbage THEN ub ELSE e.reqData
        f == [e EXCEPT !.wild = @ \/ e.reqData \in Garbage
                                  \/ e.decision = "UNSET"]
        tnc == /\ ~MeansSuccess(f, p) /\ ~MeansFailure(f, p)
               /\ SwitchesToTnc(f, p)
    IN  EapDispatch(IF tnc THEN InitEapVars(DeinitMethod(f)) ELSE f, p, m)

EapIdle(e, m, ub) ==
    IF e.eapReq THEN EapReceived(e, m, ub) ELSE EapIdleQuiet(e)

\* eap_sm_force_init: INITIALIZE with no request pending.
EapForceInit(e) == EapIdleQuiet(InitEapVars([e EXCEPT !.eapReq = FALSE]))

\* eap_sm_run: INITIALIZE ends in IDLE.
EapRun(e, m, ub) ==
    IF ~e.portEnabled THEN e
    ELSE EapIdle(IF e.eapRestart THEN InitEapVars(e) ELSE e, m, ub)
=============================================================================

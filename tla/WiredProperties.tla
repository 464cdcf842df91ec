-------------------------- MODULE WiredProperties --------------------------
(***************************************************************************)
(* What has to be true of the wired supplicant.                            *)
(***************************************************************************)
EXTENDS WiredSupplicant

(***************************************************************************)
(* Access.                                                                 *)
(***************************************************************************)
\* The port access entity reaches AUTHENTICATED (statemachine.c:928) only
\* after the EAP machine reached SUCCESS in the conversation since its last
\* INITIALIZE, in which a method ran that the bound profile allows; a
\* connection changed meanwhile, a replayed frame or a link that flaps do
\* not carry a success over.
AuthenticatedByMethod ==
    ctx.sm.curState = "AUTHENTICATED" =>
        /\ ctx.eap.won
        /\ ctx.eap.by \in IF ctx.prof = "NONE" THEN Methods
                                               ELSE ProfileOf[ctx.prof]

\* suppPortStatus follows PortAccess: it becomes AUTHORIZED only in
\* statemachine_change_to_authenticated after a success, or in S_FORCE_AUTH.
Port == INSTANCE PortAccess
        WITH port  <- IF ctx.sm.suppPortStatus = "AUTHORIZED"
                      THEN "open" ELSE "closed",
             mode  <- IF ctx.sm.curState = "S_FORCE_AUTH"
                      THEN "forced" ELSE "auto",
             proof <- ctx.eap.won /\ ctx.eap.by # "NONE"

PortSpec == Port!Spec

(***************************************************************************)
(* Frames and answers.                                                     *)
(***************************************************************************)
Responded(c) == {i \in DOMAIN c.out : c.out[i].kind = "RESPONSE"}

\* txSuppRsp (backend_sm.c:192) sends the answer some runs of the machines
\* after the request was read: the frame in the buffer is still that request
\* and the response carries its identifier.
AnswersItsRequest ==
    \A i \in Responded(ctx) :
        /\ ctx.recvframe.code = "REQUEST"
        /\ ctx.out[i].resp.id = ctx.recvframe.id

Progress(e) == <<e.lastId, e.methodState, e.decision, e.selectedMethod,
                 e.lastRespData, e.by>>

\* A request with the identifier of the last one answered, in the same
\* conversation, gets the stored response again (eap_sm.c:1712): the method
\* does not see it a second time and the conversation stays where it was.
DuplicateChangesNothing ==
    [][(/\ ctx.sm.curState = "AUTHENTICATING" /\ ctx.sm.eapolEap
        /\ ctx.sm.beCurState = "RECEIVE"
        /\ ctx.recvframe.code = "REQUEST"
        /\ ctx.recvframe.type # "IDENTITY"
        /\ ctx.recvframe.id = ctx.eap.lastId
        /\ ctx.eap.lastRespData # NullResp
        /\ ctx'.sm.beCurState = "REQUEST")
       => /\ Progress(ctx'.eap) = Progress(ctx.eap)
          /\ ctx'.eap.respData = ctx.eap.lastRespData]_vars

\* No run of the machines uses the content of a receive buffer that
\* event_core has freed, a frame that is not there, or a field that
\* eap_sm_init does not set.
NoStaleRead == ~ctx.eap.wild

\* Four runs of the machines use up a frame, in whatever state they are; the
\* 255 runs of eapol_execute (eapol.c:247) are never needed.
FewRuns == runs <= 4 \/ ctx.sm.curState = "S_FORCE_AUTH"

(***************************************************************************)
(* The two 802.1X machines.                                                *)
(***************************************************************************)
\* The backend talks to the authenticator only for a port access entity that
\* is AUTHENTICATING; elsewhere it idles, or is about to be aborted.
BackendFollowsPae ==
    \/ ctx.sm.beCurState \in {"UNKNOWN", "IDLE"} /\ ~ctx.sm.suppStart
    \/ ctx.sm.curState = "AUTHENTICATING"
    \/ ctx.sm.suppAbort \/ ctx.sm.curState \in {"LOGOFF", "S_FORCE_AUTH"}

\* backend_sm_do_receive (backend_sm.c:657) tests failure, timeout, success
\* and a new frame one after the other: a conversation gets one verdict.
OneVerdict ==
    /\ ~(ctx.sm.suppSuccess /\ ctx.sm.suppFail)
    /\ ~(ctx.sm.suppSuccess /\ ctx.sm.suppTimeout)
    /\ ~(ctx.sm.suppFail /\ ctx.sm.suppTimeout)

(***************************************************************************)
(* A promise of a document that the code does not keep.                    *)
(***************************************************************************)
StartsWithRequest ==
    /\ ctx.recvframe.code = "REQUEST" /\ ctx.sm.eapolEap
    /\ ctx.sm.curState # "AUTHENTICATING"
    /\ ctx'.sm.curState = "AUTHENTICATING"

\* RFC 4137 (doc/standards/rfc4137.txt:551-554): eapFail is "Set to TRUE in
\* peer state machine, FALSE in lower layer": the failure of a conversation
\* is not taken for the result of the next.
FailureIsNotCarriedOver ==
    [][StartsWithRequest /\ ctx.eap.eapFail => ~ctx'.sm.suppFail]_vars
=============================================================================

----------------------------- MODULE EapProofs -----------------------------
(***************************************************************************)
(* What every operator of the EAP peer preserves, for all methods and all  *)
(* sizes of the identifier space.                                          *)
(***************************************************************************)
EXTENDS EapPeer, TLAPS

(***************************************************************************)
(* For the methods A that the bound profile allows: a success, and a       *)
(* decision that lets an EAP-Success count, come from a method in A that   *)
(* ran in the present conversation.                                        *)
(***************************************************************************)
EapOk(e, A) ==
    /\ e.curMethods \subseteq A
    /\ e.selectedMethod \in A \cup {"NONE"}
    /\ e.by \in A \cup {"NONE"}
    /\ e.eapSuccess => e.won
    /\ e.won => e.by # "NONE"
    /\ e.altAccept => e.by # "NONE"
    /\ e.decision \notin {"EAP_FAIL", "UNSET"} => e.by # "NONE"
    /\ e.decision = "UNSET" => e.by = "NONE" /\ ~e.eapFail

\* The machine was initialised, and is not about to be initialised again.
Going(e, A) ==
    /\ e \in EapStates /\ EapOk(e, A)
    /\ e.decision # "UNSET" /\ ~e.eapRestart

\* The constants of the module have the types the records expect.
LEMMA ConstantTypes ==
    /\ NullFrame \in Frames /\ NullResp \in Responses /\ InitialId \in Ids
    /\ "NONE" \notin Methods
    /\ \A p \in Frames : p.id \in Ids
  BY IdSpaceAssumption, MethodsAssumption
     DEF NullFrame, Frames, NullResp, Responses, InitialId, Ids

\* A new structure satisfies the invariant.
LEMMA NewEapOk ==
  ASSUME NEW A PROVE NewEap \in EapStates /\ EapOk(NewEap, A)
  BY ConstantTypes, IdSpaceAssumption
     DEF NewEap, EapStates, EapOk, Decisions, MethodStates, Ids

\* FAILURE only raises eapFail.
LEMMA FailureGoing ==
  ASSUME NEW A, NEW e, Going(e, A) PROVE Going(EapFailure(e), A)
  BY DEF Going, EapFailure, EapStates, EapOk

\* SUCCESS may be entered once a method has run.
LEMMA SuccessGoing ==
  ASSUME NEW A, NEW e, Going(e, A), e.by # "NONE"
  PROVE  Going(EapSuccess(e), A)
  BY DEF Going, EapSuccess, EapStates, EapOk

\* IDLE without a request: only a method that ran can accept.
LEMMA IdleQuietGoing ==
  ASSUME NEW A, NEW e, Going(e, A) PROVE Going(EapIdleQuiet(e), A)
  BY FailureGoing, SuccessGoing DEF EapIdleQuiet, AcceptedByMethod, Going, EapOk

\* DISCARD forgets the stored answer and waits.
LEMMA DiscardGoing ==
  ASSUME NEW A, NEW e, Going(e, A) PROVE Going(EapDiscard(e), A)
<1> DEFINE f == [e EXCEPT !.eapReq = FALSE, !.eapNoResp = TRUE,
                          !.lastRespData = NullResp]
<1>1. Going(f, A)
  BY ConstantTypes DEF Going, EapStates, EapOk
<1> QED
  BY <1>1, IdleQuietGoing DEF EapDiscard

\* Neither are the answer kept for retransmissions and the two flags that
\* say whether there is an answer.
LEMMA StoredAnswerGoing ==
  ASSUME NEW A, NEW e, Going(e, A), NEW r \in Responses, NEW b \in BOOLEAN
  PROVE  Going([e EXCEPT !.lastRespData = r, !.eapReq = b,
                         !.eapResp = TRUE], A)
<1> DEFINE g == [e EXCEPT !.lastRespData = r, !.eapReq = b,
                          !.eapResp = TRUE]
<1>1. e \in EapStates
  BY DEF Going
<1>2. g \in EapStates
  BY <1>1 DEF EapStates
<1>3. EapOk(g, A) /\ g.decision = e.decision /\ g.eapRestart = e.eapRestart
  BY <1>1 DEF EapStates, EapOk, Going
<1> QED
  BY <1>2, <1>3 DEF Going

\* SEND_RESPONSE stores an answer and an identifier, and no verdict.
LEMMA SendResponseGoing ==
  ASSUME NEW A, NEW e, Going(e, A), NEW id \in Ids
  PROVE  Going(EapSendResponse(e, id), A)
<1> DEFINE f == [e EXCEPT !.lastId = id, !.lastRespData = NullResp]
           g == [f EXCEPT !.lastRespData = f.respData,
                          !.eapReq = FALSE, !.eapResp = TRUE]
<1>1. Going(f, A)
  BY ConstantTypes DEF Going, EapStates, EapOk
<1>2. f.respData \in Responses
  BY <1>1 DEF Going, EapStates
<1>3. Going(g, A)
  <2> HIDE DEF f
  <2> QED
    BY <1>1, <1>2, StoredAnswerGoing
<1> QED
  BY <1>1, <1>3, DiscardGoing, IdleQuietGoing DEF EapSendResponse

\* Ending a method drops the frame it had put aside.
LEMMA DeinitGoing ==
  ASSUME NEW A, NEW e, Going(e, A) PROVE Going(DeinitMethod(e), A)
  BY ConstantTypes DEF DeinitMethod, Going, EapStates, EapOk

\* The answer a state carries is of no concern to the invariant.
LEMMA AnswerGoing ==
  ASSUME NEW A, NEW e, Going(e, A), NEW r \in Responses
  PROVE  Going([e EXCEPT !.respData = r], A)
  BY DEF Going, EapStates, EapOk

\* The response data say nothing of the verdict.
LEMMA RespGoing ==
  ASSUME NEW A, NEW e, Going(e, A) PROVE Going([e EXCEPT !.eapResp = TRUE], A)
  BY DEF Going, EapStates, EapOk

\* METHOD: the decision becomes that of a selected, allowed method.
LEMMA MethodGoing ==
  ASSUME NEW A, NEW e, Going(e, A), A \subseteq Methods,
         NEW p \in Frames, NEW m \in Outcomes
  PROVE  Going(EapMethod(e, p, m), A)
<1>1. CASE e.selectedMethod = "NONE"
  BY <1>1 DEF EapMethod
<1>2. CASE e.selectedMethod # "NONE"
  <2> DEFINE b == m.altAccept /\ e.methodState # "INIT"
             s == [e EXCEPT !.methodState = m.methodState,
                            !.decision = m.decision,
                            !.altReject = m.altReject,
                            !.altAccept = b,
                            !.by = e.selectedMethod]
             f == MethodResult(e, p, m)
             r == IF m.resp THEN [id |-> p.id, body |-> e.selectedMethod]
                            ELSE NullResp
             g == [f EXCEPT !.respData = r]
  <2>1. Going(s, A)
    <3>1. b \in BOOLEAN
      OBVIOUS
    <3>2. /\ m.methodState \in MethodStates /\ m.altReject \in BOOLEAN
          /\ m.decision \in Decisions /\ m.decision # "UNSET"
      BY DEF Outcomes
    <3> HIDE DEF b
    <3> QED
      BY <1>2, <3>1, <3>2 DEF Going, EapStates, EapOk
  <2>2. Going(AskPassword(s, p), A)
    <3> HIDE DEF s
    <3> QED
      BY <2>1, ConstantTypes DEF AskPassword, Going, EapStates, EapOk
  <2>3. Going(f, A)
    BY <2>1, <2>2 DEF MethodResult
  <2>4. r \in Responses
    BY <1>2, ConstantTypes DEF Going, EapOk, Responses
  <2>5. Going(g, A)
    BY <2>3, <2>4, AnswerGoing
  <2> QED
    BY <1>2, <2>3, <2>5, ConstantTypes, DiscardGoing, FailureGoing,
       SendResponseGoing DEF EapMethod
<1> QED
  BY <1>1, <1>2

\* GET_METHOD selects a method of the bound profile, or answers a NAK.
LEMMA GetMethodGoing ==
  ASSUME NEW A, NEW e, Going(e, A), A \subseteq Methods,
         NEW p \in Frames, NEW m \in Outcomes
  PROVE  Going(EapGetMethod(e, p, m), A)
<1> DEFINE old  == IF e.lastMethod \notin {p.type, "NONE"}
                   THEN DeinitMethod(e) ELSE e
           new  == [old EXCEPT !.lastMethod = p.type,
                               !.selectedMethod = p.type,
                               !.methodState = "INIT"]
           r    == [id |-> p.id, body |-> "NAK"]
           nak  == [e EXCEPT !.respData = r]
           none == [e EXCEPT !.respData = NullResp, !.eapResp = FALSE]
<1>1. Going(old, A) /\ old.curMethods = e.curMethods
  BY DeinitGoing DEF DeinitMethod, Going, EapStates
<1>2. ASSUME p.type \in e.curMethods PROVE Going(new, A)
  <2> HIDE DEF old
  <2>1. p.type \in Methods /\ p.type \in A
    BY <1>2 DEF Going, EapOk
  <2>2. old \in EapStates
    BY <1>1 DEF Going
  <2>3. new \in EapStates
    BY <2>1, <2>2 DEF EapStates, MethodStates
  <2>4. /\ EapOk(new, A)
        /\ new.decision = old.decision /\ new.eapRestart = old.eapRestart
    BY <1>1, <2>1, <2>2 DEF EapStates, EapOk, Going
  <2> QED
    BY <1>1, <2>3, <2>4 DEF Going
<1>3. r \in Responses
  BY ConstantTypes DEF Responses
<1>4. Going(nak, A)
  BY <1>3, AnswerGoing
<1>5. Going(none, A)
  BY ConstantTypes DEF Going, EapStates, EapOk
<1> QED
  BY <1>2, <1>4, <1>5, ConstantTypes, MethodGoing, DiscardGoing,
     SendResponseGoing DEF EapGetMethod

\* IDENTITY selects nothing and keeps the decision of an earlier method.
LEMMA IdentityGoing ==
  ASSUME NEW A, NEW e, Going(e, A), NEW p \in Frames, NEW m \in Outcomes
  PROVE  Going(EapIdentity(e, p, m), A)
<1> DEFINE f == [e EXCEPT !.selectedMethod = "NONE", !.respData = NullResp]
           r == [id |-> p.id, body |-> "IDENTITY"]
           g == [f EXCEPT !.respData = r, !.eapResp = TRUE,
                          !.eapNoResp = FALSE, !.methodState = "INIT"]
<1>1. Going(f, A)
  BY ConstantTypes DEF Going, EapStates, EapOk
<1>2. r \in Responses
  BY ConstantTypes DEF Responses
<1>3. Going(g, A)
  <2> HIDE DEF f, r
  <2>1. f \in EapStates
    BY <1>1 DEF Going
  <2>2. g \in EapStates
    BY <1>2, <2>1 DEF EapStates, MethodStates
  <2>3. EapOk(g, A) /\ g.decision = f.decision /\ g.eapRestart = f.eapRestart
    BY <1>1, <2>1 DEF EapStates, EapOk, Going
  <2> QED
    BY <1>1, <2>2, <2>3 DEF Going
<1> QED
  BY <1>1, <1>3, ConstantTypes, DiscardGoing, SendResponseGoing
     DEF EapIdentity

\* RETRANSMIT sends the stored answer, drops the request or fails.
LEMMA RetransmitGoing ==
  ASSUME NEW A, NEW e, Going(e, A), NEW p \in Frames
  PROVE  Going(EapRetransmit(e, p), A)
<1> DEFINE f == [e EXCEPT !.respData = NullResp]
           g == [f EXCEPT !.respData = e.lastRespData, !.eapResp = TRUE]
<1>1. Going(f, A)
  BY ConstantTypes, AnswerGoing
<1>2. Going(g, A)
  <2>1. e.lastRespData \in Responses
    BY DEF Going, EapStates
  <2>2. Going([e EXCEPT !.respData = e.lastRespData], A)
    BY <2>1, AnswerGoing
  <2>3. g = [[e EXCEPT !.respData = e.lastRespData] EXCEPT !.eapResp = TRUE]
    BY DEF Going, EapStates
  <2> HIDE DEF g
  <2> QED
    BY <2>2, <2>3, RespGoing
<1>3. Going([f EXCEPT !.eapFail = TRUE], A)
  BY <1>1, FailureGoing DEF EapFailure
<1> QED
  BY <1>1, <1>2, <1>3, ConstantTypes, DiscardGoing, SendResponseGoing
     DEF EapRetransmit

(***************************************************************************)
(* INITIALIZE makes the invariant true of a structure that was not         *)
(* initialised, and forgets the success.                                   *)
(***************************************************************************)
LEMMA InitializedGoing ==
  ASSUME NEW A, NEW e \in EapStates, EapOk(e, A)
  PROVE  /\ Going(InitEapVars(e), A)
         /\ ~InitEapVars(e).eapSuccess /\ ~InitEapVars(e).altAccept
         /\ InitEapVars(e).portEnabled = e.portEnabled
<1> DEFINE q == e.eapReq /\ e.reqData # NullFrame
           h == [ForgetResult(e) EXCEPT
                    !.selectedMethod = "NONE", !.methodState = "NONE",
                    !.allowNotifications = TRUE, !.decision = "EAP_FAIL"]
           k == [h EXCEPT !.lastId = InitialId, !.altAccept = FALSE,
                          !.altReject = FALSE, !.eapRestart = FALSE]
           i == [ForgetResult(e) EXCEPT
                    !.selectedMethod = "NONE", !.methodState = "NONE",
                    !.allowNotifications = TRUE, !.decision = "EAP_FAIL",
                    !.lastId = InitialId, !.altAccept = FALSE,
                    !.altReject = FALSE, !.eapRestart = FALSE,
                    !.eapReq = q, !.won = FALSE, !.by = "NONE"]
<1>1. InitEapVars(e) = i
  BY DEF InitEapVars
<1>2. q \in BOOLEAN
  OBVIOUS
<1> HIDE DEF q
<1>3. /\ ForgetResult(e) \in EapStates
      /\ ForgetResult(e).curMethods \subseteq A
      /\ ~ForgetResult(e).eapSuccess
      /\ ForgetResult(e).portEnabled = e.portEnabled
  BY DEF ForgetResult, EapStates, EapOk
<1>4. i \in EapStates
  <2>1. h \in EapStates
    BY <1>3, ConstantTypes DEF EapStates, MethodStates, Decisions
  <2>2. k \in EapStates
    <3> HIDE DEF h
    <3> QED
      BY <2>1, ConstantTypes DEF EapStates
  <2>3. i = [k EXCEPT !.eapReq = q, !.won = FALSE, !.by = "NONE"]
    OBVIOUS
  <2>4. [k EXCEPT !.eapReq = q, !.won = FALSE, !.by = "NONE"] \in EapStates
    <3> HIDE DEF k
    <3> QED
      BY <1>2, <2>2 DEF EapStates
  <2> QED
    BY <2>3, <2>4
<1>5. /\ i.curMethods \subseteq A /\ ~i.eapSuccess /\ ~i.altAccept
      /\ i.selectedMethod = "NONE" /\ i.by = "NONE" /\ ~i.won
      /\ i.decision = "EAP_FAIL" /\ ~i.eapRestart
      /\ i.portEnabled = e.portEnabled
  BY <1>3 DEF EapStates
<1> QED
  BY <1>1, <1>4, <1>5 DEF Going, EapOk

\* A request is answered by one of the states above.
LEMMA RequestGoing ==
  ASSUME NEW A, NEW e, Going(e, A), A \subseteq Methods,
         NEW p \in Frames, NEW m \in Outcomes
  PROVE  Going(EapRequest(e, p, m), A)
  BY GetMethodGoing, MethodGoing, RetransmitGoing, DiscardGoing
     DEF EapRequest

\* RECEIVED: a success needs a decision some method has taken.
LEMMA DispatchGoing ==
  ASSUME NEW A, NEW e, Going(e, A), A \subseteq Methods,
         NEW p \in Frames, NEW m \in Outcomes
  PROVE  Going(EapDispatch(e, p, m), A)
<1>1. CASE MeansSuccess(e, p)
  <2>1. e.by # "NONE"
    BY <1>1 DEF MeansSuccess, Going, EapOk
  <2> QED
    BY <1>1, <2>1, MethodGoing, SuccessGoing DEF EapDispatch
<1>2. CASE ~MeansSuccess(e, p)
  <2>1. Going(EapNotification(e, p), A)
    BY ConstantTypes, AnswerGoing, SendResponseGoing DEF EapNotification
  <2>2. Going(EapIdentity(IF e.selectedMethod # "NONE" THEN DeinitMethod(e)
                                                       ELSE e, p, m), A)
    BY DeinitGoing, IdentityGoing
  <2> QED
    BY <1>2, <2>1, <2>2, FailureGoing, RequestGoing DEF EapDispatch
<1> QED
  BY <1>1, <1>2

\* RECEIVED, with the switch to TNC that initialises the machine first.
LEMMA ReceivedGoing ==
  ASSUME NEW A, NEW e, Going(e, A), A \subseteq Methods,
         NEW m \in Outcomes, NEW ub \in Frames
  PROVE  Going(EapReceived(e, m, ub), A)
<1> DEFINE p == IF e.reqData \in Garbage THEN ub ELSE e.reqData
           f == [e EXCEPT !.wild = @ \/ e.reqData \in Garbage
                                     \/ e.decision = "UNSET"]
<1>1. p \in Frames
  BY DEF Going, EapStates
<1>2. Going(f, A)
  BY DEF Going, EapStates, EapOk
<1>3. Going(InitEapVars(DeinitMethod(f)), A)
  BY <1>2, DeinitGoing, InitializedGoing DEF Going
<1>4. /\ Going(EapDispatch(InitEapVars(DeinitMethod(f)), p, m), A)
      /\ Going(EapDispatch(f, p, m), A)
  BY <1>1, <1>2, <1>3, DispatchGoing
<1> QED
  BY <1>4 DEF EapReceived

(***************************************************************************)
(* The calls of the 802.1X machines: a run that initialises the machine,   *)
(* a run that does not, and eap_sm_force_init.                             *)
(***************************************************************************)
LEMMA IdleGoing ==
  ASSUME NEW A, NEW e, Going(e, A), A \subseteq Methods,
         NEW m \in Outcomes, NEW ub \in Frames
  PROVE  Going(EapIdle(e, m, ub), A)
  BY ReceivedGoing, IdleQuietGoing DEF EapIdle

\* A run of the machine, with or without INITIALIZE.
LEMMA RunGoing ==
  ASSUME NEW A, NEW e \in EapStates, EapOk(e, A), A \subseteq Methods,
         NEW m \in Outcomes, NEW ub \in Frames,
         \/ e.portEnabled /\ e.eapRestart
         \/ e.decision # "UNSET" /\ ~e.eapRestart
  PROVE  Going(EapRun(e, m, ub), A)
<1>1. CASE e.portEnabled /\ e.eapRestart
  <2>1. Going(EapIdle(InitEapVars(e), m, ub), A)
    BY InitializedGoing, IdleGoing
  <2> QED
    BY <1>1, <2>1 DEF EapRun
<1>2. CASE e.decision # "UNSET" /\ ~e.eapRestart
  BY <1>2, IdleGoing DEF EapRun, Going
<1> QED
  BY <1>1, <1>2

\* eap_sm_force_init leaves no success behind.
LEMMA ForceInitGoing ==
  ASSUME NEW A, NEW e \in EapStates, EapOk(e, A)
  PROVE  Going(EapForceInit(e), A) /\ ~EapForceInit(e).eapSuccess
<1> DEFINE d == [e EXCEPT !.eapReq = FALSE]
<1>1. d \in EapStates /\ EapOk(d, A)
  BY DEF EapStates, EapOk
<1>2. /\ Going(InitEapVars(d), A)
      /\ ~InitEapVars(d).eapSuccess /\ ~InitEapVars(d).altAccept
  BY <1>1, InitializedGoing
<1>3. Going(EapIdleQuiet(InitEapVars(d)), A)
  BY <1>2, IdleQuietGoing
<1>4. ~EapIdleQuiet(InitEapVars(d)).eapSuccess
  BY <1>2 DEF EapIdleQuiet, EapFailure, AcceptedByMethod, Going, EapStates
<1> QED
  BY <1>3, <1>4 DEF EapForceInit
=============================================================================

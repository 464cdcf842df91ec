---------------------------- MODULE WiredProofs ----------------------------
(***************************************************************************)
(* Theorems about the wired supplicant, for all methods, connections,      *)
(* periods and frames.                                                     *)
(***************************************************************************)
EXTENDS WiredProperties, EapProofs, SequenceTheorems

(***************************************************************************)
(* The inductive invariant.                                                *)
(***************************************************************************)
Allowed(prof) == IF prof = "NONE" THEN Methods ELSE ProfileOf[prof]

\* What nothing in the repository changes: no path leads to these.
Unreached(c) ==
    /\ ~c.sm.userLogoff /\ ~c.sm.eapRestart
    /\ c.sm.portControl # "FORCE_UNAUTHORIZED"
    /\ c.sm.curState \notin {"RESTART", "S_FORCE_UNAUTH"}

\* The backend is not going to call the EAP machine by itself.
BackendQuiet(c) ==
    ~c.sm.suppStart /\ c.sm.beCurState \in {"UNKNOWN", "IDLE"}

\* A success the port access entity has seen, or will see, is one of the
\* present conversation, and the backend has stopped.
SuccessHolds(c) ==
    \/ c.sm.curState = "AUTHENTICATED"
    \/ c.sm.curState = "AUTHENTICATING" /\ c.sm.suppSuccess
    => c.eap.won /\ BackendQuiet(c)

\* The backend does not wait for a frame when the conversation succeeded.
ReceiveWaits(c) == c.sm.beCurState = "RECEIVE" => ~c.eap.eapSuccess

\* The EAP machine is not used before it was initialised.
UnsetIsUnused(c) ==
    c.eap.decision = "UNSET" =>
        c.conn = "NONE" \/ c.sm.curState = "S_FORCE_AUTH" \/ BackendQuiet(c)

GivenUp(c) ==
    c.sm.curState = "S_FORCE_AUTH" =>
        /\ c.sm.portControl = "FORCE_AUTHORIZED"
        /\ c.sm.sPortMode = "FORCE_AUTHORIZED"

CtxOk(c) ==
    /\ c \in Contexts /\ EapOk(c.eap, Allowed(c.prof))
    /\ Unreached(c) /\ SuccessHolds(c) /\ ReceiveWaits(c)
    /\ UnsetIsUnused(c) /\ GivenUp(c)

IInv == TypeOK /\ CtxOk(ctx)

\* d has all that CtxOk looks at from c.
Alike(c, d) ==
    /\ d \in Contexts /\ d.conn = c.conn /\ d.prof = c.prof
    /\ d.sm.curState = c.sm.curState /\ d.sm.beCurState = c.sm.beCurState
    /\ d.sm.userLogoff = c.sm.userLogoff
    /\ d.sm.eapRestart = c.sm.eapRestart
    /\ d.sm.portControl = c.sm.portControl
    /\ d.sm.sPortMode = c.sm.sPortMode
    /\ d.sm.suppSuccess = c.sm.suppSuccess
    /\ d.sm.suppStart = c.sm.suppStart
    /\ EapOk(d.eap, Allowed(c.prof)) /\ d.eap.won = c.eap.won
    /\ d.eap.eapSuccess = c.eap.eapSuccess
    /\ d.eap.decision = c.eap.decision

\* The invariant depends on nothing but what Alike compares.
LEMMA AlikeOk ==
  ASSUME NEW c, NEW d, CtxOk(c), Alike(c, d)
  PROVE  CtxOk(d)
  BY DEF Alike, CtxOk, Unreached, SuccessHolds, ReceiveWaits, UnsetIsUnused,
         GivenUp, BackendQuiet

(***************************************************************************)
(* The backend machine.                                                    *)
(***************************************************************************)
\* While the machines run: a context whose port is enabled.
Enabled(c) ==
    /\ c \in Contexts /\ EapOk(c.eap, Allowed(c.prof))
    /\ c.sm.portEnabled

\* The backend leaves alone what belongs to the port access entity.
SamePae(c, d) ==
    /\ d.sm.curState = c.sm.curState
    /\ d.sm.portControl = c.sm.portControl
    /\ d.sm.sPortMode = c.sm.sPortMode
    /\ d.sm.userLogoff = c.sm.userLogoff
    /\ d.conn = c.conn /\ d.prof = c.prof

\* The parts of a context, and the methods of its profile.
LEMMA AllowedMethods ==
  ASSUME NEW c \in Contexts
  PROVE  /\ Allowed(c.prof) \subseteq Methods
         /\ c.sm \in SmStates /\ c.eap \in EapStates
         /\ c.prof # "NONE" => Allowed(c.prof) = ProfileOf[c.prof]
  BY ConnsAssumption DEF Allowed, Contexts

\* Sending a frame changes nothing but the record of what was sent.
LEMMA TransmitOk ==
  ASSUME NEW c \in Contexts, NEW kind \in {"START", "LOGOFF", "RESPONSE"},
         NEW r \in Responses
  PROVE  /\ Transmit(c, kind, r) \in Contexts
         /\ Transmit(c, kind, r).sm = c.sm /\ Transmit(c, kind, r).eap = c.eap
         /\ Transmit(c, kind, r).conn = c.conn
         /\ Transmit(c, kind, r).prof = c.prof
<1>1. [kind |-> kind, resp |-> r] \in Sent
  BY DEF Sent
<1>2. c.out \in Seq(Sent)
  BY DEF Contexts
<1>3. Append(c.out, [kind |-> kind, resp |-> r]) \in Seq(Sent)
  BY <1>1, <1>2, AppendProperties
<1> QED
  BY <1>3 DEF Transmit, Contexts

\* A run of the EAP machine, which is initialised or asked to be.
LEMMA RunEapOk ==
  ASSUME NEW c, Enabled(c), NEW in \in Inputs,
         c.sm.eapRestart \/ c.eap.decision # "UNSET"
  PROVE  /\ Enabled(RunEap(c, in)) /\ SamePae(c, RunEap(c, in))
         /\ RunEap(c, in).eap.decision # "UNSET"
         /\ RunEap(c, in).sm = [c.sm EXCEPT !.eapRestart = FALSE]
<1> DEFINE A == Allowed(c.prof)
           d == SyncLowerToPeer(c)
           e == EapRun(d.eap, in.m, in.ub)
<1>1. /\ c.sm \in SmStates /\ c.eap \in EapStates /\ A \subseteq Methods
      /\ in.m \in Outcomes /\ in.ub \in Frames
  BY AllowedMethods DEF Enabled, Inputs
<1> DEFINE ms == IF c.prof # "NONE" THEN ProfileOf[c.prof]
                                   ELSE c.eap.curMethods
           q  == c.sm.eapReq
           b  == c.sm.portEnabled
           r  == c.sm.eapRestart
           x  == [c.eap EXCEPT !.eapReq = q, !.portEnabled = b,
                               !.eapRestart = r, !.curMethods = ms]
<1>2. d.eap = x
  BY DEF SyncLowerToPeer, Contexts, Enabled
<1>3. ms \subseteq Methods /\ ms \subseteq A
  BY <1>1, ConnsAssumption DEF Enabled, Contexts, EapStates, EapOk, Allowed
<1>4. d.eap \in EapStates
  <2>1. q \in BOOLEAN /\ b \in BOOLEAN /\ r \in BOOLEAN
    BY <1>1 DEF SmStates
  <2> HIDE DEF ms, q, b, r
  <2>2. x \in EapStates
    BY <1>1, <1>3, <2>1 DEF EapStates
  <2> QED
    BY <1>2, <2>2
<1>5. EapOk(d.eap, A)
  BY <1>1, <1>2, <1>3 DEF EapStates, EapOk, Enabled
<1>6. /\ d \in Contexts /\ d.sm = c.sm
      /\ d.conn = c.conn /\ d.prof = c.prof
  BY <1>1, <1>4 DEF SyncLowerToPeer, Enabled, Contexts
<1>7. /\ d.eap.portEnabled /\ d.eap.eapRestart = c.sm.eapRestart
      /\ d.eap.decision = c.eap.decision
  BY <1>1, <1>2 DEF EapStates, Enabled
<1>8. Going(e, A)
  BY <1>1, <1>4, <1>5, <1>7, RunGoing DEF SmStates
<1>9. RunEap(c, in) = [d EXCEPT !.eap = e, !.sm.eapRestart = e.eapRestart]
  BY DEF RunEap, SyncPeerToLower
<1> HIDE DEF d, e
<1>10. RunEap(c, in).sm = [c.sm EXCEPT !.eapRestart = FALSE]
  BY <1>6, <1>8, <1>9 DEF Contexts, Going, EapStates
<1>11. [c.sm EXCEPT !.eapRestart = FALSE] \in SmStates
  BY <1>1 DEF SmStates
<1>12. /\ RunEap(c, in) \in Contexts /\ RunEap(c, in).eap = e
       /\ RunEap(c, in).conn = c.conn /\ RunEap(c, in).prof = c.prof
  BY <1>6, <1>8, <1>9, <1>10, <1>11 DEF Contexts, Going
<1> QED
  BY <1>1, <1>8, <1>10, <1>12 DEF Enabled, SamePae, Going, SmStates

\* A step of the backend that does not call the EAP machine.
Aside(c, d) ==
    /\ Enabled(d) /\ SamePae(c, d)
    /\ d.sm.eapRestart = c.sm.eapRestart
    /\ d.eap.decision = c.eap.decision /\ d.eap.won = c.eap.won

\* IDLE quiets the backend.
LEMMA BeIdleOk ==
  ASSUME NEW c, Enabled(c)
  PROVE  /\ Aside(c, BeIdle(c)) /\ BackendQuiet(BeIdle(c))
         /\ BeIdle(c).sm.beCurState = "IDLE"
         /\ BeIdle(c).sm.suppSuccess = c.sm.suppSuccess
         /\ BeIdle(c).eap = c.eap
<1> DEFINE d == BeIdle(c)
<1>1. c.sm \in SmStates
  BY AllowedMethods DEF Enabled
<1>2. /\ d.sm = [c.sm EXCEPT !.suppStart = FALSE, !.beCurState = "IDLE"]
      /\ d.eap = c.eap /\ d.conn = c.conn /\ d.prof = c.prof
  BY DEF BeIdle, Enabled, Contexts
<1>3. ASSUME NEW s \in SmStates
      PROVE  [s EXCEPT !.suppStart = FALSE, !.beCurState = "IDLE"] \in SmStates
  BY DEF SmStates, BackendStateNames
<1>4. d.sm \in SmStates
  BY <1>1, <1>2, <1>3
<1>5. d \in Contexts
  BY <1>4 DEF BeIdle, Enabled, Contexts
<1> HIDE DEF d
<1> QED
  BY <1>1, <1>2, <1>5
     DEF d, Enabled, Aside, SamePae, BackendQuiet, SmStates

\* FAIL, TIMEOUT and SUCCESS report a verdict and go idle.
LEMMA BeVerdictOk ==
  ASSUME NEW c, Enabled(c)
  PROVE  /\ \A d \in {BeFail(c), BeTimeout(c), BeSuccess(c)} :
                /\ Aside(c, d) /\ BackendQuiet(d) /\ d.eap = c.eap
                /\ d.sm.beCurState = "IDLE"
         /\ BeFail(c).sm.suppSuccess = c.sm.suppSuccess
         /\ BeTimeout(c).sm.suppSuccess = c.sm.suppSuccess
<1> DEFINE f == [c EXCEPT !.sm.suppFail = TRUE]
           t == [c EXCEPT !.sm.suppTimeout = TRUE]
           s == [c EXCEPT !.sm.suppSuccess = TRUE]
<1>1. c.sm \in SmStates
  BY AllowedMethods DEF Enabled
<1>2. /\ f.sm = [c.sm EXCEPT !.suppFail = TRUE]
      /\ t.sm = [c.sm EXCEPT !.suppTimeout = TRUE]
      /\ s.sm = [c.sm EXCEPT !.suppSuccess = TRUE]
      /\ \A d \in {f, t, s} :
            d.eap = c.eap /\ d.conn = c.conn /\ d.prof = c.prof
  BY DEF Enabled, Contexts
<1>3. ASSUME NEW z \in SmStates
      PROVE  /\ [z EXCEPT !.suppFail = TRUE] \in SmStates
             /\ [z EXCEPT !.suppTimeout = TRUE] \in SmStates
             /\ [z EXCEPT !.suppSuccess = TRUE] \in SmStates
  BY DEF SmStates
<1>4. f.sm \in SmStates /\ t.sm \in SmStates /\ s.sm \in SmStates
  BY <1>1, <1>2, <1>3
<1>5. f \in Contexts /\ t \in Contexts /\ s \in Contexts
  BY <1>4 DEF Enabled, Contexts
<1>6. /\ BeFail(c) = BeIdle(f) /\ BeTimeout(c) = BeIdle(t)
      /\ BeSuccess(c) = BeIdle(s)
  BY DEF BeFail, BeTimeout, BeSuccess
<1> HIDE DEF f, t, s
<1>7. Aside(c, f) /\ f.sm.suppSuccess = c.sm.suppSuccess
  BY <1>1, <1>2, <1>5 DEF Enabled, Aside, SamePae, SmStates
<1>8. Aside(c, t) /\ t.sm.suppSuccess = c.sm.suppSuccess
  BY <1>1, <1>2, <1>5 DEF Enabled, Aside, SamePae, SmStates
<1>9. Aside(c, s)
  BY <1>1, <1>2, <1>5 DEF Enabled, Aside, SamePae, SmStates
<1>10. ASSUME NEW d \in {f, t, s}
       PROVE  /\ Aside(c, BeIdle(d)) /\ BackendQuiet(BeIdle(d))
              /\ BeIdle(d).eap = c.eap /\ BeIdle(d).sm.beCurState = "IDLE"
              /\ BeIdle(d).sm.suppSuccess = d.sm.suppSuccess
  <2>1. Aside(c, d) /\ d.eap = c.eap
    BY <1>2, <1>7, <1>8, <1>9
  <2> QED
    BY <2>1, BeIdleOk DEF Aside, SamePae
<1> QED
  BY <1>6, <1>7, <1>8, <1>10

\* INITIALIZE aborts the backend and goes idle.
LEMMA BeInitializeOk ==
  ASSUME NEW c, Enabled(c)
  PROVE  /\ Aside(c, BeInitialize(c)) /\ BackendQuiet(BeInitialize(c))
         /\ BeInitialize(c).sm.beCurState = "IDLE"
         /\ BeInitialize(c).sm.suppSuccess = c.sm.suppSuccess
<1> DEFINE i == [AbortSupp(c) EXCEPT !.sm.suppAbort = FALSE,
                                     !.sm.initialize = FALSE]
<1>1. c.sm \in SmStates /\ c.eap \in EapStates
  BY AllowedMethods DEF Enabled
<1>2. /\ i.sm = [c.sm EXCEPT !.suppStart = FALSE, !.suppAbort = FALSE,
                             !.initialize = FALSE]
      /\ i.eap = [c.eap EXCEPT !.eapSuccess = FALSE]
      /\ i.conn = c.conn /\ i.prof = c.prof
  BY DEF AbortSupp, Enabled, Contexts
<1>3. ASSUME NEW z \in SmStates
      PROVE  [z EXCEPT !.suppStart = FALSE, !.suppAbort = FALSE,
                       !.initialize = FALSE] \in SmStates
  BY DEF SmStates
<1>4. ASSUME NEW e \in EapStates, EapOk(e, Allowed(c.prof))
      PROVE  /\ [e EXCEPT !.eapSuccess = FALSE] \in EapStates
             /\ EapOk([e EXCEPT !.eapSuccess = FALSE], Allowed(c.prof))
  BY <1>4 DEF EapStates, EapOk
<1>5. /\ i.sm \in SmStates /\ i.eap \in EapStates
      /\ EapOk(i.eap, Allowed(c.prof))
  BY <1>1, <1>2, <1>3, <1>4 DEF Enabled
<1>6. i \in Contexts
  BY <1>5 DEF AbortSupp, Enabled, Contexts
<1>7. BeInitialize(c) = BeIdle(i)
  BY DEF BeInitialize
<1> HIDE DEF i
<1>8. i.eap.decision = c.eap.decision /\ i.eap.won = c.eap.won
  BY <1>1, <1>2 DEF EapStates
<1>9. Aside(c, i) /\ i.sm.suppSuccess = c.sm.suppSuccess
  BY <1>1, <1>2, <1>5, <1>6, <1>8 DEF Enabled, Aside, SamePae, SmStates
<1> QED
  BY <1>7, <1>9, BeIdleOk DEF Aside, SamePae

\* RECEIVE loads authWhile and waits for a frame.
LEMMA BeReceiveOk ==
  ASSUME NEW c, Enabled(c)
  PROVE  /\ Aside(c, BeReceive(c))
         /\ BeReceive(c).sm.beCurState = "RECEIVE"
         /\ BeReceive(c).sm.suppSuccess = c.sm.suppSuccess
         /\ BeReceive(c).eap.eapSuccess = c.eap.eapSuccess
<1> DEFINE d == BeReceive(c)
<1>1. c.sm \in SmStates /\ c.eap \in EapStates
  BY AllowedMethods DEF Enabled
<1>2. /\ d.sm = [c.sm EXCEPT !.authWhile = AuthPeriod, !.eapolEap = FALSE,
                             !.beCurState = "RECEIVE"]
      /\ d.eap = [c.eap EXCEPT !.eapNoResp = FALSE]
      /\ d.conn = c.conn /\ d.prof = c.prof
  BY DEF BeReceive, Enabled, Contexts
<1>3. ASSUME NEW z \in SmStates
      PROVE  [z EXCEPT !.authWhile = AuthPeriod, !.eapolEap = FALSE,
                       !.beCurState = "RECEIVE"] \in SmStates
  <2> DEFINE n == AuthPeriod
  <2>1. n \in 0 .. AuthPeriod
    BY PeriodsAssumption
  <2> HIDE DEF n
  <2>2. [z EXCEPT !.authWhile = n, !.eapolEap = FALSE,
                  !.beCurState = "RECEIVE"] \in SmStates
    BY <2>1 DEF SmStates, BackendStateNames
  <2> QED
    BY <2>2 DEF n
<1>4. ASSUME NEW e \in EapStates, EapOk(e, Allowed(c.prof))
      PROVE  /\ [e EXCEPT !.eapNoResp = FALSE] \in EapStates
             /\ EapOk([e EXCEPT !.eapNoResp = FALSE], Allowed(c.prof))
  BY <1>4 DEF EapStates, EapOk
<1>5. /\ d.sm \in SmStates /\ d.eap \in EapStates
      /\ EapOk(d.eap, Allowed(c.prof))
  <2>1. d.sm \in SmStates
    BY <1>1, <1>2, <1>3
  <2>2. EapOk(c.eap, Allowed(c.prof))
    BY DEF Enabled
  <2> QED
    BY <1>1, <1>2, <1>4, <2>1, <2>2
<1>6. d \in Contexts
  BY <1>5 DEF BeReceive, Enabled, Contexts
<1> HIDE DEF d
<1>7. /\ d.eap.decision = c.eap.decision /\ d.eap.won = c.eap.won
      /\ d.eap.eapSuccess = c.eap.eapSuccess
  BY <1>1, <1>2 DEF EapStates
<1> QED
  BY <1>1, <1>2, <1>5, <1>6, <1>7 DEF d, Enabled, Aside, SamePae, SmStates

\* RESPONSE sends the answer and waits for a frame.
LEMMA BeResponseOk ==
  ASSUME NEW c, Enabled(c)
  PROVE  /\ Aside(c, BeResponse(c))
         /\ BeResponse(c).sm.beCurState = "RECEIVE"
         /\ BeResponse(c).sm.suppSuccess = c.sm.suppSuccess
         /\ BeResponse(c).eap.eapSuccess = c.eap.eapSuccess
<1> DEFINE d == [c EXCEPT !.eap.eapResp = FALSE, !.sm.eapolEap = FALSE]
           t == TxSuppRsp(c)
           z == [t EXCEPT !.eap.respData = NullResp]
<1>1. c.sm \in SmStates /\ c.eap \in EapStates
  BY AllowedMethods DEF Enabled
<1>2. /\ d.sm = [c.sm EXCEPT !.eapolEap = FALSE]
      /\ d.eap = [c.eap EXCEPT !.eapResp = FALSE]
      /\ d.conn = c.conn /\ d.prof = c.prof
  BY DEF Enabled, Contexts
<1>3. ASSUME NEW y \in SmStates
      PROVE  [y EXCEPT !.eapolEap = FALSE] \in SmStates
  BY DEF SmStates
<1>4. ASSUME NEW e \in EapStates
      PROVE  [e EXCEPT !.eapResp = FALSE] \in EapStates
  BY DEF EapStates
<1>5. d.sm \in SmStates /\ d.eap \in EapStates
  BY <1>1, <1>2, <1>3, <1>4
<1>6. d \in Contexts
  BY <1>5 DEF Enabled, Contexts
<1>7. c.eap.respData \in Responses
  BY <1>1 DEF EapStates
<1>8. /\ t \in Contexts /\ t.sm = d.sm /\ t.eap = d.eap
      /\ t.conn = c.conn /\ t.prof = c.prof
  BY <1>2, <1>6, <1>7, TransmitOk DEF TxSuppRsp
<1> HIDE DEF d, t
<1>9. /\ z.sm = d.sm /\ z.eap = [d.eap EXCEPT !.respData = NullResp]
      /\ z.conn = c.conn /\ z.prof = c.prof
  BY <1>8 DEF Contexts
<1>10. ASSUME NEW e \in EapStates, EapOk(e, Allowed(c.prof))
       PROVE  LET g == [[e EXCEPT !.eapResp = FALSE]
                           EXCEPT !.respData = NullResp]
              IN  /\ g \in EapStates /\ EapOk(g, Allowed(c.prof))
                  /\ g.decision = e.decision /\ g.won = e.won
                  /\ g.eapSuccess = e.eapSuccess
  BY <1>10, ConstantTypes DEF EapStates, EapOk
<1>11. /\ z.eap \in EapStates /\ EapOk(z.eap, Allowed(c.prof))
       /\ z.eap.decision = c.eap.decision /\ z.eap.won = c.eap.won
       /\ z.eap.eapSuccess = c.eap.eapSuccess
  <2>1. z.eap = [[c.eap EXCEPT !.eapResp = FALSE] EXCEPT !.respData = NullResp]
    BY <1>2, <1>9
  <2>2. EapOk(c.eap, Allowed(c.prof))
    BY DEF Enabled
  <2> HIDE DEF z
  <2> QED
    BY <1>1, <1>10, <2>1, <2>2
<1>12. z \in Contexts
  BY <1>8, <1>11 DEF Contexts
<1>13. BeResponse(c) = BeReceive(z)
  BY DEF BeResponse, t
<1> HIDE DEF z
<1>14. Aside(c, z) /\ z.sm.suppSuccess = c.sm.suppSuccess
  BY <1>1, <1>2, <1>9, <1>11, <1>12 DEF Enabled, Aside, SamePae, SmStates
<1> QED
  BY <1>11, <1>13, <1>14, BeReceiveOk DEF Aside, SamePae

\* REQUEST hands the frame to the EAP machine.
LEMMA BeRequestOk ==
  ASSUME NEW c, Enabled(c), NEW in \in Inputs,
         c.eap.decision # "UNSET", ~c.sm.eapRestart
  PROVE  /\ Enabled(BeRequest(c, in)) /\ SamePae(c, BeRequest(c, in))
         /\ BeRequest(c, in).eap.decision # "UNSET"
         /\ ~BeRequest(c, in).sm.eapRestart
         /\ BeRequest(c, in).sm.beCurState = "REQUEST"
         /\ BeRequest(c, in).sm.suppSuccess = c.sm.suppSuccess
<1> DEFINE d == [c EXCEPT !.sm.authWhile = 0, !.sm.eapReq = TRUE,
                          !.sm.beCurState = "REQUEST"]
           t == TakeFrame(d)
<1>1. c.sm \in SmStates /\ c.eap \in EapStates /\ c.recvframe \in Frames
  BY AllowedMethods DEF Enabled, Contexts
<1>2. /\ d.sm = [c.sm EXCEPT !.authWhile = 0, !.eapReq = TRUE,
                             !.beCurState = "REQUEST"]
      /\ d.eap = c.eap /\ d.conn = c.conn /\ d.prof = c.prof
      /\ d.recvframe = c.recvframe
  BY DEF Enabled, Contexts
<1>3. d.sm \in SmStates
  <2>1. ASSUME NEW z \in SmStates, NEW n \in 0 .. AuthPeriod
        PROVE  [z EXCEPT !.authWhile = n, !.eapReq = TRUE,
                         !.beCurState = "REQUEST"] \in SmStates
    BY DEF SmStates, BackendStateNames
  <2>2. 0 \in 0 .. AuthPeriod
    BY PeriodsAssumption
  <2> QED
    BY <1>1, <1>2, <2>1, <2>2
<1>4. d \in Contexts
  BY <1>3 DEF Enabled, Contexts
<1> HIDE DEF d
<1> DEFINE x == [d.eap EXCEPT !.reqData = c.recvframe]
<1>5. x \in EapStates /\ EapOk(x, Allowed(c.prof))
      /\ x.decision = c.eap.decision
  BY <1>1, <1>2 DEF EapStates, EapOk, Enabled
<1>6. [d EXCEPT !.eap.reqData = c.recvframe] = [d EXCEPT !.eap = x]
  BY <1>4 DEF Contexts
<1>7. t = d \/ t = [d EXCEPT !.eap = x]
  BY <1>2, <1>6 DEF TakeFrame
<1>8. t \in Contexts /\ t.sm = d.sm /\ t.eap \in {c.eap, x}
      /\ t.conn = c.conn /\ t.prof = c.prof
  <2> HIDE DEF x, t
  <2> QED
    BY <1>2, <1>4, <1>5, <1>7 DEF Contexts
<1> HIDE DEF x, t
<1>9. Enabled(t) /\ SamePae(c, t) /\ t.eap.decision # "UNSET"
  BY <1>1, <1>2, <1>5, <1>8 DEF Enabled, SamePae, SmStates
<1>10. BeRequest(c, in) = RunEap(t, in)
  BY DEF BeRequest, GetSuppRsp, t, d
<1>11. /\ Enabled(RunEap(t, in)) /\ SamePae(t, RunEap(t, in))
       /\ RunEap(t, in).eap.decision # "UNSET"
       /\ RunEap(t, in).sm = [t.sm EXCEPT !.eapRestart = FALSE]
  BY <1>9, RunEapOk
<1> QED
  BY <1>1, <1>2, <1>8, <1>9, <1>10, <1>11 DEF SamePae, SmStates

(***************************************************************************)
(* backend_sm_run.  Asked to restart, it initialises the EAP machine and   *)
(* goes idle; idle without suppStart, it leaves the EAP machine alone; and *)
(* a success it reports is one of the EAP machine.                         *)
(***************************************************************************)
\* The EAP machine may be called.
Live(c) ==
    /\ Enabled(c) /\ ReceiveWaits(c)
    /\ c.eap.decision # "UNSET" /\ ~c.sm.eapRestart

\* d comes from c by a run of the backend that may call the EAP machine.
LiveStep(c, d) ==
    /\ Live(d) /\ SamePae(c, d)
    /\ d.sm.suppSuccess => \/ c.sm.suppSuccess
                           \/ d.eap.won /\ BackendQuiet(d)

\* A success is reported only for a conversation that was won.
LEMMA LiveVerdict ==
  ASSUME NEW c, Enabled(c), c.eap.decision # "UNSET", ~c.sm.eapRestart
  PROVE  /\ LiveStep(c, BeFail(c)) /\ LiveStep(c, BeTimeout(c))
         /\ c.eap.eapSuccess => LiveStep(c, BeSuccess(c))
<1>1. c.eap.eapSuccess => c.eap.won
  BY DEF Enabled, EapOk
<1> QED
  BY <1>1, BeVerdictOk DEF LiveStep, Live, Aside, ReceiveWaits

\* REQUEST reports nothing by itself.
LEMMA LiveRequest ==
  ASSUME NEW c, Enabled(c), c.eap.decision # "UNSET", ~c.sm.eapRestart,
         NEW in \in Inputs
  PROVE  /\ LiveStep(c, BeRequest(c, in))
         /\ BeRequest(c, in).sm.suppSuccess = c.sm.suppSuccess
  BY BeRequestOk DEF LiveStep, Live, ReceiveWaits

\* Two steps in a row, the first of which reports no success.
LEMMA LiveTrans ==
  ASSUME NEW c, NEW d, NEW f, LiveStep(c, d), LiveStep(d, f),
         d.sm.suppSuccess => c.sm.suppSuccess
  PROVE  LiveStep(c, f)
  BY DEF LiveStep, SamePae

\* IDLE: a failure, a frame and a success are tested in this order.
LEMMA BeDoIdleOk ==
  ASSUME NEW c, Live(c), NEW in \in Inputs
  PROVE  LiveStep(c, BeDoIdle(c, in))
<1> DEFINE a == IF c.eap.eapFail /\ c.sm.suppStart THEN BeFail(c) ELSE c
           b == IF a.sm.eapolEap /\ a.sm.suppStart THEN BeRequest(a, in)
                                                   ELSE a
           d == IF b.eap.eapSuccess /\ b.sm.suppStart THEN BeSuccess(b) ELSE b
<1>1. LiveStep(c, c)
  BY DEF LiveStep, SamePae
<1>2. LiveStep(c, a) /\ a.sm.suppSuccess = c.sm.suppSuccess
  BY <1>1, LiveVerdict, BeVerdictOk DEF Live
<1> HIDE DEF a
<1>3. LiveStep(a, b) /\ b.sm.suppSuccess = a.sm.suppSuccess
  BY <1>2, LiveRequest DEF LiveStep, Live, SamePae
<1> HIDE DEF b
<1>4. LiveStep(b, d)
  BY <1>3, LiveVerdict DEF LiveStep, Live, SamePae
<1>5. BeDoIdle(c, in) = d
  BY DEF BeDoIdle, FailedIfAsked, HeardIfAsked, SucceededIfAsked, Failed,
         Heard, Succeeded, a, b
<1> HIDE DEF d
<1> QED
  BY <1>2, <1>3, <1>4, <1>5, LiveTrans

\* RECEIVE: no success can be pending, so none is reported.
LEMMA BeDoReceiveOk ==
  ASSUME NEW c, Live(c), c.sm.beCurState = "RECEIVE", NEW in \in Inputs
  PROVE  LiveStep(c, BeDoReceive(c, in))
<1> DEFINE f == IF c.eap.eapFail THEN BeFail(c) ELSE c
           t == IF f.sm.authWhile = 0 THEN BeTimeout(f) ELSE f
           s == IF t.eap.eapSuccess THEN BeSuccess(t) ELSE t
           d == IF s.sm.eapolEap THEN BeRequest(s, in) ELSE s
<1>1. LiveStep(c, c) /\ ~c.eap.eapSuccess
  BY DEF LiveStep, SamePae, Live, ReceiveWaits
<1>2. /\ LiveStep(c, f) /\ f.sm.suppSuccess = c.sm.suppSuccess
      /\ ~f.eap.eapSuccess
  BY <1>1, LiveVerdict, BeVerdictOk DEF Live
<1> HIDE DEF f
<1>3. /\ LiveStep(f, t) /\ t.sm.suppSuccess = f.sm.suppSuccess
      /\ ~t.eap.eapSuccess
  BY <1>2, LiveVerdict, BeVerdictOk DEF LiveStep, Live, SamePae
<1>4. s = t
  BY <1>3
<1> HIDE DEF t, s
<1>5. LiveStep(t, d)
  BY <1>3, <1>4, LiveRequest DEF LiveStep, Live, SamePae
<1>6. BeDoReceive(c, in) = d
  BY DEF BeDoReceive, Failed, TimedOut, Succeeded, Heard, f, t, s
<1> HIDE DEF d
<1> QED
  BY <1>2, <1>3, <1>5, <1>6, LiveTrans

\* eapSuccess is dealt with before REQUEST is left.
LEMMA BeDoRequestOk ==
  ASSUME NEW c, Live(c)
  PROVE  LiveStep(c, BeDoRequest(c))
<1> DEFINE f == IF c.eap.eapFail THEN BeFail(c) ELSE c
           n == IF f.eap.eapNoResp THEN BeReceive(f) ELSE f
           r == IF n.eap.eapResp THEN BeResponse(n) ELSE n
           d == IF r.eap.eapSuccess THEN BeSuccess(r) ELSE r
           Calm(x) == /\ Enabled(x) /\ SamePae(c, x) /\ ~x.sm.eapRestart
                      /\ x.eap.decision # "UNSET"
                      /\ x.sm.suppSuccess = c.sm.suppSuccess
<1>1. Calm(f)
  BY BeVerdictOk DEF Live, Aside, SamePae
<1> HIDE DEF f
<1>2. Calm(n)
  BY <1>1, BeReceiveOk DEF Aside, SamePae
<1> HIDE DEF n
<1>3. Calm(r)
  BY <1>2, BeResponseOk DEF Aside, SamePae
<1> HIDE DEF r
<1>4. LiveStep(r, d)
  BY <1>3, LiveVerdict DEF LiveStep, Live, SamePae, ReceiveWaits
<1>5. BeDoRequest(c) = d
  BY DEF BeDoRequest, Failed, Silent, Answered, Succeeded, f, n, r
<1> HIDE DEF d
<1> QED
  BY <1>3, <1>4, <1>5 DEF LiveStep, SamePae

\* Idle without suppStart, the backend stays so.
LEMMA BeDoIdleQuiet ==
  ASSUME NEW c, ~c.sm.suppStart, NEW in
  PROVE  BeDoIdle(c, in) = c
  BY DEF BeDoIdle, FailedIfAsked, HeardIfAsked, SucceededIfAsked

\* Asked to restart, the backend initialises EAP and goes idle.
LEMMA BackendRestart ==
  ASSUME NEW c, Enabled(c), c.sm.eapRestart, NEW in \in Inputs
  PROVE  /\ Live(BackendRun(c, in)) /\ SamePae(c, BackendRun(c, in))
         /\ BackendQuiet(BackendRun(c, in))
<1> DEFINE a == IF c.sm.initialize \/ c.sm.suppAbort THEN BeInitialize(c)
                                                     ELSE c
           i == BeInitialize(a)
           g == RunEap(i, in)
<1>1. Aside(c, a)
  BY BeInitializeOk DEF Aside, SamePae
<1> HIDE DEF a
<1>2. Aside(a, i) /\ BackendQuiet(i) /\ i.sm.beCurState = "IDLE"
  BY <1>1, BeInitializeOk DEF Aside
<1> HIDE DEF i
<1>3. i.sm \in SmStates /\ i.sm.eapRestart
  BY <1>1, <1>2, AllowedMethods DEF Aside, Enabled
<1>4. /\ Enabled(g) /\ SamePae(i, g) /\ g.eap.decision # "UNSET"
      /\ g.sm = [i.sm EXCEPT !.eapRestart = FALSE]
  BY <1>2, <1>3, RunEapOk DEF Aside
<1> HIDE DEF g
<1>5. ~g.sm.suppStart /\ g.sm.beCurState = "IDLE" /\ ~g.sm.eapRestart
  BY <1>2, <1>3, <1>4 DEF SmStates, BackendQuiet
<1>6. BeGlobals(c, in) = g
  BY <1>1 DEF BeGlobals, Aborted, Restarted, a, i, g, Aside
<1>7. BackendRun(c, in) = g
  BY <1>5, <1>6, BeDoIdleQuiet DEF BackendRun, BeDo
<1> QED
  BY <1>1, <1>2, <1>4, <1>5, <1>7
     DEF Live, ReceiveWaits, SamePae, BackendQuiet, Aside

\* A quiet backend reports nothing and stays quiet.
LEMMA BackendQuietRun ==
  ASSUME NEW c, Enabled(c), ~c.sm.eapRestart, BackendQuiet(c),
         NEW in \in Inputs
  PROVE  /\ Aside(c, BackendRun(c, in)) /\ BackendQuiet(BackendRun(c, in))
         /\ BackendRun(c, in).sm.suppSuccess = c.sm.suppSuccess
<1> DEFINE a == IF c.sm.initialize \/ c.sm.suppAbort THEN BeInitialize(c)
                                                     ELSE c
<1>1. /\ Aside(c, a) /\ BackendQuiet(a)
      /\ a.sm.suppSuccess = c.sm.suppSuccess
  BY BeInitializeOk DEF Aside, SamePae
<1>2. BeGlobals(c, in) = a
  BY <1>1 DEF BeGlobals, Aborted, Restarted, Aside
<1> HIDE DEF a
<1>3. BackendRun(c, in) = a
  BY <1>1, <1>2, BeDoIdleQuiet DEF BackendRun, BeDo, BackendQuiet
<1> QED
  BY <1>1, <1>3

\* backend_sm_run in any state, with an initialised EAP machine.
LEMMA BackendLive ==
  ASSUME NEW c, Live(c), NEW in \in Inputs
  PROVE  LiveStep(c, BackendRun(c, in))
<1> DEFINE a == IF c.sm.initialize \/ c.sm.suppAbort THEN BeInitialize(c)
                                                     ELSE c
<1>1. LiveStep(c, a) /\ a.sm.suppSuccess = c.sm.suppSuccess
  BY BeInitializeOk DEF Aside, SamePae, LiveStep, Live, ReceiveWaits
<1>2. BeGlobals(c, in) = a
  BY <1>1 DEF BeGlobals, Aborted, Restarted, LiveStep, Live
<1> HIDE DEF a
<1>3. LiveStep(a, BackendRun(c, in))
  <2>1. CASE a.sm.beCurState = "IDLE"
    BY <1>1, <1>2, <2>1, BeDoIdleOk DEF BackendRun, BeDo, LiveStep
  <2>2. CASE a.sm.beCurState = "REQUEST"
    BY <1>1, <1>2, <2>2, BeDoRequestOk DEF BackendRun, BeDo, LiveStep
  <2>3. CASE a.sm.beCurState = "RECEIVE"
    BY <1>1, <1>2, <2>3, BeDoReceiveOk DEF BackendRun, BeDo, LiveStep
  <2>4. CASE a.sm.beCurState \notin {"IDLE", "REQUEST", "RECEIVE"}
    BY <1>1, <1>2, <2>4 DEF BackendRun, BeDo, LiveStep, SamePae
  <2> QED
    BY <2>1, <2>2, <2>3, <2>4
<1> QED
  BY <1>1, <1>3, LiveTrans

(***************************************************************************)
(* The port access entity.  Base holds all through a run of the machines,  *)
(* Entered once a state has been entered.                                  *)
(***************************************************************************)
Base(c) ==
    /\ Enabled(c) /\ ReceiveWaits(c)
    /\ ~c.sm.userLogoff /\ ~c.sm.eapRestart
    /\ c.sm.portControl # "FORCE_UNAUTHORIZED"
    /\ c.eap.decision = "UNSET" => BackendQuiet(c)

Entered(c) ==
    /\ Base(c) /\ GivenUp(c)
    /\ c.sm.curState \notin {"RESTART", "S_FORCE_UNAUTH"}
    /\ c.sm.curState = "AUTHENTICATED" => c.eap.won /\ BackendQuiet(c)
    /\ c.sm.curState = "AUTHENTICATING" => ~c.sm.suppSuccess

\* An 8-bit value fits startCount.
LEMMA CountOk ==
  ASSUME NEW z \in SmStates
  PROVE  /\ \A n \in 0 .. 255 : [z EXCEPT !.startCount = n] \in SmStates
         /\ [z EXCEPT !.startCount = 0] \in SmStates
<1>1. ASSUME NEW n \in 0 .. 255
      PROVE  [z EXCEPT !.startCount = n] \in SmStates
  BY DEF SmStates
<1>2. 0 \in 0 .. 255
  OBVIOUS
<1> DEFINE o == 0
<1> HIDE DEF o
<1>3. o \in 0 .. 255
  BY <1>2 DEF o
<1>4. [z EXCEPT !.startCount = o] \in SmStates
  BY <1>1, <1>3
<1> QED
  BY <1>1, <1>4 DEF o

\* What DISCONNECTED leaves alone.
LEMMA DisconnectedFields ==
  ASSUME NEW c \in Contexts
  PROVE  LET d == ToDisconnected(c)
         IN  /\ d \in Contexts /\ d.eap = c.eap /\ d.conn = c.conn
             /\ d.prof = c.prof /\ d.sm.curState = "DISCONNECTED"
             /\ d.sm.userLogoff = c.sm.userLogoff
             /\ d.sm.portEnabled = c.sm.portEnabled
             /\ d.sm.portControl = c.sm.portControl
             /\ d.sm.eapRestart = c.sm.eapRestart
             /\ d.sm.beCurState = c.sm.beCurState
             /\ d.sm.suppStart = c.sm.suppStart
<1> DEFINE d == ToDisconnected(c)
<1>1. c.sm \in SmStates
  BY AllowedMethods
<1>2. /\ d.sm = [c.sm EXCEPT !.sPortMode = "AUTO", !.startCount = 0,
                 !.logoffSent = FALSE, !.suppPortStatus = "UNAUTHORIZED",
                 !.suppAbort = TRUE, !.curState = "DISCONNECTED"]
      /\ d.eap = c.eap /\ d.conn = c.conn /\ d.prof = c.prof
  BY DEF ToDisconnected, Contexts
<1>3. ASSUME NEW z \in SmStates
      PROVE  [z EXCEPT !.sPortMode = "AUTO", !.startCount = 0,
                 !.logoffSent = FALSE, !.suppPortStatus = "UNAUTHORIZED",
                 !.suppAbort = TRUE, !.curState = "DISCONNECTED"] \in SmStates
  <2> DEFINE x == [z EXCEPT !.sPortMode = "AUTO"]
             y == [x EXCEPT !.startCount = 0]
  <2>1. y \in SmStates
    <3>1. x \in SmStates
      BY DEF SmStates, PortModes
    <3> QED
      BY <3>1, CountOk
  <2> HIDE DEF y
  <2>2. [y EXCEPT !.logoffSent = FALSE, !.suppPortStatus = "UNAUTHORIZED", !.suppAbort = TRUE,
                  !.curState = "DISCONNECTED"] \in SmStates
    BY <2>1 DEF SmStates, PaeStateNames
  <2> QED
    BY <2>2 DEF x, y
<1>4. d.sm \in SmStates
  BY <1>1, <1>2, <1>3
<1>5. d \in Contexts
  BY <1>4 DEF ToDisconnected, Contexts
<1> HIDE DEF d
<1>6. /\ d.sm.curState = "DISCONNECTED"
      /\ d.sm.userLogoff = c.sm.userLogoff
      /\ d.sm.portEnabled = c.sm.portEnabled
      /\ d.sm.portControl = c.sm.portControl
      /\ d.sm.eapRestart = c.sm.eapRestart
      /\ d.sm.beCurState = c.sm.beCurState
      /\ d.sm.suppStart = c.sm.suppStart
  BY <1>1, <1>2 DEF SmStates
<1> QED
  BY <1>2, <1>5, <1>6 DEF d

\* DISCONNECTED may be entered from every state.
LEMMA ToDisconnectedOk ==
  ASSUME NEW c, Base(c)
  PROVE  Entered(ToDisconnected(c))
<1> DEFINE d == ToDisconnected(c)
<1>1. /\ d \in Contexts /\ d.eap = c.eap /\ d.prof = c.prof
      /\ d.sm.curState = "DISCONNECTED" /\ ~d.sm.userLogoff
      /\ d.sm.portEnabled /\ d.sm.portControl = c.sm.portControl
      /\ ~d.sm.eapRestart /\ d.sm.beCurState = c.sm.beCurState
      /\ d.sm.suppStart = c.sm.suppStart
  BY DisconnectedFields DEF Base, Enabled
<1> HIDE DEF d
<1>2. Entered(d)
  BY <1>1 DEF Entered, Base, Enabled, ReceiveWaits, BackendQuiet, GivenUp
<1> QED
  BY <1>2 DEF d

\* S_FORCE_AUTH fixes the port mode it is recognised by.
LEMMA ToForceAuthOk ==
  ASSUME NEW c, Base(c)
  PROVE  Entered(ToForceAuth(c))
<1> DEFINE d == ToForceAuth(c)
<1>1. c.sm \in SmStates
  BY AllowedMethods DEF Base, Enabled
<1>2. /\ d.sm = [c.sm EXCEPT !.curState = "S_FORCE_AUTH",
                 !.suppPortStatus = "AUTHORIZED",
                 !.sPortMode = "FORCE_AUTHORIZED",
                 !.portControl = "FORCE_AUTHORIZED"]
      /\ d.eap = c.eap /\ d.conn = c.conn /\ d.prof = c.prof
  BY DEF ToForceAuth, Base, Enabled, Contexts
<1>3. ASSUME NEW z \in SmStates
      PROVE  [z EXCEPT !.curState = "S_FORCE_AUTH",
                 !.suppPortStatus = "AUTHORIZED",
                 !.sPortMode = "FORCE_AUTHORIZED",
                 !.portControl = "FORCE_AUTHORIZED"] \in SmStates
  BY DEF SmStates, PaeStateNames, PortModes
<1>4. d.sm \in SmStates
  BY <1>1, <1>2, <1>3
<1>5. d \in Contexts
  BY <1>4 DEF ToForceAuth, Base, Enabled, Contexts
<1> HIDE DEF d
<1>6. /\ d.sm.curState = "S_FORCE_AUTH" /\ ~d.sm.userLogoff
      /\ d.sm.portEnabled /\ d.sm.portControl = "FORCE_AUTHORIZED"
      /\ d.sm.sPortMode = "FORCE_AUTHORIZED"
      /\ ~d.sm.eapRestart /\ d.sm.beCurState = c.sm.beCurState
      /\ d.sm.suppStart = c.sm.suppStart
  BY <1>1, <1>2 DEF SmStates, Base, Enabled
<1> QED
  BY <1>2, <1>5, <1>6
     DEF d, Entered, Base, Enabled, ReceiveWaits, BackendQuiet, GivenUp

\* HELD, or DISCONNECTED when HELD is not expected.
LEMMA ToHeldOk ==
  ASSUME NEW c, Base(c)
  PROVE  Entered(ToHeld(c))
<1> DEFINE d == [c EXCEPT !.sm.heldWhile = HeldPeriod,
                          !.sm.suppPortStatus = "UNAUTHORIZED",
                          !.sm.curState = "HELD", !.sm.eapolEap = FALSE]
<1>1. c.sm \in SmStates
  BY AllowedMethods DEF Base, Enabled
<1>2. /\ d.sm = [c.sm EXCEPT !.heldWhile = HeldPeriod,
                             !.suppPortStatus = "UNAUTHORIZED",
                             !.curState = "HELD", !.eapolEap = FALSE]
      /\ d.eap = c.eap /\ d.conn = c.conn /\ d.prof = c.prof
  BY DEF Base, Enabled, Contexts
<1>3. ASSUME NEW z \in SmStates
      PROVE  [z EXCEPT !.heldWhile = HeldPeriod,
                       !.suppPortStatus = "UNAUTHORIZED",
                       !.curState = "HELD", !.eapolEap = FALSE] \in SmStates
  <2> DEFINE n == HeldPeriod
  <2>1. n \in 0 .. HeldPeriod
    BY PeriodsAssumption
  <2> HIDE DEF n
  <2>2. [z EXCEPT !.heldWhile = n, !.suppPortStatus = "UNAUTHORIZED",
                  !.curState = "HELD", !.eapolEap = FALSE] \in SmStates
    BY <2>1 DEF SmStates, PaeStateNames
  <2> QED
    BY <2>2 DEF n
<1>4. d.sm \in SmStates
  BY <1>1, <1>2, <1>3
<1>5. d \in Contexts
  BY <1>4 DEF Base, Enabled, Contexts
<1>6. ToHeld(c) \in {d, ToDisconnected(c)}
  BY DEF ToHeld
<1> HIDE DEF d
<1>7. /\ d.sm.curState = "HELD" /\ ~d.sm.userLogoff
      /\ d.sm.portEnabled /\ d.sm.portControl = c.sm.portControl
      /\ ~d.sm.eapRestart /\ d.sm.beCurState = c.sm.beCurState
      /\ d.sm.suppStart = c.sm.suppStart
  BY <1>1, <1>2 DEF SmStates, Base, Enabled
<1>8. Entered(d)
  BY <1>2, <1>5, <1>7
     DEF Entered, Base, Enabled, ReceiveWaits, BackendQuiet, GivenUp
<1> QED
  BY <1>6, <1>8, ToDisconnectedOk

\* Only an EAP machine that was initialised is started.
LEMMA ToAuthenticatingOk ==
  ASSUME NEW c, Base(c), c.eap.decision # "UNSET"
  PROVE  Entered(ToAuthenticating(c))
<1> DEFINE v == ForgetVerdict(c)
           d == [v EXCEPT !.sm.startCount = 0, !.sm.suppStart = TRUE,
                          !.sm.curState = "AUTHENTICATING"]
<1>1. c.sm \in SmStates
  BY AllowedMethods DEF Base, Enabled
<1>2. /\ v.sm = [c.sm EXCEPT !.suppSuccess = FALSE, !.suppFail = FALSE,
                             !.suppTimeout = FALSE]
      /\ v.eap = c.eap /\ v.conn = c.conn /\ v.prof = c.prof
  BY DEF ForgetVerdict, Base, Enabled, Contexts
<1>3. ASSUME NEW z \in SmStates
      PROVE  /\ [z EXCEPT !.suppSuccess = FALSE, !.suppFail = FALSE,
                          !.suppTimeout = FALSE] \in SmStates
             /\ [z EXCEPT !.startCount = 0, !.suppStart = TRUE,
                          !.curState = "AUTHENTICATING"] \in SmStates
  <2>1. [z EXCEPT !.suppSuccess = FALSE, !.suppFail = FALSE,
                  !.suppTimeout = FALSE] \in SmStates
    BY DEF SmStates
  <2> DEFINE y == [z EXCEPT !.startCount = 0]
  <2>2. y \in SmStates
    BY CountOk
  <2> HIDE DEF y
  <2>3. [y EXCEPT !.suppStart = TRUE, !.curState = "AUTHENTICATING"]
           \in SmStates
    BY <2>2 DEF SmStates, PaeStateNames
  <2> QED
    BY <2>1, <2>3 DEF y
<1>4. v.sm \in SmStates
  BY <1>1, <1>2, <1>3
<1>5. v \in Contexts
  BY <1>4 DEF ForgetVerdict, Base, Enabled, Contexts
<1> HIDE DEF v
<1>6. /\ d.sm = [v.sm EXCEPT !.startCount = 0, !.suppStart = TRUE,
                             !.curState = "AUTHENTICATING"]
      /\ d.eap = c.eap /\ d.conn = c.conn /\ d.prof = c.prof
  BY <1>2, <1>5 DEF Contexts
<1>7. d.sm \in SmStates
  BY <1>3, <1>4, <1>6
<1>8. d \in Contexts
  BY <1>5, <1>7 DEF Contexts
<1>9. ToAuthenticating(c) \in {d, ToDisconnected(c)}
  BY DEF ToAuthenticating, v
<1> HIDE DEF d
<1>10. /\ d.sm.curState = "AUTHENTICATING" /\ ~d.sm.suppSuccess
       /\ d.sm.userLogoff = c.sm.userLogoff
       /\ d.sm.portEnabled = c.sm.portEnabled
       /\ d.sm.portControl = c.sm.portControl
       /\ d.sm.eapRestart = c.sm.eapRestart
       /\ d.sm.beCurState = c.sm.beCurState
  BY <1>1, <1>2, <1>4, <1>6 DEF SmStates
<1>11. Entered(d)
  BY <1>6, <1>8, <1>10
     DEF Entered, Base, Enabled, ReceiveWaits, GivenUp
<1> QED
  BY <1>9, <1>11, ToDisconnectedOk

\* AUTHENTICATED, after a success and with a quiet backend.
LEMMA ToAuthenticatedOk ==
  ASSUME NEW c, Base(c), c.eap.won, BackendQuiet(c)
  PROVE  Entered(ToAuthenticated(c))
<1> DEFINE d == ToAuthenticated(c)
<1>1. c.sm \in SmStates
  BY AllowedMethods DEF Base, Enabled
<1>2. /\ d.sm = [c.sm EXCEPT !.suppPortStatus = "AUTHORIZED",
                 !.curState = "AUTHENTICATED", !.eapolEap = FALSE]
      /\ d.eap = c.eap /\ d.conn = c.conn /\ d.prof = c.prof
  BY DEF ToAuthenticated, Base, Enabled, Contexts
<1>3. ASSUME NEW z \in SmStates
      PROVE  [z EXCEPT !.suppPortStatus = "AUTHORIZED",
                 !.curState = "AUTHENTICATED", !.eapolEap = FALSE] \in SmStates
  BY DEF SmStates, PaeStateNames
<1>4. d.sm \in SmStates
  BY <1>1, <1>2, <1>3
<1>5. d \in Contexts
  BY <1>4 DEF ToAuthenticated, Base, Enabled, Contexts
<1> HIDE DEF d
<1>6. /\ d.sm.curState = "AUTHENTICATED" /\ ~d.sm.userLogoff
      /\ d.sm.portEnabled /\ d.sm.portControl = c.sm.portControl
      /\ ~d.sm.eapRestart /\ d.sm.beCurState = c.sm.beCurState
      /\ d.sm.suppStart = c.sm.suppStart
  BY <1>1, <1>2 DEF SmStates, Base, Enabled
<1> QED
  BY <1>2, <1>5, <1>6
     DEF d, Entered, Base, Enabled, ReceiveWaits, BackendQuiet, GivenUp

\* RESTART goes through the backend to AUTHENTICATING in one call.
LEMMA ToRestartOk ==
  ASSUME NEW c, Base(c), NEW in \in Inputs
  PROVE  Entered(ToRestart(c, in))
<1> DEFINE masked == [c EXCEPT !.sm.eapRestart = TRUE,
                               !.sm.curState = "RESTART",
                               !.sm.portControl = "AUTO", !.sm.eapReq = FALSE]
           b   == BackendRun(masked, in)
           q   == c.sm.eapReq
           ran == [b EXCEPT !.sm.eapReq = q]
<1>1. c.sm \in SmStates
  BY AllowedMethods DEF Base, Enabled
<1>2. /\ masked.sm = [c.sm EXCEPT !.eapRestart = TRUE, !.curState = "RESTART",
                                  !.portControl = "AUTO", !.eapReq = FALSE]
      /\ masked.eap = c.eap /\ masked.conn = c.conn
      /\ masked.prof = c.prof
  BY DEF Base, Enabled, Contexts
<1>3. ASSUME NEW z \in SmStates
      PROVE  [z EXCEPT !.eapRestart = TRUE, !.curState = "RESTART",
                       !.portControl = "AUTO", !.eapReq = FALSE] \in SmStates
  BY DEF SmStates, PaeStateNames, PortModes
<1>4. masked.sm \in SmStates
  BY <1>1, <1>2, <1>3
<1>5. masked \in Contexts
  BY <1>4 DEF Base, Enabled, Contexts
<1> HIDE DEF masked
<1>6. /\ masked.sm.portEnabled /\ masked.sm.eapRestart
      /\ ~masked.sm.userLogoff /\ masked.sm.portControl = "AUTO"
  BY <1>1, <1>2 DEF SmStates, Base, Enabled
<1>7. Enabled(masked)
  BY <1>2, <1>5, <1>6 DEF Base, Enabled
<1>8. Live(b) /\ SamePae(masked, b)
  BY <1>6, <1>7, BackendRestart
<1> HIDE DEF b
<1>9. /\ b \in Contexts /\ b.sm \in SmStates
      /\ ~b.sm.userLogoff /\ b.sm.portControl = "AUTO"
  BY <1>6, <1>8, AllowedMethods DEF Live, Enabled, SamePae
<1>10. /\ ran.sm = [b.sm EXCEPT !.eapReq = q]
       /\ ran.eap = b.eap /\ ran.conn = b.conn /\ ran.prof = b.prof
  BY <1>9 DEF Contexts
<1>11. q \in BOOLEAN
  BY <1>1 DEF SmStates
<1> HIDE DEF q
<1>12. ran.sm \in SmStates
  BY <1>9, <1>10, <1>11 DEF SmStates
<1>13. ran \in Contexts
  BY <1>9, <1>12 DEF Contexts
<1> HIDE DEF ran
<1>14. /\ ran.sm.portEnabled = b.sm.portEnabled
       /\ ran.sm.eapRestart = b.sm.eapRestart
       /\ ran.sm.userLogoff = b.sm.userLogoff
       /\ ran.sm.portControl = b.sm.portControl
       /\ ran.sm.beCurState = b.sm.beCurState
  BY <1>9, <1>10 DEF SmStates
<1>15. Base(ran) /\ ran.eap.decision # "UNSET" /\ ~ran.sm.eapRestart
  BY <1>8, <1>9, <1>10, <1>13, <1>14 DEF Base, Live, Enabled, ReceiveWaits
<1>16. ToRestart(c, in) \in {ToDisconnected(c), ToAuthenticating(ran)}
  BY <1>15 DEF ToRestart, DoRestart, ran, b, masked, q
<1> QED
  BY <1>15, <1>16, ToDisconnectedOk, ToAuthenticatingOk

\* A start changes no state.
LEMMA TxStartOk ==
  ASSUME NEW c, Base(c)
  PROVE  /\ Base(TxStart(c)) /\ TxStart(c).sm = c.sm
         /\ TxStart(c).eap = c.eap
<1>1. /\ TxStart(c) \in Contexts /\ TxStart(c).sm = c.sm
      /\ TxStart(c).eap = c.eap /\ TxStart(c).prof = c.prof
  BY ConstantTypes, TransmitOk DEF TxStart, Base, Enabled
<1> QED
  BY <1>1 DEF Base, Enabled, ReceiveWaits, BackendQuiet

\* CONNECTING, or RESTART at once when a frame is waiting.
LEMMA ToConnectingOk ==
  ASSUME NEW c, Base(c), NEW in \in Inputs
  PROVE  Entered(ToConnecting(c, in))
<1> DEFINE d == [c EXCEPT !.sm.curState = "CONNECTING"]
           w == [d EXCEPT !.sm.startWhen = StartPeriod]
           t == TxStart(w)
           k == (t.sm.startCount + 1) % 256
           z == [t EXCEPT !.sm.startCount = k]
           Connecting(x) == Base(x) /\ x.sm.curState = "CONNECTING"
<1>1. c.sm \in SmStates
  BY AllowedMethods DEF Base, Enabled
<1>2. /\ d.sm = [c.sm EXCEPT !.curState = "CONNECTING"]
      /\ d.eap = c.eap /\ d.conn = c.conn /\ d.prof = c.prof
  BY DEF Base, Enabled, Contexts
<1>3. d.sm \in SmStates
  BY <1>1, <1>2 DEF SmStates, PaeStateNames
<1>4. d \in Contexts
  BY <1>3 DEF Base, Enabled, Contexts
<1> HIDE DEF d
<1>5. Connecting(d)
  BY <1>1, <1>2, <1>4
     DEF Base, Enabled, ReceiveWaits, BackendQuiet, SmStates
<1>6. /\ w.sm = [d.sm EXCEPT !.startWhen = StartPeriod]
      /\ w.eap = d.eap /\ w.conn = d.conn /\ w.prof = d.prof
  BY <1>4 DEF Contexts
<1>7. w.sm \in SmStates
  <2> DEFINE n == StartPeriod
  <2>1. n \in 0 .. StartPeriod
    BY PeriodsAssumption
  <2> HIDE DEF n
  <2>2. [d.sm EXCEPT !.startWhen = n] \in SmStates
    BY <1>3, <2>1 DEF SmStates
  <2> QED
    BY <1>6, <2>2 DEF n
<1>8. w \in Contexts
  BY <1>4, <1>7 DEF Contexts
<1> HIDE DEF w
<1>9. Connecting(w)
  BY <1>3, <1>5, <1>6, <1>8
     DEF Base, Enabled, ReceiveWaits, BackendQuiet, SmStates
<1>10. Connecting(t) /\ t.sm \in SmStates
  BY <1>7, <1>9, TxStartOk
<1> HIDE DEF t
<1>11. t \in Contexts /\ t.sm.startCount \in 0 .. 255
  BY <1>10 DEF Base, Enabled, SmStates
<1>12. k \in 0 .. 255
  BY <1>11
<1> HIDE DEF k
<1>13. /\ z.sm = [t.sm EXCEPT !.startCount = k]
       /\ z.eap = t.eap /\ z.conn = t.conn /\ z.prof = t.prof
  BY <1>11 DEF Contexts
<1>14. z.sm \in SmStates
  BY <1>10, <1>12, <1>13, CountOk
<1>15. z \in Contexts
  BY <1>11, <1>14 DEF Contexts
<1>16. z = [TxStart(w) EXCEPT !.sm.startCount = (@ + 1) % 256]
  BY DEF k, t
<1> HIDE DEF z
<1>17. Connecting(z)
  BY <1>10, <1>13, <1>15
     DEF Base, Enabled, ReceiveWaits, BackendQuiet, SmStates
<1>18. \A x : Connecting(x) => Entered(x)
  BY DEF Entered, GivenUp
<1>19. ToConnecting(c, in) \in {ToDisconnected(c), ToRestart(d, in), w, z}
  BY <1>16 DEF ToConnecting, d, w
<1> QED
  BY <1>5, <1>9, <1>17, <1>18, <1>19, ToDisconnectedOk, ToRestartOk

(***************************************************************************)
(* statemachine_do_*, from a state that was entered before; S_FORCE_AUTH   *)
(* does nothing and is left aside.                                         *)
(***************************************************************************)
Begun(c) ==
    /\ Base(c) /\ SuccessHolds(c)
    /\ c.sm.curState \notin {"RESTART", "S_FORCE_UNAUTH", "S_FORCE_AUTH"}

\* A state that is not left was entered before.
LEMMA StayOk ==
  ASSUME NEW c, Begun(c), ~(c.sm.curState = "AUTHENTICATING" /\ c.sm.suppSuccess)
  PROVE  Entered(c)
  BY DEF Begun, SuccessHolds, Entered, GivenUp

\* Freeing the frame leaves at worst a dangling pointer.
LEMMA ReleaseFrameOk ==
  ASSUME NEW c \in Contexts
  PROVE  LET d == ReleaseFrame(c)
         IN  /\ d \in Contexts /\ d.sm = c.sm /\ d.conn = c.conn
             /\ d.prof = c.prof /\ d.eap.won = c.eap.won
             /\ d.eap.eapSuccess = c.eap.eapSuccess
             /\ d.eap.decision = c.eap.decision
             /\ \A A : EapOk(c.eap, A) => EapOk(d.eap, A)
<1> DEFINE d == ReleaseFrame(c)
           r == IF c.recvframe = NullFrame \/ c.eap.reqData = NullFrame
                THEN c.eap.reqData ELSE FreedFrame
<1>1. c.eap \in EapStates
  BY AllowedMethods
<1>2. FreedFrame \in Frames
  BY IdSpaceAssumption DEF FreedFrame, Frames, Ids
<1>3. r \in Frames
  BY <1>1, <1>2 DEF EapStates
<1>4. /\ d.sm = c.sm /\ d.conn = c.conn /\ d.prof = c.prof
      /\ d.eap = [c.eap EXCEPT !.reqData = r]
  BY DEF ReleaseFrame, Contexts
<1> HIDE DEF r
<1>5. d.eap \in EapStates
  BY <1>1, <1>3, <1>4 DEF EapStates
<1>6. d \in Contexts
  BY <1>5, ConstantTypes DEF ReleaseFrame, Contexts
<1> HIDE DEF d
<1>7. \A A : EapOk(c.eap, A) => EapOk(d.eap, A)
  BY <1>1, <1>4 DEF EapStates, EapOk
<1>8. /\ d.eap.won = c.eap.won /\ d.eap.eapSuccess = c.eap.eapSuccess
      /\ d.eap.decision = c.eap.decision
  BY <1>1, <1>4 DEF EapStates
<1> QED
  BY <1>4, <1>6, <1>7, <1>8 DEF d

\* The tests of CONNECTING.
LEMMA DoConnectingOk ==
  ASSUME NEW c, Begun(c), c.sm.curState = "CONNECTING", NEW in \in Inputs
  PROVE  Entered(DoConnecting(c, in))
<1>1. Base(c) /\ Base(TxStart(c)) /\ Entered(c)
  BY StayOk, TxStartOk DEF Begun
<1>2. c.eap.eapSuccess \/ c.eap.eapFail => c.eap.decision # "UNSET"
  BY <1>1 DEF Base, Enabled, EapOk
<1> QED
  BY <1>1, <1>2, ToConnectingOk, ToForceAuthOk, ToAuthenticatingOk,
     ToRestartOk DEF DoConnecting

\* AUTHENTICATING: a success reported was won.
LEMMA DoAuthenticatingOk ==
  ASSUME NEW c, Begun(c), c.sm.curState = "AUTHENTICATING", NEW in \in Inputs
  PROVE  Entered(DoAuthenticating(c, in))
<1>1. CASE c.sm.suppSuccess
  <2>1. Base(c) /\ c.eap.won /\ BackendQuiet(c)
    BY <1>1 DEF Begun, SuccessHolds
  <2> QED
    BY <1>1, <2>1, ToAuthenticatedOk DEF DoAuthenticating
<1>2. CASE ~c.sm.suppSuccess
  <2>1. Base(c) /\ Entered(c)
    BY <1>2, StayOk DEF Begun
  <2> QED
    BY <1>2, <2>1, ToHeldOk, ToConnectingOk DEF DoAuthenticating
<1> QED
  BY <1>1, <1>2

\* AUTHENTICATED: a frame is dropped or starts again.
LEMMA DoAuthenticatedOk ==
  ASSUME NEW c, Begun(c), c.sm.curState = "AUTHENTICATED", NEW in \in Inputs
  PROVE  Entered(DoAuthenticated(c, in))
<1> DEFINE k == [c EXCEPT !.sm.eapolEap = FALSE]
           w == [c EXCEPT !.eap.wild = TRUE]
<1>1. /\ c \in Contexts /\ c.sm \in SmStates /\ c.eap \in EapStates
      /\ Base(c) /\ c.eap.won /\ BackendQuiet(c)
  BY AllowedMethods DEF Begun, Base, Enabled, SuccessHolds
<1>2. Entered(ReleaseFrame(k))
  <2>1. /\ k.sm = [c.sm EXCEPT !.eapolEap = FALSE]
        /\ k.eap = c.eap /\ k.conn = c.conn /\ k.prof = c.prof
    BY <1>1 DEF Contexts
  <2>2. k.sm \in SmStates
    <3>1. ASSUME NEW z \in SmStates
          PROVE  [z EXCEPT !.eapolEap = FALSE] \in SmStates
      BY DEF SmStates
    <3> QED
      BY <1>1, <2>1, <3>1
  <2>3. k \in Contexts
    BY <1>1, <2>2 DEF Contexts
  <2> HIDE DEF k
  <2>4. /\ k.sm.curState = "AUTHENTICATED" /\ ~k.sm.userLogoff
        /\ k.sm.portEnabled /\ k.sm.portControl = c.sm.portControl
        /\ ~k.sm.eapRestart /\ k.sm.beCurState = c.sm.beCurState
        /\ k.sm.suppStart = c.sm.suppStart
    BY <1>1, <2>1 DEF SmStates, Base, Enabled
  <2> DEFINE d == ReleaseFrame(k)
  <2>5. /\ d \in Contexts /\ d.sm = k.sm /\ d.prof = c.prof
        /\ d.eap.won = c.eap.won /\ d.eap.eapSuccess = c.eap.eapSuccess
        /\ d.eap.decision = c.eap.decision
        /\ EapOk(d.eap, Allowed(c.prof))
    BY <1>1, <2>1, <2>3, ReleaseFrameOk DEF Base, Enabled
  <2> HIDE DEF d
  <2>6. Entered(d)
    BY <1>1, <2>4, <2>5
       DEF Entered, Base, Enabled, ReceiveWaits, BackendQuiet, GivenUp
  <2> QED
    BY <2>6 DEF d
<1>3. Base(w)
  <2>1. /\ w.eap = [c.eap EXCEPT !.wild = TRUE]
        /\ w.sm = c.sm /\ w.conn = c.conn /\ w.prof = c.prof
    BY <1>1 DEF Contexts
  <2>2. w.eap \in EapStates
    <3>1. ASSUME NEW e \in EapStates PROVE [e EXCEPT !.wild = TRUE] \in EapStates
      BY DEF EapStates
    <3> QED
      BY <1>1, <2>1, <3>1
  <2>3. w \in Contexts
    BY <1>1, <2>2 DEF Contexts
  <2> HIDE DEF w
  <2>4. EapOk(w.eap, Allowed(c.prof))
    BY <1>1, <2>1 DEF Base, Enabled, EapStates, EapOk
  <2>5. w.eap.eapSuccess = c.eap.eapSuccess /\ w.eap.decision = c.eap.decision
    BY <1>1, <2>1 DEF EapStates
  <2> QED
    BY <1>1, <2>1, <2>3, <2>4, <2>5
       DEF Base, Enabled, ReceiveWaits, BackendQuiet
<1>4. Entered(ToRestart(w, in)) /\ Entered(ToRestart(c, in)) /\ Entered(c)
  BY <1>1, <1>3, ToRestartOk, StayOk
<1> HIDE DEF w
<1>5. DoAuthenticated(c, in) \in
        {c, ReleaseFrame(k), ToRestart(w, in), ToRestart(c, in)}
  BY DEF DoAuthenticated, w
<1> QED
  BY <1>2, <1>4, <1>5

\* The port access entity makes its move.
LEMMA DoPaeOk ==
  ASSUME NEW c, Begun(c), NEW in \in Inputs
  PROVE  Entered(DoPae(c, in))
<1>1. Base(c) /\ ~c.sm.userLogoff /\ c.sm.curState \in PaeStateNames
  BY AllowedMethods DEF Begun, Base, Enabled, SmStates
<1>2. CASE c.sm.curState = "LOGOFF"
  BY <1>1, <1>2, ToDisconnectedOk DEF DoPae, DoLogoff
<1>3. CASE c.sm.curState = "DISCONNECTED"
  BY <1>1, <1>3, ToConnectingOk, StayOk DEF DoPae, DoDisconnected
<1>4. CASE c.sm.curState = "HELD"
  BY <1>1, <1>4, ToConnectingOk, ToRestartOk, StayOk DEF DoPae, DoHeld
<1>5. CASE c.sm.curState = "CONNECTING"
  BY <1>5, DoConnectingOk DEF DoPae
<1>6. CASE c.sm.curState = "AUTHENTICATING"
  BY <1>6, DoAuthenticatingOk DEF DoPae
<1>7. CASE c.sm.curState = "AUTHENTICATED"
  BY <1>7, DoAuthenticatedOk DEF DoPae
<1> QED
  BY <1>1, <1>2, <1>3, <1>4, <1>5, <1>6, <1>7 DEF Begun, PaeStateNames

(***************************************************************************)
(* The backend runs after the port access entity.                          *)
(***************************************************************************)
LEMMA BackendKeeps ==
  ASSUME NEW c, Entered(c), NEW in \in Inputs
  PROVE  CtxOk(BackendRun(c, in)) /\ BackendRun(c, in).conn = c.conn
                                /\ BackendRun(c, in).prof = c.prof
<1> DEFINE d == BackendRun(c, in)
<1>1. CASE BackendQuiet(c)
  <2>1. /\ Aside(c, d) /\ BackendQuiet(d)
        /\ d.sm.suppSuccess = c.sm.suppSuccess
    BY <1>1, BackendQuietRun DEF Entered, Base
  <2> HIDE DEF d
  <2>2. /\ d \in Contexts /\ EapOk(d.eap, Allowed(d.prof))
        /\ Unreached(d) /\ GivenUp(d) /\ d.conn = c.conn /\ d.prof = c.prof
    BY <2>1 DEF Aside, Enabled, SamePae, Unreached, GivenUp, Entered, Base
  <2>3. SuccessHolds(d)
    BY <2>1 DEF Aside, SamePae, SuccessHolds, Entered
  <2> QED
    BY <2>1, <2>2, <2>3 DEF d, CtxOk, ReceiveWaits, UnsetIsUnused,
                            BackendQuiet
<1>2. CASE ~BackendQuiet(c)
  <2>1. Live(c)
    BY <1>2 DEF Entered, Base, Live
  <2>2. LiveStep(c, d)
    BY <2>1, BackendLive
  <2> HIDE DEF d
  <2>3. /\ d \in Contexts /\ EapOk(d.eap, Allowed(d.prof))
        /\ Unreached(d) /\ GivenUp(d) /\ d.conn = c.conn /\ d.prof = c.prof
    BY <2>2 DEF LiveStep, Live, Enabled, SamePae, Unreached, GivenUp,
                Entered, Base
  <2>4. SuccessHolds(d)
    BY <1>2, <2>2 DEF LiveStep, SamePae, SuccessHolds, Entered
  <2> QED
    BY <2>2, <2>3, <2>4 DEF d, CtxOk, LiveStep, Live, UnsetIsUnused
<1> QED
  BY <1>1, <1>2

\* A state just entered satisfies the invariant.
LEMMA EnteredCtx ==
  ASSUME NEW c, Entered(c) PROVE CtxOk(c)
  BY DEF Entered, Base, Enabled, CtxOk, Unreached, SuccessHolds,
         UnsetIsUnused

(***************************************************************************)
(* A second passes.                                                        *)
(***************************************************************************)
LEMMA TimerTickOk ==
  ASSUME NEW c, CtxOk(c)
  PROVE  LET d == TimerTick(c)
         IN  CtxOk(d) /\ d.conn = c.conn /\ d.prof = c.prof
<1> DEFINE d == TimerTick(c)
           x == DecIfNz(c.sm.authWhile)
           y == DecIfNz(c.sm.heldWhile)
           z == DecIfNz(c.sm.startWhen)
<1>1. c \in Contexts /\ c.sm \in SmStates
  BY AllowedMethods DEF CtxOk
<1>2. /\ d.sm = [c.sm EXCEPT !.authWhile = x, !.heldWhile = y,
                             !.startWhen = z, !.tick = FALSE]
      /\ d.eap = c.eap /\ d.conn = c.conn /\ d.prof = c.prof
  BY <1>1 DEF TimerTick, Contexts
<1>3. x \in 0 .. AuthPeriod /\ y \in 0 .. HeldPeriod /\ z \in 0 .. StartPeriod
  <2>1. ASSUME NEW m \in Nat, NEW n \in 0 .. m PROVE DecIfNz(n) \in 0 .. m
    BY DEF DecIfNz
  <2>2. /\ c.sm.authWhile \in 0 .. AuthPeriod
        /\ c.sm.heldWhile \in 0 .. HeldPeriod
        /\ c.sm.startWhen \in 0 .. StartPeriod
    BY <1>1 DEF SmStates
  <2>3. AuthPeriod \in Nat /\ HeldPeriod \in Nat /\ StartPeriod \in Nat
    BY PeriodsAssumption
  <2> QED
    BY <2>1, <2>2, <2>3
<1> HIDE DEF x, y, z
<1>4. d.sm \in SmStates
  <2>1. ASSUME NEW s \in SmStates
        PROVE  [s EXCEPT !.authWhile = x, !.heldWhile = y,
                         !.startWhen = z, !.tick = FALSE] \in SmStates
    BY <1>3 DEF SmStates
  <2> HIDE DEF d
  <2> QED
    BY <1>1, <1>2, <2>1
<1>5. d \in Contexts
  BY <1>1, <1>4 DEF TimerTick, Contexts
<1> HIDE DEF d
<1>6. EapOk(d.eap, Allowed(c.prof))
  BY <1>2 DEF CtxOk
<1>7. Alike(c, d)
  BY <1>1, <1>2, <1>5, <1>6 DEF Alike, SmStates
<1> QED
  BY <1>2, <1>7, AlikeOk DEF d

\* S_FORCE_AUTH keeps the connection.
LEMMA ForceAuthFields ==
  ASSUME NEW c \in Contexts
  PROVE  ToForceAuth(c).conn = c.conn /\ ToForceAuth(c).prof = c.prof
  BY DEF ToForceAuth, Contexts

\* The global transitions that are reachable keep the invariant.
LEMMA GlobalTransitionOk ==
  ASSUME NEW c, CtxOk(c), c.conn # "NONE"
  PROVE  LET d == GlobalTransition(c)
         IN  CtxOk(d) /\ d.conn = c.conn /\ d.prof = c.prof
<1> DEFINE a == IF /\ c.sm.portControl = "FORCE_AUTHORIZED"
                   /\ c.sm.sPortMode # "FORCE_AUTHORIZED" /\ Usable(c)
                THEN ToForceAuth(c) ELSE c
           d == IF /\ a.sm.portControl = "AUTO"
                   /\ a.sm.sPortMode # "AUTO" \/ ~Usable(a)
                   /\ a.sm.curState # "DISCONNECTED"
                THEN ToDisconnected(a) ELSE a
<1>1. CtxOk(a) /\ a.conn = c.conn /\ a.prof = c.prof
  <2>1. CASE a = c
    BY <2>1
  <2>2. CASE /\ c.sm.sPortMode # "FORCE_AUTHORIZED" /\ Usable(c)
             /\ a = ToForceAuth(c)
    <3>1. Base(c)
      BY <2>2 DEF CtxOk, Base, Enabled, Usable, Unreached, UnsetIsUnused,
                  GivenUp
    <3>2. a.conn = c.conn /\ a.prof = c.prof
      BY <2>2, ForceAuthFields DEF CtxOk
    <3> QED
      BY <2>2, <3>1, <3>2, ToForceAuthOk, EnteredCtx
  <2> QED
    BY <2>1, <2>2
<1>2. GlobalTransition(c) = d
  BY <1>1 DEF GlobalTransition, UserLogsOff, ForcedOpen, ForcedShut,
              BackToAuto, CtxOk, Unreached
<1> HIDE DEF a
<1>3. CASE d = a
  BY <1>1, <1>2, <1>3
<1>4. CASE a.sm.portControl = "AUTO" /\ d = ToDisconnected(a)
  <2>1. /\ d \in Contexts /\ d.eap = a.eap /\ d.conn = a.conn
        /\ d.prof = a.prof /\ d.sm.curState = "DISCONNECTED"
        /\ d.sm.userLogoff = a.sm.userLogoff
        /\ d.sm.portControl = a.sm.portControl
        /\ d.sm.eapRestart = a.sm.eapRestart
        /\ d.sm.beCurState = a.sm.beCurState
        /\ d.sm.suppStart = a.sm.suppStart
    BY <1>1, <1>4, DisconnectedFields DEF CtxOk
  <2>2. a.sm.curState # "S_FORCE_AUTH"
    BY <1>1, <1>4 DEF CtxOk, GivenUp
  <2> HIDE DEF d
  <2>3. CtxOk(d)
    BY <1>1, <2>1, <2>2
       DEF CtxOk, Unreached, SuccessHolds, ReceiveWaits, UnsetIsUnused,
           GivenUp, BackendQuiet
  <2> QED
    BY <1>1, <1>2, <2>1, <2>3
<1> QED
  BY <1>3, <1>4

(***************************************************************************)
(* statemachine_run.                                                       *)
(***************************************************************************)
LEMMA LinkDownOk ==
  ASSUME NEW c, CtxOk(c)
  PROVE  CtxOk(LinkDown(c))
<1> DEFINE d == LinkDown(c)
<1>1. c \in Contexts /\ c.sm \in SmStates /\ c.eap \in EapStates
  BY AllowedMethods DEF CtxOk
<1>2. /\ d.sm = [c.sm EXCEPT !.portEnabled = FALSE, !.initialize = TRUE]
      /\ d.eap = [c.eap EXCEPT !.eapRestart = TRUE, !.portEnabled = FALSE]
      /\ d.conn = c.conn /\ d.prof = c.prof
  BY <1>1 DEF LinkDown, Contexts
<1>3. ASSUME NEW s \in SmStates
      PROVE  [s EXCEPT !.portEnabled = FALSE, !.initialize = TRUE] \in SmStates
  BY DEF SmStates
<1>4. ASSUME NEW e \in EapStates, EapOk(e, Allowed(c.prof))
      PROVE  LET g == [e EXCEPT !.eapRestart = TRUE, !.portEnabled = FALSE]
             IN  /\ g \in EapStates /\ EapOk(g, Allowed(c.prof))
                 /\ g.won = e.won /\ g.eapSuccess = e.eapSuccess
                 /\ g.decision = e.decision
  BY <1>4 DEF EapStates, EapOk
<1>5. EapOk(c.eap, Allowed(c.prof))
  BY DEF CtxOk
<1>6. d.sm \in SmStates /\ d.eap \in EapStates
  BY <1>1, <1>2, <1>3, <1>4, <1>5
<1>7. d \in Contexts
  BY <1>1, <1>6 DEF LinkDown, Contexts
<1> HIDE DEF d
<1>8. /\ EapOk(d.eap, Allowed(c.prof)) /\ d.eap.won = c.eap.won
      /\ d.eap.eapSuccess = c.eap.eapSuccess
      /\ d.eap.decision = c.eap.decision
  BY <1>1, <1>2, <1>4, <1>5
<1>9. Alike(c, d)
  BY <1>1, <1>2, <1>7, <1>8 DEF Alike, SmStates
<1> QED
  BY <1>9, AlikeOk DEF d

\* The link is up.
LEMMA PortEnabledOk ==
  ASSUME NEW c, CtxOk(c)
  PROVE  LET d == [c EXCEPT !.sm.portEnabled = TRUE]
         IN  /\ CtxOk(d) /\ d.sm.portEnabled /\ d.conn = c.conn
             /\ d.prof = c.prof
<1> DEFINE d == [c EXCEPT !.sm.portEnabled = TRUE]
<1>1. c \in Contexts /\ c.sm \in SmStates
  BY AllowedMethods DEF CtxOk
<1>2. /\ d.sm = [c.sm EXCEPT !.portEnabled = TRUE]
      /\ d.eap = c.eap /\ d.conn = c.conn /\ d.prof = c.prof
  BY <1>1 DEF Contexts
<1>3. ASSUME NEW s \in SmStates
      PROVE  [s EXCEPT !.portEnabled = TRUE] \in SmStates
  BY DEF SmStates
<1>4. d.sm \in SmStates
  BY <1>1, <1>2, <1>3
<1>5. d \in Contexts
  BY <1>1, <1>4 DEF Contexts
<1> HIDE DEF d
<1>6. d.sm.portEnabled
  BY <1>1, <1>2 DEF SmStates
<1>7. EapOk(d.eap, Allowed(c.prof))
  BY <1>2 DEF CtxOk
<1>8. Alike(c, d)
  BY <1>1, <1>2, <1>5, <1>7 DEF Alike, SmStates
<1> QED
  BY <1>2, <1>6, <1>8, AlikeOk DEF d

\* One run of all machines, with the link up or down.
LEMMA StatemachineRunOk ==
  ASSUME NEW c, CtxOk(c), c.conn # "NONE", NEW in \in Inputs
  PROVE  CtxOk(StatemachineRun(c, in))
<1> DEFINE t == TickedOn(c)
           p == LinkUp(t)
           d == DoPae(p, in)
<1>0. StatemachineRun(c, in) =
        IF ~in.link THEN LinkDown(t)
        ELSE IF d.sm.curState \in {"S_FORCE_AUTH", "S_FORCE_UNAUTH"} THEN d
        ELSE BackendRun(d, in)
  BY DEF StatemachineRun, BackendUnlessForced
<1>1. CtxOk(t) /\ t.conn = c.conn
  BY TimerTickOk, GlobalTransitionOk DEF TickedOn
<1> HIDE DEF t
<1>2. CtxOk(p) /\ p.sm.portEnabled /\ p.conn # "NONE"
  BY <1>1, PortEnabledOk DEF LinkUp
<1> HIDE DEF p
<1>3. CASE p.sm.curState = "S_FORCE_AUTH"
  <2>1. d = p
    BY <1>3 DEF DoPae
  <2> QED
    BY <1>0, <1>1, <1>2, <1>3, <2>1, LinkDownOk
<1>4. CASE p.sm.curState # "S_FORCE_AUTH"
  <2>1. Begun(p)
    BY <1>2, <1>4 DEF Begun, Base, Enabled, CtxOk, Unreached, UnsetIsUnused
  <2>2. Entered(d)
    BY <2>1, DoPaeOk
  <2>3. CtxOk(d) /\ CtxOk(BackendRun(d, in))
    BY <2>2, EnteredCtx, BackendKeeps
  <2> HIDE DEF d
  <2> QED
    BY <1>0, <1>1, <2>3, LinkDownOk
<1> QED
  BY <1>3, <1>4

(***************************************************************************)
(* The steps of the daemon that only move frames or flags.                 *)
(***************************************************************************)
LEMMA FreshOk ==
  ASSUME NEW c, CtxOk(c)
  PROVE  /\ CtxOk(Fresh(c)) /\ Fresh(c) = [c EXCEPT !.out = <<>>]
         /\ Fresh(c).sm = c.sm /\ Fresh(c).eap = c.eap
         /\ Fresh(c).conn = c.conn /\ Fresh(c).prof = c.prof
         /\ Fresh(c).recvframe = c.recvframe
<1> DEFINE d == Fresh(c)
<1>1. /\ c \in Contexts /\ <<>> \in Seq(Sent)
  BY EmptySeq DEF CtxOk
<1>2. /\ d \in Contexts /\ d.sm = c.sm /\ d.eap = c.eap
      /\ d.conn = c.conn /\ d.prof = c.prof /\ d.recvframe = c.recvframe
  BY <1>1 DEF Fresh, Contexts
<1> HIDE DEF d
<1>3. Alike(c, d)
  BY <1>2 DEF Alike, CtxOk
<1> QED
  BY <1>2, <1>3, AlikeOk DEF d, Fresh

\* event_core frees a frame and receives another.
LEMMA SetFrameOk ==
  ASSUME NEW c, CtxOk(c), NEW f \in Frames
  PROVE  LET d == [Fresh(ReleaseFrame(c)) EXCEPT !.recvframe = f]
         IN  CtxOk(d) /\ CtxOk([d EXCEPT !.sm.eapolEap = TRUE])
<1> DEFINE r == ReleaseFrame(c)
           d == [Fresh(r) EXCEPT !.recvframe = f]
           g == [d EXCEPT !.sm.eapolEap = TRUE]
<1>1. CtxOk(r)
  <2>1. Alike(c, r)
    BY ReleaseFrameOk DEF CtxOk, Alike
  <2> QED
    BY <2>1, AlikeOk
<1> HIDE DEF r
<1>2. CtxOk(Fresh(r)) /\ Fresh(r) \in Contexts
  BY <1>1, FreshOk DEF CtxOk
<1>3. /\ d \in Contexts /\ d.sm = Fresh(r).sm /\ d.eap = Fresh(r).eap
      /\ d.conn = Fresh(r).conn /\ d.prof = Fresh(r).prof
  BY <1>2 DEF Contexts
<1> HIDE DEF d
<1>4. CtxOk(d)
  <2>1. Alike(Fresh(r), d)
    BY <1>2, <1>3 DEF Alike, CtxOk
  <2> QED
    BY <1>2, <2>1, AlikeOk
<1>5. d.sm \in SmStates
  BY <1>3, AllowedMethods
<1>6. /\ g.sm = [d.sm EXCEPT !.eapolEap = TRUE] /\ g.eap = d.eap
      /\ g.conn = d.conn /\ g.prof = d.prof
  BY <1>3 DEF Contexts
<1>7. g.sm \in SmStates
  <2>1. ASSUME NEW z \in SmStates
        PROVE  [z EXCEPT !.eapolEap = TRUE] \in SmStates
    BY DEF SmStates
  <2> QED
    BY <1>5, <1>6, <2>1
<1>8. g \in Contexts
  BY <1>3, <1>7 DEF Contexts
<1> HIDE DEF g
<1>9. Alike(d, g)
  BY <1>4, <1>5, <1>6, <1>8 DEF Alike, CtxOk, SmStates
<1> QED
  BY <1>4, <1>9, AlikeOk DEF d, g, r

\* The clock raises tick.
LEMMA TickedOk ==
  ASSUME NEW c, CtxOk(c)
  PROVE  CtxOk(Ticked(c)) /\ Ticked(c).conn = c.conn
<1> DEFINE d == Ticked(c)
<1>1. c \in Contexts /\ c.sm \in SmStates
  BY AllowedMethods DEF CtxOk
<1>2. /\ d.sm = [c.sm EXCEPT !.tick = TRUE]
      /\ d.eap = c.eap /\ d.conn = c.conn /\ d.prof = c.prof
  BY <1>1 DEF Ticked, Contexts
<1>3. d.sm \in SmStates
  <2>1. ASSUME NEW z \in SmStates PROVE [z EXCEPT !.tick = TRUE] \in SmStates
    BY DEF SmStates
  <2> HIDE DEF d
  <2> QED
    BY <1>1, <1>2, <2>1
<1>4. d \in Contexts
  BY <1>1, <1>3 DEF Ticked, Contexts
<1> HIDE DEF d
<1>5. Alike(c, d)
  BY <1>1, <1>2, <1>4 DEF Alike, CtxOk, SmStates
<1> QED
  BY <1>2, <1>5, AlikeOk DEF d

\* What the environment decides is within its assumptions.
LEMMA RunInputsOk ==
  ASSUME NEW c, c \in Contexts
  PROVE  RunInputs(c) \subseteq Inputs
  BY EnvironmentAssumption, ConstantTypes DEF RunInputs, Inputs

(***************************************************************************)
(* The requests of the user interface.  They change the connection, the    *)
(* profile or the EAP machine before the state of the port follows, so     *)
(* less than CtxOk holds in between.                                       *)
(***************************************************************************)
Handed(c) ==
    /\ c \in Contexts /\ EapOk(c.eap, Allowed(c.prof))
    /\ Unreached(c) /\ ReceiveWaits(c)

\* What the methods in A allow, the methods in a larger set allow.
LEMMA EapOkMonotone ==
  ASSUME NEW A, NEW B, A \subseteq B, NEW e, EapOk(e, A)
  PROVE  EapOk(e, B)
  BY DEF EapOk

\* eap_sm_deinit and eap_sm_init leave a machine any profile may use.
LEMMA ReinitEapOk ==
  ASSUME NEW e \in EapStates, NEW A
  PROVE  /\ ReinitEap(e) \in EapStates /\ EapOk(ReinitEap(e), A)
         /\ ~ReinitEap(e).eapSuccess
<1> DEFINE b == e.pwdCallback
           f == IF e.selectedMethod # e.lastMethod /\ e.lastMethod # "NONE"
                THEN NullFrame ELSE e.pwdFrame
<1>1. b \in BOOLEAN /\ f \in Frames
  BY ConstantTypes DEF EapStates
<1>2. ReinitEap(e) = [NewEap EXCEPT !.pwdCallback = b, !.pwdFrame = f]
  BY DEF ReinitEap
<1> HIDE DEF b, f
<1>3. ASSUME NEW z \in EapStates, EapOk(z, A)
      PROVE  LET g == [z EXCEPT !.pwdCallback = b, !.pwdFrame = f]
             IN  /\ g \in EapStates /\ EapOk(g, A)
                 /\ g.eapSuccess = z.eapSuccess
  BY <1>1, <1>3 DEF EapStates, EapOk
<1>4. ~NewEap.eapSuccess
  BY DEF NewEap
<1> QED
  BY <1>2, <1>3, <1>4, NewEapOk

\* The same connection and port with a new EAP machine.
LEMMA AfreshOk ==
  ASSUME NEW c \in Contexts, Unreached(c)
  PROVE  LET d == [c EXCEPT !.eap = ReinitEap(@)]
         IN  /\ Handed(d) /\ d.sm = c.sm /\ d.conn = c.conn
             /\ d.prof = c.prof
<1> DEFINE d == [c EXCEPT !.eap = ReinitEap(@)]
<1>1. /\ ReinitEap(c.eap) \in EapStates /\ ~ReinitEap(c.eap).eapSuccess
      /\ EapOk(ReinitEap(c.eap), Allowed(c.prof))
  BY AllowedMethods, ReinitEapOk
<1>2. /\ d \in Contexts /\ d.sm = c.sm /\ d.eap = ReinitEap(c.eap)
      /\ d.conn = c.conn /\ d.prof = c.prof
  BY <1>1 DEF Contexts
<1> HIDE DEF d
<1>3. Handed(d)
  BY <1>1, <1>2 DEF Handed, Unreached, ReceiveWaits
<1> QED
  BY <1>2, <1>3 DEF d

\* Another connection, and no profile.
LEMMA UnprofiledOk ==
  ASSUME NEW c, Handed(c), NEW n \in Conns \cup {"NONE"}
  PROVE  LET d == [c EXCEPT !.conn = n, !.prof = "NONE"]
         IN  /\ Handed(d) /\ d.sm = c.sm /\ d.eap = c.eap
             /\ d.conn = n /\ d.prof = "NONE"
<1> DEFINE d == [c EXCEPT !.conn = n, !.prof = "NONE"]
<1>1. /\ d \in Contexts /\ d.sm = c.sm /\ d.eap = c.eap
      /\ d.conn = n /\ d.prof = "NONE"
  BY DEF Handed, Contexts
<1> HIDE DEF d
<1>2. EapOk(d.eap, Allowed(d.prof))
  BY <1>1, AllowedMethods, EapOkMonotone DEF Handed, Allowed
<1>3. Handed(d)
  BY <1>1, <1>2 DEF Handed, Unreached, ReceiveWaits
<1> QED
  BY <1>1, <1>3 DEF d

\* S_FORCE_AUTH may be entered at any time.
LEMMA HandedForceAuth ==
  ASSUME NEW c, Handed(c)
  PROVE  CtxOk(ToForceAuth(c))
<1> DEFINE d == ToForceAuth(c)
<1>1. c.sm \in SmStates
  BY AllowedMethods DEF Handed
<1>2. /\ d.sm = [c.sm EXCEPT !.curState = "S_FORCE_AUTH",
                 !.suppPortStatus = "AUTHORIZED",
                 !.sPortMode = "FORCE_AUTHORIZED",
                 !.portControl = "FORCE_AUTHORIZED"]
      /\ d.eap = c.eap /\ d.conn = c.conn /\ d.prof = c.prof
  BY DEF ToForceAuth, Handed, Contexts
<1>3. ASSUME NEW z \in SmStates
      PROVE  [z EXCEPT !.curState = "S_FORCE_AUTH",
                 !.suppPortStatus = "AUTHORIZED",
                 !.sPortMode = "FORCE_AUTHORIZED",
                 !.portControl = "FORCE_AUTHORIZED"] \in SmStates
  BY DEF SmStates, PaeStateNames, PortModes
<1>4. d.sm \in SmStates
  BY <1>1, <1>2, <1>3
<1>5. d \in Contexts
  BY <1>4 DEF ToForceAuth, Handed, Contexts
<1> HIDE DEF d
<1>6. /\ d.sm.curState = "S_FORCE_AUTH"
      /\ d.sm.userLogoff = c.sm.userLogoff
      /\ d.sm.eapRestart = c.sm.eapRestart
      /\ d.sm.portControl = "FORCE_AUTHORIZED"
      /\ d.sm.sPortMode = "FORCE_AUTHORIZED"
      /\ d.sm.beCurState = c.sm.beCurState
  BY <1>1, <1>2 DEF SmStates
<1>7. CtxOk(d)
  BY <1>2, <1>5, <1>6
     DEF Handed, CtxOk, Unreached, SuccessHolds, ReceiveWaits,
         UnsetIsUnused, GivenUp
<1> QED
  BY <1>7 DEF d

\* A logoff changes no state by being sent.
LEMMA TxLogoffOk ==
  ASSUME NEW c \in Contexts
  PROVE  LET d == TxLogoff(c)
         IN  /\ d \in Contexts /\ d.sm = c.sm /\ d.eap = c.eap
             /\ d.conn = c.conn /\ d.prof = c.prof
  BY TransmitOk, ConstantTypes DEF TxLogoff

\* A logoff forgets the conversation: no success survives it.
LEMMA HandedLogoff ==
  ASSUME NEW c, Handed(c)
  PROVE  LET d == ToLogoff(c)
         IN  /\ CtxOk(d) /\ d.sm.curState = "LOGOFF"
             /\ d.conn = c.conn /\ d.prof = c.prof
<1> DEFINE t == TxLogoff(c)
           e == EapForceInit(c.eap)
           d == ToLogoff(c)
<1>1. /\ t \in Contexts /\ t.sm = c.sm /\ t.eap = c.eap
      /\ t.conn = c.conn /\ t.prof = c.prof
  BY TxLogoffOk DEF Handed
<1>2. c.sm \in SmStates /\ c.eap \in EapStates
  BY AllowedMethods DEF Handed
<1>3. Going(e, Allowed(c.prof)) /\ ~e.eapSuccess
  BY <1>2, ForceInitGoing DEF Handed
<1>4. d = [t EXCEPT !.sm.logoffSent = TRUE,
                    !.sm.suppPortStatus = "UNAUTHORIZED",
                    !.sm.curState = "LOGOFF", !.eap = EapForceInit(@)]
  BY DEF ToLogoff
<1> HIDE DEF t
<1>5. /\ d.sm = [c.sm EXCEPT !.logoffSent = TRUE,
                     !.suppPortStatus = "UNAUTHORIZED",
                     !.curState = "LOGOFF"]
      /\ d.eap = e /\ d.conn = c.conn /\ d.prof = c.prof
  BY <1>1, <1>4 DEF Contexts
<1>6. ASSUME NEW z \in SmStates
      PROVE  [z EXCEPT !.logoffSent = TRUE,
                  !.suppPortStatus = "UNAUTHORIZED",
                  !.curState = "LOGOFF"] \in SmStates
  BY DEF SmStates, PaeStateNames
<1> HIDE DEF e
<1>7. d.sm \in SmStates /\ d.eap \in EapStates
  BY <1>2, <1>3, <1>5, <1>6 DEF Going
<1>8. d \in Contexts
  BY <1>1, <1>4, <1>7 DEF Contexts
<1> HIDE DEF d
<1>9. /\ d.sm.curState = "LOGOFF"
      /\ d.sm.userLogoff = c.sm.userLogoff
      /\ d.sm.eapRestart = c.sm.eapRestart
      /\ d.sm.portControl = c.sm.portControl
  BY <1>2, <1>5 DEF SmStates
<1>10. CtxOk(d)
  BY <1>3, <1>5, <1>8, <1>9
     DEF Handed, CtxOk, Unreached, SuccessHolds, ReceiveWaits,
         UnsetIsUnused, GivenUp, Going
<1> QED
  BY <1>5, <1>9, <1>10 DEF d

\* With no connection the port may stay logged off, whatever EAP was left.
LEMMA HandedIdle ==
  ASSUME NEW c, Handed(c), c.sm.curState = "LOGOFF", c.conn = "NONE"
  PROVE  CtxOk(c)
  BY DEF Handed, CtxOk, SuccessHolds, UnsetIsUnused, GivenUp

\* What is left of a context after a request.
LEMMA CtxHanded ==
  ASSUME NEW c, CtxOk(c)
  PROVE  Handed(c) /\ c \in Contexts /\ Unreached(c)
  BY DEF CtxOk, Handed

\* ipc_callout_change_connection, with and without a profile.
LEMMA ConnectOk ==
  ASSUME NEW c, CtxOk(c), NEW conn \in Conns
  PROVE  LET bound  == [Fresh(c) EXCEPT !.conn = conn, !.prof = ProfOf(conn)]
             afresh == [bound EXCEPT !.eap = ReinitEap(@)]
         IN  /\ bound.prof = "NONE" => /\ CtxOk(ToForceAuth(bound))
                                       /\ CtxOk(ToForceAuth(afresh))
             /\ CtxOk(ToLogoff(afresh))
<1> DEFINE f == Fresh(c)
           bound  == [f EXCEPT !.conn = conn, !.prof = ProfOf(conn)]
           afresh == [bound EXCEPT !.eap = ReinitEap(@)]
<1>1. Handed(f) /\ f \in Contexts /\ Unreached(f)
  BY FreshOk, CtxHanded
<1>2. ProfOf(conn) \in Conns \cup {"NONE"}
  BY DEF ProfOf
<1> HIDE DEF f
<1>3. /\ bound \in Contexts /\ Unreached(bound)
      /\ bound.prof = ProfOf(conn)
  BY <1>1, <1>2 DEF Contexts, Unreached
<1>4. ProfOf(conn) = "NONE" => Handed(bound)
  BY <1>1, UnprofiledOk
<1> HIDE DEF bound
<1>5. Handed(afresh)
  BY <1>3, AfreshOk
<1> QED
  BY <1>3, <1>4, <1>5, HandedForceAuth, HandedLogoff DEF f, bound

\* ipc_callout_request_logoff.
LEMMA LogoffOk ==
  ASSUME NEW c, CtxOk(c)
  PROVE  CtxOk([ToLogoff(Fresh(c)) EXCEPT !.conn = "NONE",
                                          !.eap = ReinitEap(@)])
<1> DEFINE g == ToLogoff(Fresh(c))
           b == [g EXCEPT !.conn = "NONE", !.prof = g.prof]
           d == [b EXCEPT !.eap = ReinitEap(@)]
<1>1. CtxOk(g) /\ g.sm.curState = "LOGOFF"
  BY FreshOk, CtxHanded, HandedLogoff
<1> HIDE DEF g
<1>2. g \in Contexts /\ g.prof \in Conns \cup {"NONE"} /\ Unreached(g)
  BY <1>1, CtxHanded DEF Contexts
<1>3. b \in Contexts /\ b.sm = g.sm /\ b.eap = g.eap /\ b.conn = "NONE"
  BY <1>2 DEF Contexts
<1>4. [g EXCEPT !.conn = "NONE", !.eap = ReinitEap(@)] = d
  BY <1>2 DEF Contexts
<1> HIDE DEF b
<1>5. Unreached(b)
  BY <1>2, <1>3 DEF Unreached
<1>6. Handed(d) /\ d.sm = g.sm /\ d.conn = "NONE"
  BY <1>3, <1>5, AfreshOk
<1> HIDE DEF d
<1>7. CtxOk(d)
  BY <1>1, <1>6, HandedIdle
<1> QED
  BY <1>4, <1>7 DEF g

\* ipc_callout_disconnect_connection.
LEMMA DisconnectOk ==
  ASSUME NEW c, CtxOk(c)
  PROVE  LET off == [ToLogoff(Fresh(c)) EXCEPT !.eap = ReinitEap(@)]
         IN  CtxOk([TxLogoff(TxLogoff(off)) EXCEPT !.conn = "NONE",
                                                   !.prof = "NONE"])
<1> DEFINE g   == ToLogoff(Fresh(c))
           off == [g EXCEPT !.eap = ReinitEap(@)]
           t   == TxLogoff(TxLogoff(off))
           d   == [t EXCEPT !.conn = "NONE", !.prof = "NONE"]
<1>1. CtxOk(g) /\ g.sm.curState = "LOGOFF"
  BY FreshOk, CtxHanded, HandedLogoff
<1> HIDE DEF g
<1>2. Handed(off) /\ off.sm = g.sm
  BY <1>1, CtxHanded, AfreshOk
<1> HIDE DEF off
<1>3. /\ t \in Contexts /\ t.sm = off.sm /\ t.eap = off.eap
      /\ t.prof = off.prof
  BY <1>2, TxLogoffOk DEF Handed
<1> HIDE DEF t
<1>4. Handed(t)
  BY <1>2, <1>3 DEF Handed, Unreached, ReceiveWaits
<1>5. Handed(d) /\ d.sm = t.sm /\ d.conn = "NONE"
  BY <1>4, UnprofiledOk
<1> HIDE DEF d
<1> QED
  BY <1>1, <1>2, <1>3, <1>5, HandedIdle DEF d, t, off, g

\* ipc_callout_request_unbind_connection.
LEMMA UnbindOk ==
  ASSUME NEW c, CtxOk(c)
  PROVE  CtxOk([Fresh(c) EXCEPT !.conn = "NONE", !.prof = "NONE"])
<1> DEFINE f == Fresh(c)
           d == [f EXCEPT !.conn = "NONE", !.prof = "NONE"]
<1>1. CtxOk(f) /\ Handed(f)
  BY FreshOk, CtxHanded
<1> HIDE DEF f
<1>2. Handed(d) /\ d.sm = f.sm /\ d.eap = f.eap /\ d.conn = "NONE"
  BY <1>1, UnprofiledOk
<1> HIDE DEF d
<1>3. CtxOk(d)
  BY <1>1, <1>2
     DEF Handed, CtxOk, SuccessHolds, UnsetIsUnused, GivenUp, BackendQuiet
<1> QED
  BY <1>3 DEF d, f

\* Backing up an identifier gives an identifier.
LEMMA BackUpOk ==
  ASSUME NEW i \in Ids
  PROVE  (i + IdSpace - 1) % IdSpace \in Ids
  BY IdSpaceAssumption DEF Ids

\* An EAP machine that means the same to the profile.
SameVerdict(e, h, prof) ==
    /\ h \in EapStates /\ EapOk(h, Allowed(prof))
    /\ h.won = e.won /\ h.eapSuccess = e.eapSuccess
    /\ h.decision = e.decision

\* The password callback moves a frame and backs up an identifier; the
\* verdicts stay.
LEMMA PasswordOk ==
  ASSUME NEW c, CtxOk(c), NEW i \in Ids, NEW f \in Frames
  PROVE  /\ CtxOk([c EXCEPT !.eap.pwdCallback = FALSE])
         /\ CtxOk([c EXCEPT !.eap.pwdCallback = FALSE, !.eap.pwdFrame = f,
                            !.eap.lastId = i,
                            !.recvframe = c.eap.pwdFrame,
                            !.sm.eapolEap = TRUE])
<1> DEFINE d == [c EXCEPT !.eap.pwdCallback = FALSE]
           g == [c EXCEPT !.eap.pwdCallback = FALSE, !.eap.pwdFrame = f,
                          !.eap.lastId = i, !.recvframe = c.eap.pwdFrame,
                          !.sm.eapolEap = TRUE]
<1>1. c \in Contexts /\ c.sm \in SmStates /\ c.eap \in EapStates
  BY AllowedMethods DEF CtxOk
<1>2. /\ d.sm = c.sm /\ d.conn = c.conn /\ d.prof = c.prof
      /\ d.eap = [c.eap EXCEPT !.pwdCallback = FALSE]
  BY <1>1 DEF Contexts
<1>3. /\ g.conn = c.conn /\ g.prof = c.prof
      /\ g.sm = [c.sm EXCEPT !.eapolEap = TRUE]
      /\ g.eap = [c.eap EXCEPT !.pwdCallback = FALSE, !.pwdFrame = f,
                               !.lastId = i]
  BY <1>1 DEF Contexts
<1>4. ASSUME NEW e \in EapStates, EapOk(e, Allowed(c.prof))
      PROVE  /\ SameVerdict(e, [e EXCEPT !.pwdCallback = FALSE], c.prof)
             /\ SameVerdict(e, [e EXCEPT !.pwdCallback = FALSE,
                                         !.pwdFrame = f, !.lastId = i],
                            c.prof)
  <2> DEFINE h == [e EXCEPT !.pwdCallback = FALSE]
             k == [h EXCEPT !.pwdFrame = f, !.lastId = i]
  <2>1. SameVerdict(e, h, c.prof)
    BY <1>4 DEF EapStates, EapOk, SameVerdict
  <2> HIDE DEF h
  <2>2. k \in EapStates
    BY <2>1 DEF EapStates, SameVerdict
  <2>3. EapOk(k, Allowed(c.prof))
    BY <2>1 DEF EapStates, EapOk, SameVerdict
  <2>4. SameVerdict(e, k, c.prof)
    BY <2>1, <2>2, <2>3 DEF EapStates, SameVerdict
  <2> QED
    BY <2>1, <2>4 DEF h
<1>5. ASSUME NEW z \in SmStates
      PROVE  LET y == [z EXCEPT !.eapolEap = TRUE]
             IN  /\ y \in SmStates /\ y.curState = z.curState
                 /\ y.beCurState = z.beCurState
                 /\ y.userLogoff = z.userLogoff
                 /\ y.eapRestart = z.eapRestart
                 /\ y.portControl = z.portControl
                 /\ y.sPortMode = z.sPortMode
                 /\ y.suppSuccess = z.suppSuccess
                 /\ y.suppStart = z.suppStart
  BY DEF SmStates
<1>6. EapOk(c.eap, Allowed(c.prof)) /\ c.eap.pwdFrame \in Frames
  BY <1>1 DEF CtxOk, EapStates
<1>7. d.eap \in EapStates /\ g.eap \in EapStates /\ g.sm \in SmStates
  BY <1>1, <1>2, <1>3, <1>4, <1>5, <1>6 DEF SameVerdict
<1>8. d \in Contexts /\ g \in Contexts
  BY <1>1, <1>6, <1>7 DEF Contexts
<1> HIDE DEF d, g
<1>9. Alike(c, d)
  BY <1>1, <1>2, <1>4, <1>6, <1>8 DEF Alike, SameVerdict
<1>10. Alike(c, g)
  <2>1. SameVerdict(c.eap, g.eap, c.prof)
    BY <1>1, <1>3, <1>4, <1>6
  <2>2. /\ g.sm.curState = c.sm.curState
        /\ g.sm.beCurState = c.sm.beCurState
        /\ g.sm.userLogoff = c.sm.userLogoff
        /\ g.sm.eapRestart = c.sm.eapRestart
        /\ g.sm.portControl = c.sm.portControl
        /\ g.sm.sPortMode = c.sm.sPortMode
        /\ g.sm.suppSuccess = c.sm.suppSuccess
        /\ g.sm.suppStart = c.sm.suppStart
    BY <1>1, <1>3, <1>5
  <2> QED
    BY <1>3, <1>8, <2>1, <2>2 DEF Alike, SameVerdict
<1> QED
  BY <1>9, <1>10, AlikeOk DEF d, g

(***************************************************************************)
(* The invariant is inductive.                                             *)
(***************************************************************************)
LEMMA InitOk == Init => IInv
<1> SUFFICES ASSUME Init PROVE IInv
  OBVIOUS
<1>1. PICK conn \in InitialConns, link \in LinkAnswers :
         ctx = [sm |-> NewSm(link), eap |-> NewEap,
                recvframe |-> NullFrame, conn |-> conn,
                prof |-> ProfOf(conn), out |-> <<>>]
  BY DEF Init
<1>2. NewSm(link) \in SmStates
  <2> DEFINE a == AuthPeriod
             h == HeldPeriod
             o == 0
  <2>1. /\ a \in 0 .. AuthPeriod /\ h \in 0 .. HeldPeriod
        /\ o \in 0 .. StartPeriod /\ o \in 0 .. 255
        /\ link \in BOOLEAN
    BY PeriodsAssumption, EnvironmentAssumption
  <2>2. NewSm(link) =
          [curState |-> "DISCONNECTED", beCurState |-> "UNKNOWN",
           initialize |-> TRUE, tick |-> FALSE, portEnabled |-> link,
           portControl |-> "AUTO", sPortMode |-> "AUTO",
           suppPortStatus |-> "UNAUTHORIZED", userLogoff |-> FALSE,
           logoffSent |-> FALSE, eapolEap |-> FALSE, eapReq |-> FALSE,
           eapRestart |-> FALSE, suppStart |-> FALSE, suppAbort |-> FALSE,
           suppSuccess |-> FALSE, suppFail |-> FALSE,
           suppTimeout |-> FALSE, authWhile |-> a, heldWhile |-> h,
           startWhen |-> o, startCount |-> o]
    BY DEF NewSm
  <2> HIDE DEF a, h, o
  <2> QED
    BY <2>1, <2>2 DEF SmStates, PaeStateNames, BackendStateNames, PortModes
<1>3. /\ conn \in Conns \cup {"NONE"} /\ ProfOf(conn) \in Conns \cup {"NONE"}
      /\ NullFrame \in Frames /\ <<>> \in Seq(Sent)
  BY EnvironmentAssumption, ConstantTypes, EmptySeq DEF ProfOf
<1>4. NewEap \in EapStates /\ EapOk(NewEap, Allowed(ctx.prof))
  BY NewEapOk
<1>5. ctx \in Contexts
  BY <1>1, <1>2, <1>3, <1>4 DEF Contexts
<1>6. CtxOk(ctx)
  BY <1>1, <1>4, <1>5
     DEF CtxOk, Unreached, SuccessHolds, ReceiveWaits, UnsetIsUnused,
         GivenUp, BackendQuiet, NewSm, NewEap
<1>7. TypeOK
  BY <1>3, <1>5, EnvironmentAssumption DEF Init, TypeOK
<1> QED
  BY <1>6, <1>7 DEF IInv

\* One run of the machines at the end of a pass of event_core.
LEMMA RunIfBoundOk ==
  ASSUME NEW c, CtxOk(c), RunIfBound(c)
  PROVE  CtxOk(ctx')
<1>1. RunInputs(c) \subseteq Inputs
  BY RunInputsOk DEF CtxOk
<1> QED
  BY <1>1, StatemachineRunOk DEF RunIfBound

\* Every step keeps the invariant: one case per action.
LEMMA StepOk == IInv /\ [Next]_vars => IInv'
<1> SUFFICES ASSUME IInv, [Next]_vars PROVE IInv'
  OBVIOUS
<1>1. TypeOK /\ CtxOk(ctx) /\ ctx \in Contexts
  BY DEF IInv, CtxOk
<1>2. SUFFICES CtxOk(ctx') /\ pc' \in {"select", "execute", "reprocess"}
               /\ runs' \in 0 .. MaxRuns /\ saved' \in Frames
               /\ served' \subseteq {"frame", "ipc"}
  BY DEF IInv, TypeOK, CtxOk
<1>3. /\ MaxRuns \in Nat /\ 0 \in 0 .. MaxRuns
      /\ NullFrame \in Frames /\ OtherFrame \in Frames
      /\ AirFrames \subseteq Frames
  BY EnvironmentAssumption, ConstantTypes, IdSpaceAssumption
     DEF OtherFrame, Frames, Ids
<1>4. CASE IgnoredFrame
  <2>1. PICK f \in {NullFrame, OtherFrame} :
           ctx' = [Fresh(ReleaseFrame(ctx)) EXCEPT !.recvframe = f]
    BY <1>4 DEF IgnoredFrame
  <2>2. CtxOk([Fresh(ReleaseFrame(ctx)) EXCEPT !.recvframe = f])
    BY <1>1, <1>3, SetFrameOk
  <2> QED
    BY <1>1, <1>3, <1>4, <2>1, <2>2 DEF IgnoredFrame, NextSource, TypeOK
<1>5. ASSUME NEW f \in AirFrames, EapFrame(f)
      PROVE  CtxOk(ctx') /\ pc' = "execute" /\ runs' = 0
             /\ saved' = saved /\ served' \subseteq {"frame", "ipc"}
  <2> DEFINE d == [Fresh(ReleaseFrame(ctx)) EXCEPT !.recvframe = f]
  <2>1. CtxOk([d EXCEPT !.sm.eapolEap = TRUE])
    BY <1>1, <1>3, SetFrameOk
  <2>2. ctx' = [d EXCEPT !.sm.eapolEap = TRUE]
    BY <1>5 DEF EapFrame
  <2> QED
    BY <1>1, <1>5, <2>1, <2>2 DEF EapFrame, NextSource, TypeOK
<1>6. CASE ExecuteRun
  <2>1. PICK in \in RunInputs(ctx) : ctx' = StatemachineRun(Fresh(ctx), in)
    BY <1>6 DEF ExecuteRun
  <2>2. CtxOk(Fresh(ctx)) /\ Fresh(ctx).conn # "NONE" /\ in \in Inputs
    BY <1>1, <1>6, <2>1, FreshOk, RunInputsOk DEF ExecuteRun
  <2>3. CtxOk(ctx')
    BY <2>1, <2>2, StatemachineRunOk
  <2>4. runs + 1 \in 0 .. MaxRuns
    BY <1>1, <1>3, <1>6 DEF ExecuteRun, TypeOK
  <2> QED
    BY <1>1, <1>6, <2>3, <2>4 DEF ExecuteRun, TypeOK
<1>7. CASE ExecuteEnd
  <2>1. CtxOk(ctx')
    BY <1>1, <1>7, FreshOk, SetFrameOk DEF ExecuteEnd, TypeOK
  <2> QED
    BY <1>1, <1>3, <1>7, <2>1 DEF ExecuteEnd, TypeOK
<1>8. ASSUME NEW kind, NEW c, Request(kind, c)
      PROVE  /\ ctx' = c /\ pc' = pc /\ runs' = runs /\ saved' = saved
             /\ served' \subseteq {"frame", "ipc"}
  BY <1>1, <1>8 DEF Request, NextSource, TypeOK
<1>9. ASSUME NEW conn \in Conns, ChangeConnection(conn)
      PROVE  /\ CtxOk(ctx') /\ pc' = pc /\ runs' = runs /\ saved' = saved
             /\ served' \subseteq {"frame", "ipc"}
  <2> DEFINE bound  == [Fresh(ctx) EXCEPT !.conn = conn,
                                          !.prof = ProfOf(conn)]
             afresh == [bound EXCEPT !.eap = ReinitEap(@)]
  <2>1. /\ bound.prof = "NONE" => /\ CtxOk(ToForceAuth(bound))
                                  /\ CtxOk(ToForceAuth(afresh))
        /\ CtxOk(ToLogoff(afresh))
    BY <1>1, ConnectOk
  <2>2. CASE bound.prof = "NONE"
    <3>1. PICK c \in {bound, afresh} : Request("connect", ToForceAuth(c))
      BY <1>9, <2>2 DEF ChangeConnection
    <3> QED
      BY <1>8, <2>1, <2>2, <3>1
  <2>3. CASE bound.prof # "NONE"
    <3>1. Request("connect", ToLogoff(afresh))
      BY <1>9, <2>3 DEF ChangeConnection
    <3> QED
      BY <1>8, <2>1, <3>1
  <2> QED
    BY <2>2, <2>3
<1>10. CASE RequestLogoff
  <2> DEFINE d == [ToLogoff(Fresh(ctx)) EXCEPT !.conn = "NONE",
                                              !.eap = ReinitEap(@)]
  <2>1. Request("logoff", d)
    BY <1>10 DEF RequestLogoff
  <2>2. CtxOk(d)
    BY <1>1, LogoffOk
  <2> HIDE DEF d
  <2> QED
    BY <1>1, <1>8, <2>1, <2>2 DEF TypeOK
<1>11. CASE DisconnectConnection
  <2> DEFINE off == [ToLogoff(Fresh(ctx)) EXCEPT !.eap = ReinitEap(@)]
             d == [TxLogoff(TxLogoff(off)) EXCEPT !.conn = "NONE",
                                                  !.prof = "NONE"]
  <2>1. Request("disconnect", d)
    BY <1>11 DEF DisconnectConnection
  <2>2. CtxOk(d)
    BY <1>1, DisconnectOk
  <2> HIDE DEF d
  <2> QED
    BY <1>1, <1>8, <2>1, <2>2 DEF TypeOK
<1>12. CASE UnbindConnection
  <2> DEFINE d == [Fresh(ctx) EXCEPT !.conn = "NONE", !.prof = "NONE"]
  <2>1. Request("unbind", d)
    BY <1>12 DEF UnbindConnection
  <2>2. CtxOk(d)
    BY <1>1, UnbindOk
  <2> HIDE DEF d
  <2> QED
    BY <1>1, <1>8, <2>1, <2>2 DEF TypeOK
<1>13. CASE SetPassword
  <2> DEFINE c == Fresh(ctx)
             i == (c.eap.lastId + IdSpace - 1) % IdSpace
  <2>1. CtxOk(c) /\ c.eap = ctx.eap
    BY <1>1, FreshOk
  <2>2. ctx.eap.lastId \in Ids /\ ctx.recvframe \in Frames
    BY <1>1, AllowedMethods DEF Contexts, EapStates
  <2>3. i \in Ids
    BY <2>1, <2>2, BackUpOk
  <2>4. served' \subseteq {"frame", "ipc"}
    BY <1>1, <1>13 DEF SetPassword, NextSource, TypeOK
  <2>5. CASE ctx.eap.pwdFrame = NullFrame
    <3>1. /\ ctx' = [c EXCEPT !.eap.pwdCallback = FALSE]
          /\ pc' = pc /\ runs' = runs /\ saved' = saved
      BY <1>13, <2>5 DEF SetPassword
    <3> HIDE DEF c, i
    <3>2. CtxOk([c EXCEPT !.eap.pwdCallback = FALSE])
      BY <1>3, <2>1, <2>3, PasswordOk
    <3> QED
      BY <1>1, <2>4, <3>1, <3>2 DEF TypeOK
  <2>6. CASE ctx.eap.pwdFrame # NullFrame
    <3>1. /\ ctx' = [c EXCEPT !.eap.pwdCallback = FALSE,
                              !.eap.pwdFrame = NullFrame,
                              !.eap.lastId = i,
                              !.recvframe = c.eap.pwdFrame,
                              !.sm.eapolEap = TRUE]
          /\ pc' = "reprocess" /\ runs' = 0 /\ saved' = ctx.recvframe
      <4>1. ctx' = [c EXCEPT !.eap.pwdCallback = FALSE,
                             !.eap.pwdFrame = NullFrame,
                             !.eap.lastId = (@ + IdSpace - 1) % IdSpace,
                             !.recvframe = ctx.eap.pwdFrame,
                             !.sm.eapolEap = TRUE]
        BY <1>13, <2>6 DEF SetPassword
      <4>2. pc' = "reprocess" /\ runs' = 0 /\ saved' = ctx.recvframe
        BY <1>13, <2>6 DEF SetPassword
      <4>3. c \in Contexts /\ c.eap \in EapStates
        BY <2>1, AllowedMethods DEF CtxOk
      <4> HIDE DEF c
      <4> QED
        BY <2>1, <4>1, <4>2, <4>3 DEF Contexts, EapStates
    <3> HIDE DEF c, i
    <3>2. CtxOk([c EXCEPT !.eap.pwdCallback = FALSE,
                          !.eap.pwdFrame = NullFrame, !.eap.lastId = i,
                          !.recvframe = c.eap.pwdFrame,
                          !.sm.eapolEap = TRUE])
      BY <1>3, <2>1, <2>3, PasswordOk
    <3> QED
      BY <1>3, <2>2, <2>4, <3>1, <3>2
  <2> QED
    BY <2>5, <2>6
<1>14. ASSUME EndPass
       PROVE  pc' = pc /\ runs' = runs /\ saved' = saved /\ served' = {}
  BY <1>14 DEF EndPass
<1>15. CASE Tick
  <2>1. CtxOk(Ticked(Fresh(ctx)))
    BY <1>1, FreshOk, TickedOk
  <2> QED
    BY <1>1, <1>14, <1>15, <2>1, RunIfBoundOk DEF Tick, TypeOK
<1>16. CASE Poll
  <2>1. CtxOk(Fresh(ctx))
    BY <1>1, FreshOk
  <2> QED
    BY <1>1, <1>14, <1>16, <2>1, RunIfBoundOk DEF Poll, TypeOK
<1>17. CASE UNCHANGED vars
  BY <1>1, <1>17 DEF vars, TypeOK
<1> QED
  BY <1>1, <1>3, <1>4, <1>5, <1>6, <1>7, <1>9, <1>10, <1>11, <1>12, <1>13,
     <1>15, <1>16, <1>17 DEF Next, TypeOK

(***************************************************************************)
(* The theorems.                                                           *)
(***************************************************************************)
\* The invariant holds in every reachable state, for every set of methods,
\* connections, profiles and frames, every size of the identifier space and
\* all timer periods.
THEOREM Inductive == Spec => []IInv
<1>1. Init => IInv
  BY InitOk
<1>2. IInv /\ [Next]_vars => IInv'
  BY StepOk
<1> QED
  BY <1>1, <1>2, PTL DEF Spec

\* struct context keeps its shape: the 8-bit timers of struct dot1x_state
\* stay within the period they are loaded with (dec_if_nz never wraps them),
\* the backed-up EAP identifier stays one, and sm_runs stays below its limit.
THEOREM TypeCorrect == Spec => []TypeOK
<1>1. IInv => TypeOK
  BY DEF IInv
<1> QED
  BY <1>1, Inductive, PTL

\* The port access entity is in AUTHENTICATED (statemachine.c:928) only when
\* the EAP machine reached SUCCESS since its last INITIALIZE, by a method
\* that the bound profile allows, whatever connections were changed, frames
\* replayed or links lost before.
THEOREM AuthenticatedTheorem == Spec => []AuthenticatedByMethod
<1>1. IInv => AuthenticatedByMethod
  BY DEF IInv, CtxOk, SuccessHolds, EapOk, Allowed, AuthenticatedByMethod
<1> QED
  BY <1>1, Inductive, PTL
=============================================================================

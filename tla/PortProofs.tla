----------------------------- MODULE PortProofs -----------------------------
(***************************************************************************)
(* The wired supplicant implements PortAccess, its backend machine follows *)
(* the port access entity, a frame takes few runs of the two, a            *)
(* conversation gets one verdict, a request that is sent again gets the    *)
(* stored response and a response answers the request in the buffer, for   *)
(* all methods, connections, frames, requests and periods, or for those a  *)
(* theorem names.                                                          *)
(***************************************************************************)
EXTENDS WiredProofs

(***************************************************************************)
(* What the inductive invariant of WiredProofs lacks.                      *)
(***************************************************************************)
\* A port without a link is to be initialised.
LinkOk(c) == c.sm.portEnabled \/ c.sm.initialize

\* A forced port is left through LOGOFF, and stays asked for.
ModeOk(c) ==
    c.sm.sPortMode # "AUTO" =>
        /\ c.sm.portControl # "AUTO"
        /\ c.sm.curState \in {"LOGOFF", "S_FORCE_AUTH"}

\* BackendFollowsPae of a context.
Follows(c) ==
    \/ BackendQuiet(c) \/ c.sm.curState = "AUTHENTICATING"
    \/ c.sm.suppAbort \/ c.sm.curState \in {"LOGOFF", "S_FORCE_AUTH"}

\* After a failure the backend is quiet, or waits with the failure still set
\* in the EAP machine, which makes it quiet in the next run; after a timeout
\* it is quiet, or has a frame for which the conversation starts again.
VerdictQuiets(c) ==
    c.sm.curState = "AUTHENTICATING" =>
        /\ c.sm.suppFail => \/ BackendQuiet(c)
                            \/ c.sm.beCurState = "RECEIVE" /\ c.eap.eapFail
        /\ c.sm.suppTimeout => BackendQuiet(c) \/ c.sm.eapolEap
        /\ c.sm.beCurState = "RECEIVE" /\ c.eap.eapFail => c.sm.suppFail

Follow(c) == Follows(c) /\ VerdictQuiets(c)

PortInv(c) == LinkOk(c) /\ ModeOk(c) /\ Follow(c)

(***************************************************************************)
(* A step of the port, for two contexts: nothing, Prove or StartAgain,     *)
(* Grant, GiveUp, Close.                                                   *)
(***************************************************************************)
Forced(c) == c.sm.curState = "S_FORCE_AUTH"

Opened(c) == c.sm.suppPortStatus = "AUTHORIZED"

SamePort(c, d) == d.sm.suppPortStatus = c.sm.suppPortStatus

PortStep(c, d) ==
    \/ SamePort(c, d) /\ (Forced(c) <=> Forced(d))
                      /\ (c.eap.won <=> d.eap.won)
    \/ ~Forced(c) /\ ~Forced(d) /\ SamePort(c, d)
    \/ ~Forced(c) /\ ~Forced(d) /\ Opened(d) /\ c.eap.won /\ d.eap.won
    \/ Forced(d) /\ Opened(d) /\ (d.eap.won => c.eap.won)
    \/ ~Forced(d) /\ ~Opened(d) /\ (d.eap.won => c.eap.won)

(***************************************************************************)
(* Contexts as records: which fields there are is all that most of the     *)
(* operators depend on.                                                    *)
(***************************************************************************)
Shaped(c) ==
    /\ DOMAIN c = {"sm", "eap", "recvframe", "conn", "prof", "out"}
    /\ DOMAIN c.sm = DOMAIN NewSm(TRUE)

WithEap(c) == Shaped(c) /\ DOMAIN c.eap = DOMAIN NewEap

LEMMA ContextsShaped ==
  ASSUME NEW c \in Contexts
  PROVE  WithEap(c)
<1>1. c.sm \in SmStates /\ c.eap \in EapStates
  BY AllowedMethods
<1>2. DOMAIN c.sm = DOMAIN NewSm(TRUE)
  BY <1>1 DEF SmStates, NewSm
<1>3. DOMAIN c.eap = DOMAIN NewEap
  BY <1>1 DEF EapStates, NewEap
<1> QED
  BY <1>2, <1>3 DEF WithEap, Shaped, Contexts

(***************************************************************************)
(* The backend machine.                                                    *)
(***************************************************************************)
\* The backend leaves the port alone.
KeepsPort(c, d) ==
    /\ Shaped(d) /\ SamePort(c, d)
    /\ d.sm.curState = c.sm.curState
    /\ d.sm.sPortMode = c.sm.sPortMode
    /\ d.sm.portControl = c.sm.portControl
    /\ d.sm.portEnabled = c.sm.portEnabled

LEMMA OpsPort ==
  ASSUME NEW c, Shaped(c), NEW in
  PROVE  /\ KeepsPort(c, BeIdle(c)) /\ KeepsPort(c, BeInitialize(c))
         /\ KeepsPort(c, BeFail(c)) /\ KeepsPort(c, BeTimeout(c))
         /\ KeepsPort(c, BeSuccess(c)) /\ KeepsPort(c, BeReceive(c))
         /\ KeepsPort(c, RunEap(c, in)) /\ KeepsPort(c, BeResponse(c))
         /\ KeepsPort(c, BeRequest(c, in))
<1> USE DEF Shaped, NewSm, KeepsPort, SamePort
<1>1. KeepsPort(c, BeIdle(c)) /\ KeepsPort(c, BeInitialize(c))
  <2>1. PICK i : i = [AbortSupp(c) EXCEPT !.sm.suppAbort = FALSE,
                                          !.sm.initialize = FALSE]
    OBVIOUS
  <2>2. KeepsPort(c, i)
    BY <2>1 DEF AbortSupp
  <2>3. BeInitialize(c) = BeIdle(i)
    BY <2>1 DEF BeInitialize
  <2>4. KeepsPort(c, BeIdle(c))
    BY DEF BeIdle
  <2>5. KeepsPort(c, BeIdle(i))
    BY <2>2 DEF BeIdle
  <2> QED
    BY <2>3, <2>4, <2>5
<1>2. KeepsPort(c, BeFail(c)) /\ KeepsPort(c, BeTimeout(c))
      /\ KeepsPort(c, BeSuccess(c))
  BY DEF BeIdle, BeFail, BeTimeout, BeSuccess
<1>3. KeepsPort(c, BeReceive(c))
  BY DEF BeReceive
<1>4. ASSUME NEW d, Shaped(d) PROVE KeepsPort(d, RunEap(d, in))
  <2>1. PICK e : e = EapRun(SyncLowerToPeer(d).eap, in.m, in.ub)
    OBVIOUS
  <2> QED
    BY <1>4, <2>1 DEF RunEap, SyncLowerToPeer, SyncPeerToLower
<1>5. KeepsPort(c, BeResponse(c))
  <2>1. PICK d : d = TxSuppRsp(c)
    OBVIOUS
  <2>2. KeepsPort(c, d)
    BY <2>1 DEF TxSuppRsp, Transmit
  <2> QED
    BY <2>1, <2>2 DEF BeResponse, BeReceive
<1>6. KeepsPort(c, BeRequest(c, in))
  <2>1. PICK d : d = TakeFrame([c EXCEPT !.sm.authWhile = 0,
                                         !.sm.eapReq = TRUE,
                                         !.sm.beCurState = "REQUEST"])
    OBVIOUS
  <2>2. KeepsPort(c, d)
    BY <2>1 DEF TakeFrame
  <2>3. BeRequest(c, in) = RunEap(d, in)
    BY <2>1 DEF BeRequest, GetSuppRsp
  <2> QED
    BY <1>4, <2>2, <2>3
<1> QED
  BY <1>1, <1>2, <1>3, <1>4, <1>5, <1>6

LEMMA BackendPort ==
  ASSUME NEW c, Shaped(c), NEW in
  PROVE  KeepsPort(c, BackendRun(c, in))
<1> DEFINE S(d) == KeepsPort(c, d)
<1>1. ASSUME NEW d, S(d)
      PROVE  /\ S(BeIdle(d)) /\ S(BeInitialize(d)) /\ S(BeFail(d))
             /\ S(BeTimeout(d)) /\ S(BeSuccess(d)) /\ S(BeReceive(d))
             /\ S(RunEap(d, in)) /\ S(BeResponse(d)) /\ S(BeRequest(d, in))
  BY <1>1, OpsPort DEF KeepsPort, SamePort
<1>2. S(c)
  BY DEF KeepsPort, SamePort
<1> HIDE DEF S
<1>3. ASSUME NEW d, S(d)
      PROVE  /\ S(Failed(d)) /\ S(Succeeded(d)) /\ S(Silent(d))
             /\ S(Answered(d)) /\ S(TimedOut(d)) /\ S(Heard(d, in))
             /\ S(FailedIfAsked(d)) /\ S(HeardIfAsked(d, in))
             /\ S(SucceededIfAsked(d))
  BY <1>1, <1>3 DEF Failed, Succeeded, Silent, Answered, TimedOut, Heard,
     FailedIfAsked, HeardIfAsked, SucceededIfAsked
<1>4. ASSUME NEW d, S(d)
      PROVE  /\ S(BeDoIdle(d, in)) /\ S(BeDoRequest(d))
             /\ S(BeDoReceive(d, in))
  BY <1>3, <1>4 DEF BeDoIdle, BeDoRequest, BeDoReceive
<1>5. S(BeGlobals(c, in))
  BY <1>1, <1>2 DEF BeGlobals, Aborted, Restarted
<1>6. S(BackendRun(c, in))
  BY <1>4, <1>5 DEF BackendRun, BeDo
<1> QED
  BY <1>6 DEF S

\* An abort is all that the backend begins with, unless it is to restart.
LEMMA GlobalsWithoutRestart ==
  ASSUME NEW c, Shaped(c), ~c.sm.eapRestart, NEW in
  PROVE  BeGlobals(c, in) = IF c.sm.initialize \/ c.sm.suppAbort
                            THEN BeInitialize(c) ELSE c
<1>1. PICK a : a = AbortSupp(c)
  OBVIOUS
<1>2. Shaped(a) /\ ~a.sm.eapRestart
  BY <1>1 DEF AbortSupp, Shaped, NewSm
<1>3. ~BeInitialize(c).sm.eapRestart
  BY <1>1, <1>2 DEF BeInitialize, BeIdle, Shaped, NewSm
<1> QED
  BY <1>3 DEF BeGlobals, Aborted, Restarted

\* Without a frame, or aborted, it leaves the EAP machine's verdict alone,
\* and no frame turns up.
LEMMA BackendWithoutFrame ==
  ASSUME NEW c, WithEap(c), ~c.sm.eapRestart, NEW in,
         c.sm.suppAbort \/ ~c.sm.eapolEap
  PROVE  /\ BackendRun(c, in).eap.won = c.eap.won
         /\ ~c.sm.eapolEap => ~BackendRun(c, in).sm.eapolEap
<1> DEFINE S(d) == /\ WithEap(d) /\ ~d.sm.eapRestart /\ ~d.sm.eapolEap
                   /\ d.eap.won = c.eap.won
           init == c.sm.initialize \/ c.sm.suppAbort
<1>1. BeGlobals(c, in) = IF init THEN BeInitialize(c) ELSE c
  BY GlobalsWithoutRestart DEF WithEap
<1>2. CASE init
  <2>1. PICK d : d = BeInitialize(c)
    OBVIOUS
  <2>2. /\ d.sm.beCurState = "IDLE" /\ ~d.sm.suppStart
        /\ d.eap.won = c.eap.won /\ d.sm.eapolEap = c.sm.eapolEap
    BY <2>1 DEF BeInitialize, BeIdle, AbortSupp, WithEap, Shaped, NewSm, NewEap
  <2>3. BackendRun(c, in) = BeDoIdle(d, in)
    BY <1>1, <1>2, <2>1, <2>2 DEF BackendRun, BeDo
  <2> QED
    BY <2>2, <2>3, BeDoIdleQuiet
<1>3. CASE ~init
  <2>1. ASSUME NEW d, S(d)
        PROVE  /\ S(BeIdle(d)) /\ S(BeFail(d)) /\ S(BeTimeout(d))
               /\ S(BeSuccess(d)) /\ S(BeReceive(d)) /\ S(BeResponse(d))
    <3> USE DEF WithEap, Shaped, NewSm, NewEap
    <3>1. S(BeIdle(d)) /\ S(BeFail(d))
      BY <2>1 DEF BeIdle, BeFail
    <3>2. S(BeTimeout(d)) /\ S(BeSuccess(d))
      BY <2>1 DEF BeIdle, BeTimeout, BeSuccess
    <3>3. ASSUME NEW x, S(x) PROVE S(BeReceive(x))
      BY <3>3 DEF BeReceive
    <3>4. PICK x : x = TxSuppRsp(d)
      OBVIOUS
    <3>5. S(x)
      BY <2>1, <3>4 DEF TxSuppRsp, Transmit
    <3>6. S([x EXCEPT !.eap.respData = NullResp])
      BY <3>5
    <3> HIDE DEF S
    <3>7. S(BeResponse(d))
      BY <3>3, <3>4, <3>6 DEF BeResponse
    <3> QED
      BY <2>1, <3>1, <3>2, <3>3, <3>7
  <2>2. S(c)
    BY <1>3
  <2>3. ASSUME NEW d, S(d) PROVE Heard(d, in) = d
    BY <2>3 DEF Heard
  <2> HIDE DEF S
  <2>4. ASSUME NEW d, S(d)
        PROVE  /\ S(Failed(d)) /\ S(Succeeded(d)) /\ S(Silent(d))
               /\ S(Answered(d)) /\ S(TimedOut(d)) /\ S(Heard(d, in))
               /\ S(FailedIfAsked(d)) /\ S(HeardIfAsked(d, in))
               /\ S(SucceededIfAsked(d))
    BY <2>1, <2>3, <2>4 DEF Failed, Succeeded, Silent, Answered, TimedOut,
       FailedIfAsked, HeardIfAsked, SucceededIfAsked
  <2>5. S(BackendRun(c, in))
    BY <1>1, <1>3, <2>2, <2>4
       DEF BackendRun, BeDo, BeDoIdle, BeDoRequest, BeDoReceive
  <2> QED
    BY <2>5 DEF S
<1> QED
  BY <1>2, <1>3

\* What the port access entity leaves to the backend: a run of it restores
\* Follow.
Ready(c) ==
    \/ c.sm.initialize \/ c.sm.suppAbort \/ BackendQuiet(c)
    \/ /\ c.sm.curState = "AUTHENTICATING"
       /\ ~c.sm.suppFail /\ ~c.sm.suppTimeout
       /\ c.sm.beCurState = "RECEIVE" => ~c.eap.eapFail
    \/ c.sm.beCurState = "RECEIVE" /\ c.eap.eapFail /\ ~c.sm.eapolEap

\* The operations of the backend, as far as Follow looks at them.
LEMMA OpsVerdict ==
  ASSUME NEW c, WithEap(c), NEW in
  PROVE  /\ WithEap(BeFail(c)) /\ BackendQuiet(BeFail(c))
         /\ BeFail(c).sm.suppTimeout = c.sm.suppTimeout
         /\ BeFail(c).sm.eapolEap = c.sm.eapolEap
         /\ BeFail(c).eap = c.eap
         /\ WithEap(BeTimeout(c)) /\ BackendQuiet(BeTimeout(c))
         /\ BeTimeout(c).sm.suppFail = c.sm.suppFail
         /\ BeTimeout(c).sm.eapolEap = c.sm.eapolEap
         /\ BeTimeout(c).eap = c.eap
         /\ WithEap(BeSuccess(c)) /\ BackendQuiet(BeSuccess(c))
         /\ BeSuccess(c).sm.suppFail = c.sm.suppFail
         /\ BeSuccess(c).sm.suppTimeout = c.sm.suppTimeout
         /\ BeSuccess(c).sm.eapolEap = c.sm.eapolEap
         /\ BeSuccess(c).eap = c.eap
  BY DEF BeFail, BeTimeout, BeSuccess, BeIdle, BackendQuiet, WithEap, Shaped,
         NewSm, NewEap

LEMMA OpsWait ==
  ASSUME NEW c, WithEap(c)
  PROVE  \A d \in {BeReceive(c), BeResponse(c)} :
            /\ WithEap(d) /\ d.sm.beCurState = "RECEIVE"
            /\ d.sm.suppFail = c.sm.suppFail
            /\ d.sm.suppTimeout = c.sm.suppTimeout
            /\ d.eap.eapFail = c.eap.eapFail
<1> USE DEF WithEap, Shaped, NewSm, NewEap
<1>1. PICK x : x = TxSuppRsp(c)
  OBVIOUS
<1>2. /\ WithEap(x) /\ x.sm.suppFail = c.sm.suppFail
      /\ x.sm.suppTimeout = c.sm.suppTimeout
      /\ x.eap.eapFail = c.eap.eapFail
  BY <1>1 DEF TxSuppRsp, Transmit
<1>3. PICK y : y = [x EXCEPT !.eap.respData = NullResp]
  OBVIOUS
<1>4. /\ WithEap(y) /\ y.sm = x.sm /\ y.eap.eapFail = x.eap.eapFail
  BY <1>2, <1>3
<1>5. BeResponse(c) = BeReceive(y)
  BY <1>1, <1>3 DEF BeResponse
<1>6. ASSUME NEW d, WithEap(d)
      PROVE  LET r == BeReceive(d)
             IN  /\ WithEap(r) /\ r.sm.beCurState = "RECEIVE"
                 /\ r.sm.suppFail = d.sm.suppFail
                 /\ r.sm.suppTimeout = d.sm.suppTimeout
                 /\ r.eap.eapFail = d.eap.eapFail
  BY <1>6 DEF BeReceive
<1> HIDE DEF WithEap
<1> QED
  BY <1>2, <1>4, <1>5, <1>6

LEMMA RequestVerdict ==
  ASSUME NEW c, WithEap(c), NEW in
  PROVE  LET d == BeRequest(c, in)
         IN  /\ Shaped(d) /\ d.sm.beCurState = "REQUEST"
             /\ d.sm.suppFail = c.sm.suppFail
             /\ d.sm.suppTimeout = c.sm.suppTimeout
             /\ d.sm.eapolEap = c.sm.eapolEap
<1> USE DEF WithEap, Shaped, NewSm
<1>1. PICK x : x = TakeFrame([c EXCEPT !.sm.authWhile = 0,
                                       !.sm.eapReq = TRUE,
                                       !.sm.beCurState = "REQUEST"])
  OBVIOUS
<1>2. /\ Shaped(x) /\ x.sm.beCurState = "REQUEST"
      /\ x.sm.suppFail = c.sm.suppFail
      /\ x.sm.suppTimeout = c.sm.suppTimeout
      /\ x.sm.eapolEap = c.sm.eapolEap
  BY <1>1 DEF TakeFrame
<1>3. BeRequest(c, in) = RunEap(x, in)
  BY <1>1 DEF BeRequest, GetSuppRsp
<1>4. PICK s : s = SyncLowerToPeer(x)
  OBVIOUS
<1>5. Shaped(s) /\ s.sm = x.sm
  BY <1>2, <1>4 DEF SyncLowerToPeer
<1>6. PICK e : e = EapRun(s.eap, in.m, in.ub)
  OBVIOUS
<1>7. RunEap(x, in) = SyncPeerToLower(s, e)
  BY <1>4, <1>6 DEF RunEap
<1> QED
  BY <1>2, <1>3, <1>5, <1>7 DEF SyncPeerToLower

\* BeSuccess after a request: only the state of the backend matters then.
LEMMA SuccessQuiet ==
  ASSUME NEW c, Shaped(c)
  PROVE  BackendQuiet(BeSuccess(c))
  BY DEF BeSuccess, BeIdle, BackendQuiet, Shaped, NewSm

LEMMA QuietFollows ==
  ASSUME NEW c, BackendQuiet(c)
  PROVE  Follow(c)
  BY DEF Follow, Follows, VerdictQuiets, BackendQuiet

\* A run of the backend that was told what happened to the conversation.
LEMMA BackendFollow ==
  ASSUME NEW c, WithEap(c), ~c.sm.eapRestart, Ready(c), NEW in
  PROVE  Follow(BackendRun(c, in))
<1> DEFINE init == c.sm.initialize \/ c.sm.suppAbort
           D == BackendRun(c, in)
<1>1. BeGlobals(c, in) = IF init THEN BeInitialize(c) ELSE c
  BY GlobalsWithoutRestart DEF WithEap
<1>2. CASE init
  <2>1. PICK d : d = BeInitialize(c)
    OBVIOUS
  <2>2. d.sm.beCurState = "IDLE" /\ ~d.sm.suppStart
    BY <2>1 DEF BeInitialize, BeIdle, AbortSupp, WithEap, Shaped, NewSm
  <2>3. D = d
    BY <1>1, <1>2, <2>1, <2>2, BeDoIdleQuiet DEF BackendRun, BeDo
  <2> QED
    BY <2>2, <2>3, QuietFollows DEF BackendQuiet
<1>3. CASE ~init /\ BackendQuiet(c)
  <2>1. D = c
    BY <1>1, <1>3, BeDoIdleQuiet DEF BackendRun, BeDo, BackendQuiet
  <2> QED
    BY <1>3, <2>1, QuietFollows
<1>4. CASE /\ ~init /\ c.sm.beCurState = "RECEIVE" /\ c.eap.eapFail
           /\ ~c.sm.eapolEap
  <2>1. PICK a : a = BeFail(c)
    OBVIOUS
  <2>2. WithEap(a) /\ BackendQuiet(a) /\ ~a.sm.eapolEap
    BY <1>4, <2>1, OpsVerdict
  <2>3. PICK b : b = TimedOut(a)
    OBVIOUS
  <2>4. WithEap(b) /\ BackendQuiet(b) /\ ~b.sm.eapolEap
    BY <2>2, <2>3, OpsVerdict DEF TimedOut
  <2>5. PICK d : d = Succeeded(b)
    OBVIOUS
  <2>6. BackendQuiet(d) /\ ~d.sm.eapolEap
    BY <2>4, <2>5, OpsVerdict DEF Succeeded
  <2>7. D = d
    BY <1>1, <1>4, <2>1, <2>3, <2>5, <2>6
       DEF BackendRun, BeDo, BeDoReceive, Failed, Heard
  <2> QED
    BY <2>6, <2>7, QuietFollows
<1>5. CASE /\ ~init /\ c.sm.curState = "AUTHENTICATING"
           /\ ~c.sm.suppFail /\ ~c.sm.suppTimeout
           /\ c.sm.beCurState = "RECEIVE" => ~c.eap.eapFail
  <2>1. D.sm.curState = "AUTHENTICATING" /\ D = BeDo(c, in)
    BY <1>1, <1>5, BackendPort DEF BackendRun, KeepsPort, WithEap
  <2> SUFFICES VerdictQuiets(BeDo(c, in))
    BY <2>1 DEF Follow, Follows
  <2>2. ASSUME NEW d, BackendQuiet(d) PROVE VerdictQuiets(d)
    BY <2>2 DEF VerdictQuiets, BackendQuiet
  <2>3. CASE c.sm.beCurState = "IDLE"
    <3>1. PICK a : a = FailedIfAsked(c)
      OBVIOUS
    <3>2. /\ WithEap(a) /\ ~a.sm.suppTimeout
          /\ BackendQuiet(a) \/ a = c
      BY <1>5, <3>1, OpsVerdict DEF FailedIfAsked, Failed
    <3>3. CASE BackendQuiet(a)
      <4>1. BeDo(c, in) = a
        BY <2>3, <3>1, <3>3
           DEF BeDo, BeDoIdle, HeardIfAsked, SucceededIfAsked, BackendQuiet
      <4> QED
        BY <2>2, <3>3, <4>1
    <3>4. CASE a = c
      <4>1. PICK b : b = HeardIfAsked(a, in)
        OBVIOUS
      <4>2. /\ Shaped(b) /\ ~b.sm.suppTimeout /\ ~b.sm.suppFail
            /\ b.sm.beCurState # "RECEIVE"
        BY <1>5, <2>3, <3>2, <3>4, <4>1, RequestVerdict
           DEF HeardIfAsked, Heard, WithEap
      <4>3. BeDo(c, in) \in {b, BeSuccess(b)}
        BY <2>3, <3>1, <4>1
           DEF BeDo, BeDoIdle, SucceededIfAsked, Succeeded
      <4> QED
        BY <2>2, <4>2, <4>3, SuccessQuiet DEF VerdictQuiets
    <3> QED
      BY <3>2, <3>3, <3>4
  <2>4. CASE c.sm.beCurState = "REQUEST"
    <3> DEFINE T(d) ==
                 /\ WithEap(d) /\ ~d.sm.suppTimeout
                 /\ d.sm.suppFail =>
                       \/ BackendQuiet(d)
                       \/ d.sm.beCurState = "RECEIVE" /\ d.eap.eapFail
                 /\ d.sm.beCurState = "RECEIVE" /\ d.eap.eapFail =>
                       d.sm.suppFail
               F(d) == d.eap.eapFail => d.sm.suppFail /\ BackendQuiet(d)
    <3>1. PICK a : a = Failed(c)
      OBVIOUS
    <3>2. T(a) /\ (a.eap.eapFail => a.sm.suppFail)
          /\ (a.sm.suppFail => a.eap.eapFail)
      <4>1. CASE c.eap.eapFail
        <5>1. a = BeFail(c)
          BY <3>1, <4>1 DEF Failed
        <5>2. a.sm.suppFail
          BY <5>1 DEF BeFail, BeIdle, WithEap, Shaped, NewSm
        <5> QED
          BY <1>5, <4>1, <5>1, <5>2, OpsVerdict
      <4>2. CASE ~c.eap.eapFail
        BY <1>5, <2>4, <3>1, <4>2 DEF Failed
      <4> QED
        BY <4>1, <4>2
    <3>3. ASSUME NEW d, T(d), d.eap.eapFail <=> d.sm.suppFail,
                 NEW x \in {BeReceive(d), BeResponse(d)}
          PROVE  T(x) /\ (x.eap.eapFail <=> x.sm.suppFail)
      BY <3>3, OpsWait
    <3>4. PICK b : b = Silent(a)
      OBVIOUS
    <3>5. T(b) /\ (b.eap.eapFail <=> b.sm.suppFail)
      BY <3>2, <3>3, <3>4 DEF Silent
    <3>6. PICK d : d = Answered(b)
      OBVIOUS
    <3>7. T(d) /\ (d.eap.eapFail <=> d.sm.suppFail)
      BY <3>3, <3>5, <3>6 DEF Answered
    <3>8. BeDo(c, in) \in {d, BeSuccess(d)}
      BY <2>4, <3>1, <3>4, <3>6 DEF BeDo, BeDoRequest, Succeeded
    <3>9. VerdictQuiets(d)
      BY <3>7 DEF VerdictQuiets
    <3> QED
      BY <2>2, <3>7, <3>8, <3>9, SuccessQuiet DEF WithEap
  <2>5. CASE c.sm.beCurState = "RECEIVE"
    <3>1. Failed(c) = c
      BY <1>5, <2>5 DEF Failed
    <3>2. PICK a : a = TimedOut(c)
      OBVIOUS
    <3>3. /\ WithEap(a) /\ ~a.sm.suppFail /\ a.eap = c.eap
          /\ a.sm.eapolEap = c.sm.eapolEap
          /\ a = c \/ BackendQuiet(a)
      BY <1>5, <3>2, OpsVerdict DEF TimedOut
    <3>4. PICK b : b = Succeeded(a)
      OBVIOUS
    <3>5. /\ WithEap(b) /\ ~b.sm.suppFail /\ b.eap = c.eap
          /\ b = c \/ BackendQuiet(b)
      BY <3>3, <3>4, OpsVerdict DEF Succeeded
    <3>6. BeDo(c, in) = Heard(b, in)
      BY <2>5, <3>1, <3>2, <3>4 DEF BeDo, BeDoReceive
    <3>7. CASE b.sm.eapolEap
      BY <3>5, <3>6, <3>7, RequestVerdict DEF Heard, VerdictQuiets
    <3>8. CASE ~b.sm.eapolEap
      BY <1>5, <2>2, <2>5, <3>5, <3>6, <3>8 DEF Heard, VerdictQuiets
    <3> QED
      BY <3>7, <3>8
  <2>6. CASE c.sm.beCurState \notin {"IDLE", "REQUEST", "RECEIVE"}
    BY <1>5, <2>6 DEF BeDo, VerdictQuiets
  <2> QED
    BY <2>3, <2>4, <2>5, <2>6
<1> QED
  BY <1>2, <1>3, <1>4, <1>5 DEF Ready

(***************************************************************************)
(* The port access entity, in the states that are not forced.              *)
(***************************************************************************)
\* The port stays, is closed, or opens by the success of the conversation;
\* what the backend then does with the EAP machine is known by the frame.
Onward(c, d) ==
    /\ Ready(d) /\ ~Forced(d) /\ d.sm.sPortMode = "AUTO"
    /\ \/ SamePort(c, d)
       \/ /\ ~Opened(d) /\ d.eap.won = c.eap.won
          /\ d.sm.suppAbort \/ ~d.sm.eapolEap
       \/ Opened(d) /\ c.eap.won /\ d.eap.won /\ ~d.sm.eapolEap

LEMMA DisconnectedPort ==
  ASSUME NEW c, Shaped(c)
  PROVE  LET d == ToDisconnected(c)
         IN  /\ Shaped(d) /\ d.eap = c.eap /\ ~Opened(d)
             /\ d.sm.curState = "DISCONNECTED" /\ d.sm.suppAbort
             /\ d.sm.sPortMode = "AUTO"
             /\ d.sm.initialize = c.sm.initialize
             /\ d.sm.portEnabled = c.sm.portEnabled
             /\ Onward(c, d)
<1> DEFINE d == ToDisconnected(c)
<1> DEFINE e == [c EXCEPT !.sm.sPortMode = "AUTO", !.sm.startCount = 0,
                          !.sm.logoffSent = FALSE]
<1>1. /\ Shaped(e) /\ e.eap = c.eap /\ e.sm.sPortMode = "AUTO"
      /\ e.sm.initialize = c.sm.initialize
      /\ e.sm.portEnabled = c.sm.portEnabled
  BY DEF Shaped, NewSm
<1>2. d = [e EXCEPT !.sm.suppPortStatus = "UNAUTHORIZED",
                    !.sm.suppAbort = TRUE, !.sm.curState = "DISCONNECTED"]
  BY DEF ToDisconnected
<1> HIDE DEF d, e
<1>3. /\ Shaped(d) /\ d.eap = c.eap /\ ~Opened(d)
      /\ d.sm.curState = "DISCONNECTED" /\ d.sm.suppAbort
      /\ d.sm.sPortMode = "AUTO"
      /\ d.sm.initialize = c.sm.initialize
      /\ d.sm.portEnabled = c.sm.portEnabled
  BY <1>1, <1>2 DEF Shaped, NewSm, Opened
<1>4. Onward(c, d)
  BY <1>3 DEF Onward, Ready, Forced
<1> QED
  BY <1>3, <1>4 DEF d

LEMMA ForcedPort ==
  ASSUME NEW c, Shaped(c)
  PROVE  LET d == ToForceAuth(c)
         IN  /\ Shaped(d) /\ d.eap = c.eap /\ Opened(d) /\ Forced(d)
             /\ d.sm.portControl = "FORCE_AUTHORIZED"
             /\ d.sm.initialize = c.sm.initialize
             /\ d.sm.portEnabled = c.sm.portEnabled
  BY DEF ToForceAuth, Shaped, NewSm, Opened, Forced

\* AUTHENTICATING starts with no verdict.
LEMMA AuthenticatingPort ==
  ASSUME NEW c, Shaped(c), c.sm.sPortMode = "AUTO",
         c.sm.beCurState \in {"UNKNOWN", "IDLE"} \/ c.sm.suppAbort
  PROVE  Onward(c, ToAuthenticating(c))
<1> DEFINE d == [ForgetVerdict(c) EXCEPT
                    !.sm.startCount = 0, !.sm.suppStart = TRUE,
                    !.sm.curState = "AUTHENTICATING"]
<1>1. PICK v : v = ForgetVerdict(c)
  OBVIOUS
<1>2. /\ Shaped(v) /\ v.sm.sPortMode = "AUTO" /\ SamePort(c, v)
      /\ v.sm.beCurState = c.sm.beCurState
      /\ v.sm.suppAbort = c.sm.suppAbort
      /\ ~v.sm.suppFail /\ ~v.sm.suppTimeout
  BY <1>1 DEF ForgetVerdict, Shaped, NewSm, SamePort
<1>3. /\ d.sm.sPortMode = "AUTO" /\ SamePort(c, d)
      /\ d.sm.beCurState = c.sm.beCurState
      /\ d.sm.suppAbort = c.sm.suppAbort
      /\ ~d.sm.suppFail /\ ~d.sm.suppTimeout
      /\ d.sm.curState = "AUTHENTICATING"
  BY <1>1, <1>2 DEF Shaped, NewSm, SamePort
<1>4. ToAuthenticating(c) \in {d, ToDisconnected(c)}
  BY DEF ToAuthenticating
<1> HIDE DEF d
<1>5. Onward(c, d)
  BY <1>3 DEF Onward, Ready, Forced
<1> QED
  BY <1>4, <1>5, DisconnectedPort

\* Asked to restart, the backend comes back idle.
LEMMA RestartIdle ==
  ASSUME NEW c, Shaped(c), c.sm.eapRestart, NEW in
  PROVE  BackendRun(c, in).sm.beCurState = "IDLE"
<1>1. PICK a : a = Aborted(c)
  OBVIOUS
<1>2. Shaped(a) /\ a.sm.eapRestart
  BY <1>1 DEF Aborted, BeInitialize, BeIdle, AbortSupp, Shaped, NewSm
<1>3. PICK i : i = BeInitialize(a)
  OBVIOUS
<1>4. Shaped(i) /\ i.sm.beCurState = "IDLE" /\ ~i.sm.suppStart
  BY <1>2, <1>3 DEF BeInitialize, BeIdle, AbortSupp, Shaped, NewSm
<1>5. PICK g : g = RunEap(i, in)
  OBVIOUS
<1>6. PICK e : e = EapRun(SyncLowerToPeer(i).eap, in.m, in.ub)
  OBVIOUS
<1>7. g.sm.beCurState = "IDLE" /\ ~g.sm.suppStart
  BY <1>4, <1>5, <1>6
     DEF RunEap, SyncLowerToPeer, SyncPeerToLower, Shaped, NewSm
<1>8. BeGlobals(c, in) = g
  BY <1>1, <1>2, <1>3, <1>5 DEF BeGlobals, Restarted
<1> QED
  BY <1>7, <1>8, BeDoIdleQuiet DEF BackendRun, BeDo

\* RESTART goes on to AUTHENTICATING, unless it was not expected.
LEMMA RestartPort ==
  ASSUME NEW c, Shaped(c), c.sm.sPortMode = "AUTO", NEW in,
         Entered(ToRestart(c, in))
  PROVE  Onward(c, ToRestart(c, in))
<1>1. PICK m : m = [c EXCEPT !.sm.eapRestart = TRUE,
                             !.sm.curState = "RESTART",
                             !.sm.portControl = "AUTO", !.sm.eapReq = FALSE]
  OBVIOUS
<1>2. /\ Shaped(m) /\ SamePort(c, m) /\ m.sm.sPortMode = "AUTO"
      /\ m.sm.curState = "RESTART" /\ m.sm.eapRestart
  BY <1>1 DEF Shaped, NewSm, SamePort
<1>3. PICK b : b = BackendRun(m, in)
  OBVIOUS
<1>4. /\ Shaped(b) /\ SamePort(c, b) /\ b.sm.sPortMode = "AUTO"
      /\ b.sm.curState = "RESTART" /\ b.sm.beCurState = "IDLE"
  BY <1>2, <1>3, BackendPort, RestartIdle DEF KeepsPort, SamePort
<1>5. PICK q : q = c.sm.eapReq
  OBVIOUS
<1>6. PICK r : r = [b EXCEPT !.sm.eapReq = q]
  OBVIOUS
<1>7. /\ Shaped(r) /\ SamePort(c, r) /\ r.sm.sPortMode = "AUTO"
      /\ r.sm.curState = "RESTART" /\ r.sm.beCurState = "IDLE"
  BY <1>4, <1>6 DEF Shaped, NewSm, SamePort
<1>8. ToRestart(c, in) \in {ToDisconnected(c), DoRestart(r)}
  BY <1>1, <1>3, <1>5, <1>6 DEF ToRestart
<1>9. CASE ToRestart(c, in) = DoRestart(r)
  <2>1. DoRestart(r) = ToAuthenticating(r)
    BY <1>7, <1>9 DEF DoRestart, Entered
  <2>2. Onward(r, ToAuthenticating(r))
    BY <1>7, AuthenticatingPort
  <2>3. SamePort(r, ToAuthenticating(r))
    BY <1>7 DEF ToAuthenticating, ForgetVerdict, Shaped, NewSm, SamePort
  <2> QED
    BY <1>7, <1>9, <2>1, <2>2, <2>3 DEF Onward, SamePort
<1> QED
  BY <1>8, <1>9, DisconnectedPort

\* CONNECTING is entered with a quiet backend, or with a frame to begin with.
LEMMA ConnectingPort ==
  ASSUME NEW c, Shaped(c), c.sm.sPortMode = "AUTO", NEW in,
         Entered(ToConnecting(c, in)),
         BackendQuiet(c) \/ c.sm.suppAbort \/ c.sm.eapolEap
  PROVE  Onward(c, ToConnecting(c, in))
<1>1. PICK d : d = [c EXCEPT !.sm.curState = "CONNECTING"]
  OBVIOUS
<1>2. /\ Shaped(d) /\ SamePort(c, d) /\ d.sm.sPortMode = "AUTO"
      /\ d.sm.eapolEap = c.sm.eapolEap /\ d.eap = c.eap
      /\ d.sm.suppAbort = c.sm.suppAbort
      /\ BackendQuiet(c) => BackendQuiet(d)
      /\ d.sm.curState = "CONNECTING"
  BY <1>1 DEF Shaped, NewSm, SamePort, BackendQuiet
<1> DEFINE Waits(x) ==
             /\ Shaped(x) /\ SamePort(c, x) /\ x.sm.sPortMode = "AUTO"
             /\ x.sm.suppAbort \/ BackendQuiet(x)
             /\ x.sm.curState = "CONNECTING"
<1>3. PICK w : w = [d EXCEPT !.sm.startWhen = StartPeriod]
  OBVIOUS
<1>4. PICK s : s = TxStart(w)
  OBVIOUS
<1>5. PICK z : z = [s EXCEPT !.sm.startCount = (@ + 1) % 256]
  OBVIOUS
<1>6. ToConnecting(c, in) \in {ToDisconnected(c), ToRestart(d, in), w, z}
  BY <1>1, <1>3, <1>4, <1>5 DEF ToConnecting
<1>7. CASE ToConnecting(c, in) = ToRestart(d, in)
  <2>1. Onward(d, ToRestart(d, in))
    BY <1>2, <1>7, RestartPort
  <2> QED
    BY <1>2, <1>7, <2>1 DEF Onward, SamePort
<1>8. CASE ~c.sm.eapolEap
  <2>1. Waits(d)
    BY <1>2, <1>8
  <2>2. Waits(w)
    BY <1>3, <2>1 DEF Shaped, NewSm, SamePort, BackendQuiet
  <2>3. Waits(s)
    BY <1>4, <2>2 DEF TxStart, Transmit, Shaped, NewSm, SamePort, BackendQuiet
  <2>4. Waits(z)
    BY <1>5, <2>3 DEF Shaped, NewSm, SamePort, BackendQuiet
  <2>5. ASSUME NEW x, Waits(x) PROVE Onward(c, x)
    BY <2>5 DEF Onward, Ready, Forced
  <2> QED
    BY <1>6, <1>7, <2>2, <2>4, <2>5, DisconnectedPort
<1>9. CASE c.sm.eapolEap
  BY <1>1, <1>2, <1>7, <1>9, DisconnectedPort DEF ToConnecting
<1> QED
  BY <1>8, <1>9

\* A state that is not left.
LEMMA StayPort ==
  ASSUME NEW c, ~Forced(c), c.sm.sPortMode = "AUTO", Ready(c)
  PROVE  Onward(c, c)
  BY DEF Onward, SamePort

LEMMA HeldPort ==
  ASSUME NEW c, Shaped(c), c.sm.curState = "AUTHENTICATING", c.sm.suppFail,
         Follow(c), c.sm.sPortMode = "AUTO"
  PROVE  Onward(c, ToHeld(c))
<1>1. PICK d : d = ToHeld(c)
  OBVIOUS
<1>2. /\ Shaped(d) /\ d.eap = c.eap /\ ~Opened(d)
      /\ d.sm.curState = "HELD" /\ ~d.sm.eapolEap
      /\ d.sm.sPortMode = "AUTO"
      /\ d.sm.beCurState = c.sm.beCurState
      /\ d.sm.suppStart = c.sm.suppStart
  BY <1>1 DEF ToHeld, Shaped, NewSm, Opened
<1> QED
  BY <1>1, <1>2
     DEF Onward, Ready, Forced, Follow, VerdictQuiets, BackendQuiet

LEMMA AuthenticatedPort ==
  ASSUME NEW c, Shaped(c), c.eap.won, BackendQuiet(c),
         c.sm.sPortMode = "AUTO"
  PROVE  Onward(c, ToAuthenticated(c))
<1>1. PICK d : d = ToAuthenticated(c)
  OBVIOUS
<1>2. /\ Shaped(d) /\ d.eap = c.eap /\ Opened(d)
      /\ d.sm.curState = "AUTHENTICATED" /\ ~d.sm.eapolEap
      /\ d.sm.sPortMode = "AUTO"
      /\ d.sm.beCurState = c.sm.beCurState
      /\ d.sm.suppStart = c.sm.suppStart
  BY <1>1 DEF ToAuthenticated, Shaped, NewSm, Opened
<1> QED
  BY <1>1, <1>2 DEF Onward, Ready, Forced, BackendQuiet

(***************************************************************************)
(* statemachine_do_*.                                                      *)
(***************************************************************************)
LEMMA ConnectingDoes ==
  ASSUME NEW c, WithEap(c), c.sm.curState = "CONNECTING", Follow(c),
         c.sm.sPortMode = "AUTO", NEW in, Entered(DoConnecting(c, in))
  PROVE  \/ Onward(c, DoConnecting(c, in))
         \/ DoConnecting(c, in) = ToForceAuth(c)
<1>1. Shaped(c) /\ ~Forced(c) /\ (c.sm.suppAbort \/ BackendQuiet(c))
  BY DEF WithEap, Forced, Follow, Follows
<1>2. PICK s : s = TxStart(c)
  OBVIOUS
<1>3. /\ Shaped(s) /\ s.sm = c.sm /\ SamePort(c, s)
      /\ s.sm.sPortMode = "AUTO"
  BY <1>1, <1>2 DEF TxStart, Transmit, Shaped, SamePort
<1>4. CASE DoConnecting(c, in) = ToConnecting(s, in)
  <2>1. Onward(s, ToConnecting(s, in))
    BY <1>1, <1>3, <1>4, ConnectingPort DEF BackendQuiet
  <2>2. s.eap = c.eap
    BY <1>1, <1>2 DEF TxStart, Transmit, Shaped
  <2> QED
    BY <1>3, <1>4, <2>1, <2>2 DEF Onward, SamePort
<1>5. CASE DoConnecting(c, in) = ToAuthenticating(c)
  BY <1>1, <1>5, AuthenticatingPort DEF BackendQuiet
<1>6. CASE DoConnecting(c, in) = ToRestart(c, in)
  BY <1>1, <1>6, RestartPort
<1>7. CASE DoConnecting(c, in) = c
  BY <1>1, <1>7, StayPort DEF Ready
<1> QED
  BY <1>2, <1>4, <1>5, <1>6, <1>7 DEF DoConnecting

LEMMA AuthenticatingDoes ==
  ASSUME NEW c, WithEap(c), c.sm.curState = "AUTHENTICATING", Follow(c),
         SuccessHolds(c), c.sm.sPortMode = "AUTO", NEW in,
         Entered(DoAuthenticating(c, in))
  PROVE  Onward(c, DoAuthenticating(c, in))
<1>1. Shaped(c) /\ ~Forced(c)
  BY DEF WithEap, Forced
<1>2. CASE c.sm.suppSuccess
  BY <1>1, <1>2, AuthenticatedPort DEF DoAuthenticating, SuccessHolds
<1>3. CASE ~c.sm.suppSuccess /\ c.sm.suppFail
  BY <1>1, <1>3, HeldPort DEF DoAuthenticating
<1>4. CASE ~c.sm.suppSuccess /\ ~c.sm.suppFail /\ c.sm.suppTimeout
  <2>1. DoAuthenticating(c, in) = ToConnecting(c, in)
    BY <1>4 DEF DoAuthenticating
  <2>2. BackendQuiet(c) \/ c.sm.eapolEap
    BY <1>4 DEF Follow, VerdictQuiets
  <2> QED
    BY <1>1, <2>1, <2>2, ConnectingPort
<1>5. CASE ~c.sm.suppSuccess /\ ~c.sm.suppFail /\ ~c.sm.suppTimeout
  <2>1. DoAuthenticating(c, in) = c
    BY <1>5 DEF DoAuthenticating
  <2>2. Ready(c)
    BY <1>5 DEF Ready, Follow, VerdictQuiets
  <2> QED
    BY <1>1, <2>1, <2>2, StayPort
<1> QED
  BY <1>2, <1>3, <1>4, <1>5

LEMMA AuthenticatedDoes ==
  ASSUME NEW c, WithEap(c), c.sm.curState = "AUTHENTICATED",
         BackendQuiet(c), c.sm.sPortMode = "AUTO", NEW in,
         Entered(DoAuthenticated(c, in))
  PROVE  Onward(c, DoAuthenticated(c, in))
<1>1. Shaped(c) /\ ~Forced(c) /\ Ready(c)
  BY DEF WithEap, Forced, Ready
<1>2. CASE ~c.sm.eapolEap
  BY <1>1, <1>2, StayPort DEF DoAuthenticated
<1>3. CASE c.sm.eapolEap /\ c.recvframe.code = "SUCCESS"
  <2>1. PICK k : k = [c EXCEPT !.sm.eapolEap = FALSE]
    OBVIOUS
  <2>2. PICK d : d = ReleaseFrame(k)
    OBVIOUS
  <2>3. DoAuthenticated(c, in) = d
    BY <1>3, <2>1, <2>2 DEF DoAuthenticated
  <2>4. /\ Shaped(k) /\ SamePort(c, k) /\ k.sm.sPortMode = "AUTO"
        /\ BackendQuiet(k) /\ ~Forced(k)
    BY <1>1, <2>1 DEF Shaped, NewSm, SamePort, BackendQuiet, Forced
  <2>5. d.sm = k.sm
    BY <2>2, <2>4 DEF ReleaseFrame, Shaped
  <2> QED
    BY <2>3, <2>4, <2>5 DEF Onward, Ready, SamePort, BackendQuiet, Forced
<1>4. CASE c.sm.eapolEap /\ c.recvframe.code # "SUCCESS"
  <2>1. PICK w : w = IF c.recvframe.code \in {"NULL", "OTHER"}
                     THEN [c EXCEPT !.eap.wild = TRUE] ELSE c
    OBVIOUS
  <2>2. DoAuthenticated(c, in) = ToRestart(w, in)
    BY <1>4, <2>1 DEF DoAuthenticated
  <2>3. /\ Shaped(w) /\ SamePort(c, w) /\ w.sm.sPortMode = "AUTO"
        /\ w.eap.won = c.eap.won
    BY <1>1, <2>1 DEF WithEap, Shaped, NewSm, NewEap, SamePort
  <2>4. Onward(w, ToRestart(w, in))
    BY <2>2, <2>3, RestartPort
  <2> QED
    BY <2>2, <2>3, <2>4 DEF Onward, SamePort
<1> QED
  BY <1>2, <1>3, <1>4

\* HELD and DISCONNECTED: the backend is quiet, or about to be aborted.
LEMMA WaitingDoes ==
  ASSUME NEW c, WithEap(c), c.sm.sPortMode = "AUTO", Follow(c), NEW in,
         c.sm.curState \in {"HELD", "DISCONNECTED"}, Entered(DoPae(c, in))
  PROVE  Onward(c, DoPae(c, in))
<1>1. /\ Shaped(c) /\ ~Forced(c) /\ Ready(c)
      /\ c.sm.suppAbort \/ BackendQuiet(c)
  BY DEF WithEap, Forced, Ready, Follow, Follows
<1>2. DoPae(c, in) \in {c, ToConnecting(c, in), ToRestart(c, in)}
  BY DEF DoPae, DoHeld, DoDisconnected
<1>3. CASE DoPae(c, in) = c
  BY <1>1, <1>3, StayPort
<1>4. CASE DoPae(c, in) = ToConnecting(c, in)
  BY <1>1, <1>4, ConnectingPort
<1>5. CASE DoPae(c, in) = ToRestart(c, in)
  BY <1>1, <1>5, RestartPort
<1> QED
  BY <1>2, <1>3, <1>4, <1>5

\* One run of the port access entity.
LEMMA PaeDoes ==
  ASSUME NEW c, WithEap(c), ModeOk(c), Follow(c), SuccessHolds(c),
         ~Forced(c), ~c.sm.userLogoff, NEW in,
         c.sm.curState \in PaeStateNames \ {"RESTART", "S_FORCE_UNAUTH"},
         Entered(DoPae(c, in))
  PROVE  Onward(c, DoPae(c, in)) \/ DoPae(c, in) = ToForceAuth(c)
<1>1. CASE c.sm.curState = "LOGOFF"
  BY <1>1, DisconnectedPort DEF DoPae, DoLogoff, WithEap
<1>2. CASE c.sm.curState # "LOGOFF"
  <2>1. c.sm.sPortMode = "AUTO"
    BY <1>2 DEF ModeOk, Forced
  <2>2. CASE c.sm.curState = "CONNECTING"
    BY <2>1, <2>2, ConnectingDoes DEF DoPae
  <2>3. CASE c.sm.curState = "AUTHENTICATING"
    BY <2>1, <2>3, AuthenticatingDoes DEF DoPae
  <2>4. CASE c.sm.curState = "AUTHENTICATED"
    BY <2>1, <2>4, AuthenticatedDoes DEF DoPae, SuccessHolds
  <2>5. CASE c.sm.curState \in {"HELD", "DISCONNECTED"}
    BY <2>1, <2>5, WaitingDoes
  <2> QED
    BY <1>2, <2>2, <2>3, <2>4, <2>5 DEF PaeStateNames, Forced
<1> QED
  BY <1>1, <1>2

(***************************************************************************)
(* What looks the same to the port and to Follow.                          *)
(***************************************************************************)
Unmoved(c, d) ==
    /\ LinkOk(d) /\ SamePort(c, d)
    /\ d.sm.curState = c.sm.curState /\ d.sm.beCurState = c.sm.beCurState
    /\ d.sm.sPortMode = c.sm.sPortMode
    /\ d.sm.portControl = c.sm.portControl
    /\ d.sm.suppStart = c.sm.suppStart
    /\ d.sm.suppAbort = c.sm.suppAbort
    /\ d.sm.suppFail = c.sm.suppFail
    /\ d.sm.suppTimeout = c.sm.suppTimeout
    /\ c.sm.eapolEap => d.sm.eapolEap
    /\ d.eap.eapFail = c.eap.eapFail
    /\ d.eap.won = c.eap.won

LEMMA UnmovedInv ==
  ASSUME NEW c, NEW d, PortInv(c), Unmoved(c, d)
  PROVE  PortInv(d) /\ PortStep(c, d)
<1>1. ModeOk(d) /\ Follow(d) /\ LinkOk(d)
  BY DEF PortInv, Unmoved, ModeOk, Follow, Follows, VerdictQuiets,
         BackendQuiet
<1>2. PortStep(c, d)
  BY DEF Unmoved, PortStep, Forced
<1> QED
  BY <1>1, <1>2 DEF PortInv

LEMMA UnmovedTrans ==
  ASSUME NEW c, NEW d, NEW e, Unmoved(c, d), Unmoved(d, e)
  PROVE  Unmoved(c, e)
  BY DEF Unmoved, SamePort

(***************************************************************************)
(* A second passes.                                                        *)
(***************************************************************************)
\* What a tick does to the port: nothing, or it closes it for a machine that
\* is to be initialised, or it gives up.
TickStep(c, t) ==
    \/ Unmoved(c, t)
    \/ Forced(t) /\ Opened(t)
    \/ /\ ~Opened(t) /\ t.sm.curState = "DISCONNECTED"
       /\ t.sm.initialize /\ t.sm.suppAbort

LEMMA TimerTickPort ==
  ASSUME NEW c, WithEap(c), LinkOk(c)
  PROVE  LET t == TimerTick(c)
         IN  /\ WithEap(t) /\ t.eap = c.eap /\ Unmoved(c, t)
             /\ t.sm.initialize = c.sm.initialize
             /\ t.sm.portEnabled = c.sm.portEnabled
<1> DEFINE x == DecIfNz(c.sm.authWhile)
           y == DecIfNz(c.sm.heldWhile)
           z == DecIfNz(c.sm.startWhen)
           t == [c EXCEPT !.sm.authWhile = x, !.sm.heldWhile = y,
                          !.sm.startWhen = z, !.sm.tick = FALSE]
<1>1. TimerTick(c) = t
  BY DEF TimerTick, WithEap, Shaped, NewSm
<1> HIDE DEF x, y, z
<1>2. /\ WithEap(t) /\ t.eap = c.eap /\ SamePort(c, t)
      /\ t.sm.initialize = c.sm.initialize
      /\ t.sm.portEnabled = c.sm.portEnabled
      /\ t.sm.curState = c.sm.curState /\ t.sm.beCurState = c.sm.beCurState
      /\ t.sm.sPortMode = c.sm.sPortMode
      /\ t.sm.portControl = c.sm.portControl
      /\ t.sm.suppStart = c.sm.suppStart
      /\ t.sm.suppAbort = c.sm.suppAbort
      /\ t.sm.suppFail = c.sm.suppFail
      /\ t.sm.suppTimeout = c.sm.suppTimeout
      /\ t.sm.eapolEap = c.sm.eapolEap
  BY DEF WithEap, Shaped, NewSm, NewEap, SamePort
<1> HIDE DEF t
<1> QED
  BY <1>1, <1>2 DEF Unmoved, LinkOk

LEMMA GlobalPort ==
  ASSUME NEW c, WithEap(c), PortInv(c), GivenUp(c), ~c.sm.userLogoff,
         c.sm.portControl # "FORCE_UNAUTHORIZED"
  PROVE  LET t == GlobalTransition(c)
         IN  /\ WithEap(t) /\ t.eap = c.eap /\ PortInv(t)
             /\ TickStep(c, t)
<1>1. Shaped(c) /\ LinkOk(c) /\ ModeOk(c)
  BY DEF WithEap, PortInv
<1>2. UserLogsOff(c) = c
  BY DEF UserLogsOff
<1>3. CASE /\ c.sm.portControl = "FORCE_AUTHORIZED"
           /\ c.sm.sPortMode # "FORCE_AUTHORIZED" /\ Usable(c)
  <2>1. PICK t : t = ToForceAuth(c)
    OBVIOUS
  <2>2. /\ Shaped(t) /\ t.eap = c.eap /\ Opened(t) /\ Forced(t)
        /\ t.sm.portControl = "FORCE_AUTHORIZED"
        /\ t.sm.initialize = c.sm.initialize
        /\ t.sm.portEnabled = c.sm.portEnabled
    BY <1>1, <2>1, ForcedPort
  <2>3. GlobalTransition(c) = t
    BY <1>2, <1>3, <2>1, <2>2
       DEF GlobalTransition, ForcedOpen, ForcedShut, BackToAuto
  <2>4. PortInv(t)
    BY <1>1, <2>2
       DEF PortInv, LinkOk, ModeOk, Follow, Follows, VerdictQuiets, Forced
  <2> QED
    BY <2>2, <2>3, <2>4 DEF TickStep, WithEap
<1>4. CASE c.sm.portControl = "AUTO" /\ ~Usable(c)
           /\ c.sm.curState # "DISCONNECTED"
  <2>1. PICK t : t = ToDisconnected(c)
    OBVIOUS
  <2>2. /\ Shaped(t) /\ t.eap = c.eap /\ ~Opened(t)
        /\ t.sm.curState = "DISCONNECTED" /\ t.sm.suppAbort
        /\ t.sm.sPortMode = "AUTO"
        /\ t.sm.initialize = c.sm.initialize
        /\ t.sm.portEnabled = c.sm.portEnabled
    BY <1>1, <2>1, DisconnectedPort
  <2>3. GlobalTransition(c) = t
    BY <1>2, <1>4, <2>1
       DEF GlobalTransition, ForcedOpen, ForcedShut, BackToAuto
  <2>4. t.sm.initialize /\ LinkOk(t)
    BY <1>1, <1>4, <2>2 DEF LinkOk, Usable
  <2>5. PortInv(t)
    BY <2>2, <2>4 DEF PortInv, ModeOk, Follow, Follows, VerdictQuiets
  <2> QED
    BY <2>2, <2>3, <2>4, <2>5 DEF TickStep, WithEap
<1>5. CASE /\ ~(/\ c.sm.portControl = "FORCE_AUTHORIZED"
                /\ c.sm.sPortMode # "FORCE_AUTHORIZED" /\ Usable(c))
           /\ ~(c.sm.portControl = "AUTO" /\ ~Usable(c)
                /\ c.sm.curState # "DISCONNECTED")
  <2>1. c.sm.sPortMode # "AUTO" => c.sm.portControl # "AUTO"
    BY <1>1 DEF ModeOk
  <2>2. GlobalTransition(c) = c
    BY <1>2, <1>5, <2>1
       DEF GlobalTransition, ForcedOpen, ForcedShut, BackToAuto
  <2>3. Unmoved(c, c)
    BY <1>1 DEF Unmoved, SamePort
  <2> QED
    BY <2>2, <2>3 DEF TickStep
<1> QED
  BY <1>3, <1>4, <1>5

LEMMA TickPort ==
  ASSUME NEW c, CtxOk(c), c.conn # "NONE", PortInv(c)
  PROVE  LET t == TickedOn(c)
         IN  /\ CtxOk(t) /\ t.conn = c.conn /\ t.eap = c.eap
             /\ PortInv(t) /\ TickStep(c, t)
<1>1. WithEap(c) /\ LinkOk(c)
  BY ContextsShaped DEF CtxOk, PortInv
<1>2. CASE ~c.sm.tick
  <2>1. Unmoved(c, c)
    BY <1>1 DEF Unmoved, SamePort
  <2> QED
    BY <1>2, <2>1 DEF TickedOn, TickStep
<1>3. CASE c.sm.tick
  <2>1. PICK s : s = TimerTick(c)
    OBVIOUS
  <2>2. CtxOk(s) /\ s.conn = c.conn
    BY <2>1, TimerTickOk
  <2>3. WithEap(s) /\ s.eap = c.eap /\ Unmoved(c, s)
    BY <1>1, <2>1, TimerTickPort
  <2>4. PortInv(s)
    BY <2>3, UnmovedInv
  <2>5. PICK t : t = GlobalTransition(s)
    OBVIOUS
  <2>6. CtxOk(t) /\ t.conn = c.conn
    BY <2>2, <2>5, GlobalTransitionOk
  <2>7. /\ WithEap(t) /\ t.eap = s.eap /\ PortInv(t) /\ TickStep(s, t)
    BY <2>2, <2>3, <2>4, <2>5, GlobalPort DEF CtxOk, Unreached
  <2>8. TickStep(c, t)
    BY <2>3, <2>7, UnmovedTrans DEF TickStep
  <2>9. TickedOn(c) = t
    BY <1>3, <2>1, <2>5 DEF TickedOn
  <2> QED
    BY <2>3, <2>6, <2>7, <2>8, <2>9
<1> QED
  BY <1>2, <1>3

\* A tick is a step of the port.
LEMMA TickPortStep ==
  ASSUME NEW c, NEW t, NEW d, t.eap = c.eap, TickStep(c, t), Unmoved(t, d)
  PROVE  PortStep(c, d)
<1>1. /\ SamePort(t, d) /\ d.sm.curState = t.sm.curState
      /\ d.eap.won = c.eap.won
  BY DEF Unmoved
<1> QED
  BY <1>1 DEF TickStep, PortStep, Unmoved, SamePort, Forced, Opened

(***************************************************************************)
(* statemachine_run.                                                       *)
(***************************************************************************)
LEMMA LinkUpPort ==
  ASSUME NEW c, WithEap(c)
  PROVE  LET d == LinkUp(c)
         IN  /\ WithEap(d) /\ d.eap = c.eap /\ Unmoved(c, d)
             /\ d.sm.portEnabled /\ d.sm.initialize = c.sm.initialize
  BY DEF LinkUp, WithEap, Shaped, NewSm, NewEap, Unmoved, SamePort, LinkOk

LEMMA LinkDownPort ==
  ASSUME NEW c, WithEap(c)
  PROVE  Unmoved(c, LinkDown(c))
  BY DEF LinkDown, WithEap, Shaped, NewSm, NewEap, Unmoved, SamePort, LinkOk

\* The machines run on a port that is up and not forced.
LEMMA MachinesPort ==
  ASSUME NEW c, CtxOk(c), PortInv(c), c.conn # "NONE", c.sm.portEnabled,
         ~Forced(c), NEW in \in Inputs
  PROVE  LET d == BackendUnlessForced(DoPae(c, in), in)
         IN  PortInv(d) /\ PortStep(c, d)
<1>1. Begun(c)
  BY DEF Begun, Base, Enabled, CtxOk, Unreached, UnsetIsUnused, Forced
<1>2. PICK e : e = DoPae(c, in)
  OBVIOUS
<1>3. Entered(e)
  BY <1>1, <1>2, DoPaeOk
<1>4. /\ e \in Contexts /\ WithEap(e) /\ ~e.sm.eapRestart
      /\ e.sm.portEnabled /\ e.sm.curState # "S_FORCE_UNAUTH"
      /\ LinkOk(e)
  BY <1>3, ContextsShaped DEF Entered, Base, Enabled, LinkOk
<1>5. c.sm.curState \in PaeStateNames \ {"RESTART", "S_FORCE_UNAUTH"}
  BY AllowedMethods DEF CtxOk, Unreached, SmStates
<1>6. Onward(c, e) \/ e = ToForceAuth(c)
  BY <1>2, <1>3, <1>5, ContextsShaped, PaeDoes
     DEF CtxOk, PortInv, Unreached
<1>7. CASE e = ToForceAuth(c)
  <2>1. /\ e.eap = c.eap /\ Opened(e) /\ Forced(e)
        /\ e.sm.portControl = "FORCE_AUTHORIZED"
    BY <1>7, ContextsShaped, ForcedPort DEF CtxOk, WithEap
  <2>2. BackendUnlessForced(DoPae(c, in), in) = e
    BY <1>2, <2>1 DEF BackendUnlessForced, Forced
  <2>3. PortInv(e)
    BY <1>4, <2>1
       DEF PortInv, ModeOk, Follow, Follows, VerdictQuiets, Forced
  <2> QED
    BY <2>1, <2>2, <2>3 DEF PortStep
<1>8. CASE Onward(c, e)
  <2>1. PICK d : d = BackendRun(e, in)
    OBVIOUS
  <2>2. BackendUnlessForced(DoPae(c, in), in) = d
    BY <1>2, <1>4, <1>8, <2>1 DEF BackendUnlessForced, Forced, Onward
  <2>3. Follow(d)
    BY <1>4, <1>8, <2>1, BackendFollow DEF Onward
  <2>4. KeepsPort(e, d)
    BY <1>4, <2>1, BackendPort DEF WithEap
  <2>5. PortInv(d) /\ ~Forced(d) /\ SamePort(e, d)
    BY <1>4, <1>8, <2>3, <2>4
       DEF KeepsPort, PortInv, LinkOk, ModeOk, Onward, Forced
  <2>6. e.sm.suppAbort \/ ~e.sm.eapolEap => d.eap.won = e.eap.won
    BY <1>4, <2>1, BackendWithoutFrame
  <2>7. PortStep(c, d)
    BY <1>8, <2>5, <2>6 DEF PortStep, Onward, SamePort, Opened
  <2> QED
    BY <2>2, <2>5, <2>7
<1> QED
  BY <1>6, <1>7, <1>8

LEMMA StatemachineRunPort ==
  ASSUME NEW c, CtxOk(c), PortInv(c), c.conn # "NONE", NEW in \in Inputs
  PROVE  LET d == StatemachineRun(c, in)
         IN  PortInv(d) /\ PortStep(c, d)
<1>1. PICK t : t = TickedOn(c)
  OBVIOUS
<1>2. /\ CtxOk(t) /\ t.conn # "NONE" /\ t.eap = c.eap /\ PortInv(t)
      /\ TickStep(c, t) /\ WithEap(t)
  BY <1>1, TickPort, ContextsShaped DEF CtxOk
<1>3. CASE ~in.link
  <2>1. StatemachineRun(c, in) = LinkDown(t)
    BY <1>1, <1>3 DEF StatemachineRun
  <2> QED
    BY <1>2, <2>1, LinkDownPort, UnmovedInv, TickPortStep
<1>4. CASE in.link
  <2>1. PICK p : p = LinkUp(t)
    OBVIOUS
  <2>2. StatemachineRun(c, in) = BackendUnlessForced(DoPae(p, in), in)
    BY <1>1, <1>4, <2>1 DEF StatemachineRun
  <2>3. /\ WithEap(p) /\ p.eap = t.eap /\ Unmoved(t, p)
        /\ p.sm.portEnabled /\ p.sm.initialize = t.sm.initialize
    BY <1>2, <2>1, LinkUpPort
  <2>4. CtxOk(p) /\ p.conn # "NONE"
    BY <1>2, <2>1, PortEnabledOk DEF LinkUp
  <2>5. PortInv(p) /\ PortStep(c, p)
    BY <1>2, <2>3, UnmovedInv, TickPortStep
  <2>6. CASE Forced(p)
    <3>1. BackendUnlessForced(DoPae(p, in), in) = p
      BY <2>6 DEF Forced, DoPae, BackendUnlessForced
    <3> QED
      BY <2>2, <2>5, <3>1
  <2>7. CASE ~Forced(p) /\ Unmoved(c, t)
    <3>1. Unmoved(c, p)
      BY <2>3, <2>7, UnmovedTrans
    <3>2. PICK d : d = BackendUnlessForced(DoPae(p, in), in)
      OBVIOUS
    <3>3. PortInv(d) /\ PortStep(p, d)
      BY <2>4, <2>5, <2>3, <2>7, <3>2, MachinesPort
    <3>4. PortStep(c, d)
      BY <3>1, <3>3 DEF Unmoved, PortStep, SamePort, Forced, Opened
    <3> QED
      BY <2>2, <3>2, <3>3, <3>4
  <2>8. CASE /\ ~Forced(p) /\ ~Opened(t) /\ t.sm.initialize
             /\ t.sm.curState = "DISCONNECTED" /\ t.sm.suppAbort
    <3>1. /\ p.sm.curState = "DISCONNECTED" /\ p.sm.initialize
          /\ p.sm.suppAbort /\ ~Opened(p)
      BY <2>3, <2>8 DEF Unmoved, SamePort, Opened
    <3>2. DoPae(p, in) = p
      BY <3>1 DEF DoPae, DoDisconnected
    <3>3. PICK d : d = BackendUnlessForced(p, in)
      OBVIOUS
    <3>4. d = BackendRun(p, in)
      BY <3>1, <3>3 DEF BackendUnlessForced
    <3>5. PortInv(d)
      BY <2>3, <2>4, <2>5, <2>8, <3>2, <3>3, MachinesPort
    <3>6. KeepsPort(p, d) /\ d.eap.won = p.eap.won
      BY <2>3, <2>4, <3>1, <3>4, BackendPort, BackendWithoutFrame
         DEF WithEap, CtxOk, Unreached
    <3>7. PortStep(c, d)
      BY <1>2, <2>3, <3>1, <3>6
         DEF KeepsPort, PortStep, SamePort, Forced, Opened
    <3> QED
      BY <2>2, <3>2, <3>3, <3>5, <3>7
  <2>9. Forced(t) => Forced(p)
    BY <2>3 DEF Unmoved, Forced
  <2> QED
    BY <1>2, <2>6, <2>7, <2>8, <2>9 DEF TickStep
<1> QED
  BY <1>3, <1>4

(***************************************************************************)
(* The steps of the daemon.                                                *)
(***************************************************************************)
\* Steps that move frames, the connection or the password, but no state.
LEMMA MovesPort ==
  ASSUME NEW c, WithEap(c), LinkOk(c), NEW f, NEW n, NEW i
  PROVE  /\ WithEap(Fresh(c)) /\ Unmoved(c, Fresh(c))
         /\ Unmoved(c, [Fresh(ReleaseFrame(c)) EXCEPT !.recvframe = f])
         /\ Unmoved(c, [Fresh(ReleaseFrame(c)) EXCEPT
                           !.recvframe = f, !.sm.eapolEap = TRUE])
         /\ Unmoved(c, [Fresh(c) EXCEPT !.conn = "NONE", !.prof = "NONE"])
         /\ Unmoved(c, [Fresh(c) EXCEPT !.eap.pwdCallback = FALSE])
         /\ Unmoved(c, [Fresh(c) EXCEPT
                           !.eap.pwdCallback = FALSE,
                           !.eap.pwdFrame = NullFrame,
                           !.eap.lastId = (@ + IdSpace - 1) % IdSpace,
                           !.recvframe = c.eap.pwdFrame,
                           !.sm.eapolEap = TRUE])
         /\ Unmoved(c, Ticked(Fresh(c)))
<1> USE DEF WithEap, Shaped, NewSm, NewEap
<1>1. PICK a : a = Fresh(c)
  OBVIOUS
<1>2. WithEap(a) /\ a.sm = c.sm /\ a.eap = c.eap
  BY <1>1 DEF Fresh
<1>3. PICK r : r = ReleaseFrame(c)
  OBVIOUS
<1>4. /\ WithEap(r) /\ r.sm = c.sm /\ r.eap.won = c.eap.won
      /\ r.eap.eapFail = c.eap.eapFail
  BY <1>3 DEF ReleaseFrame
<1>5. PICK b : b = Fresh(r)
  OBVIOUS
<1>6. /\ WithEap(b) /\ b.sm = c.sm /\ b.eap.won = c.eap.won
      /\ b.eap.eapFail = c.eap.eapFail
  BY <1>4, <1>5 DEF Fresh
<1> USE DEF Unmoved, SamePort, LinkOk
<1>7. Unmoved(c, a)
  BY <1>2
<1>8. /\ Unmoved(c, [b EXCEPT !.recvframe = f])
      /\ Unmoved(c, [b EXCEPT !.recvframe = f, !.sm.eapolEap = TRUE])
  BY <1>6
<1>9. /\ Unmoved(c, [a EXCEPT !.conn = "NONE", !.prof = "NONE"])
      /\ Unmoved(c, [a EXCEPT !.eap.pwdCallback = FALSE])
  BY <1>2
<1>10. Unmoved(c, [a EXCEPT !.eap.pwdCallback = FALSE,
                            !.eap.pwdFrame = NullFrame,
                            !.eap.lastId = (@ + IdSpace - 1) % IdSpace,
                            !.recvframe = c.eap.pwdFrame,
                            !.sm.eapolEap = TRUE])
  BY <1>2
<1>11. Unmoved(c, Ticked(a))
  BY <1>2 DEF Ticked
<1> HIDE DEF WithEap, Unmoved
<1> QED
  BY <1>1, <1>2, <1>3, <1>5, <1>7, <1>8, <1>9, <1>10, <1>11

\* A port given up, whatever is done to the connection before.
LEMMA GiveUpStep ==
  ASSUME NEW c, PortInv(c), NEW b, Shaped(b), b.sm = c.sm,
         b.eap.won => c.eap.won
  PROVE  PortInv(ToForceAuth(b)) /\ PortStep(c, ToForceAuth(b))
<1>1. PICK d : d = ToForceAuth(b)
  OBVIOUS
<1>2. /\ d.eap = b.eap /\ Opened(d) /\ Forced(d)
      /\ d.sm.portControl = "FORCE_AUTHORIZED"
      /\ d.sm.initialize = c.sm.initialize
      /\ d.sm.portEnabled = c.sm.portEnabled
  BY <1>1, ForcedPort
<1> QED
  BY <1>1, <1>2
     DEF PortInv, LinkOk, ModeOk, Follow, Follows, VerdictQuiets, Forced,
         PortStep

\* A logoff closes the port and forgets the conversation.
LEMMA LogoffPort ==
  ASSUME NEW c, PortInv(c), NEW b, WithEap(b), b.sm = c.sm
  PROVE  LET d == ToLogoff(b)
         IN  /\ WithEap(d) /\ ~d.eap.won /\ ~Opened(d)
             /\ d.sm.curState = "LOGOFF" /\ LinkOk(d) /\ ModeOk(d)
<1>1. PICK t : t = TxLogoff(b)
  OBVIOUS
<1>2. WithEap(t) /\ t.sm = c.sm /\ t.eap = b.eap
  BY <1>1 DEF TxLogoff, Transmit, WithEap, Shaped
<1>3. PICK e : e = EapForceInit(t.eap)
  OBVIOUS
<1>4. DOMAIN e = DOMAIN NewEap /\ ~e.won
  <2>1. PICK g : g = InitEapVars([t.eap EXCEPT !.eapReq = FALSE])
    OBVIOUS
  <2>2. DOMAIN g = DOMAIN NewEap /\ ~g.won /\ ~g.altAccept /\ ~g.altReject
    BY <1>2, <2>1 DEF InitEapVars, ForgetResult, WithEap, NewEap
  <2> QED
    BY <1>3, <2>1, <2>2
       DEF EapForceInit, EapIdleQuiet, RejectedByMethod, AcceptedByMethod
<1>5. PICK d : d = [t EXCEPT !.sm.logoffSent = TRUE,
                             !.sm.suppPortStatus = "UNAUTHORIZED",
                             !.sm.curState = "LOGOFF", !.eap = e]
  OBVIOUS
<1>6. /\ WithEap(d) /\ d.eap = e /\ ~Opened(d)
      /\ d.sm.curState = "LOGOFF"
      /\ d.sm.portEnabled = c.sm.portEnabled
      /\ d.sm.initialize = c.sm.initialize
      /\ d.sm.sPortMode = c.sm.sPortMode
      /\ d.sm.portControl = c.sm.portControl
  BY <1>2, <1>4, <1>5 DEF WithEap, Shaped, NewSm, Opened
<1>7. ToLogoff(b) = d
  BY <1>1, <1>2, <1>3, <1>5 DEF ToLogoff, WithEap, Shaped
<1> QED
  BY <1>4, <1>6, <1>7 DEF PortInv, LinkOk, ModeOk

\* What a request leaves of a context that was logged off.
LEMMA LoggedOff ==
  ASSUME NEW c, PortInv(c), NEW b, b.sm.curState = "LOGOFF", LinkOk(b),
         ModeOk(b), ~Opened(b), NEW d, d.sm = b.sm, ~d.eap.won
  PROVE  PortInv(d) /\ PortStep(c, d)
  BY DEF PortInv, LinkOk, ModeOk, Follow, Follows, VerdictQuiets, PortStep,
         Opened, Forced

\* An EAP machine that starts afresh has proved nothing.
LEMMA ReinitPort ==
  ASSUME NEW b, WithEap(b)
  PROVE  LET d == [b EXCEPT !.eap = ReinitEap(@)]
         IN  WithEap(d) /\ d.sm = b.sm /\ ~d.eap.won
<1>1. PICK e : e = ReinitEap(b.eap)
  OBVIOUS
<1>2. DOMAIN e = DOMAIN NewEap /\ ~e.won
  BY <1>1 DEF ReinitEap, NewEap
<1> QED
  BY <1>1, <1>2 DEF WithEap, Shaped

\* The machines run at the end of a pass, unless nothing is bound.
LEMMA RunIfBoundPort ==
  ASSUME NEW c, CtxOk(c), PortInv(c), RunIfBound(c)
  PROVE  PortInv(ctx') /\ PortStep(c, ctx')
<1>1. RunInputs(c) \subseteq Inputs
  BY RunInputsOk DEF CtxOk
<1>2. PortStep(c, c)
  BY DEF PortStep, SamePort
<1> QED
  BY <1>1, <1>2, StatemachineRunPort DEF RunIfBound

\* From a context that only Fresh or Ticked told apart.
LEMMA StepFromUnmoved ==
  ASSUME NEW c, NEW b, NEW d, Unmoved(c, b), PortStep(b, d)
  PROVE  PortStep(c, d)
  BY DEF Unmoved, PortStep, SamePort, Forced, Opened

\* Every step of the daemon is a step of the port: one case per action.
LEMMA PortStepOk ==
  ASSUME IInv, PortInv(ctx), [Next]_vars
  PROVE  PortInv(ctx') /\ PortStep(ctx, ctx')
<1>1. CtxOk(ctx) /\ WithEap(ctx) /\ LinkOk(ctx)
  BY ContextsShaped DEF IInv, CtxOk, PortInv
<1>2. ASSUME Unmoved(ctx, ctx')
      PROVE  PortInv(ctx') /\ PortStep(ctx, ctx')
  BY <1>2, UnmovedInv
<1>3. PICK a : a = Fresh(ctx)
  OBVIOUS
<1>4. /\ CtxOk(a) /\ WithEap(a) /\ Unmoved(ctx, a) /\ PortInv(a)
      /\ a.sm = ctx.sm /\ a.eap = ctx.eap /\ a.conn = ctx.conn
  BY <1>1, <1>3, FreshOk, MovesPort, UnmovedInv
<1>5. CASE IgnoredFrame \/ (\E f \in AirFrames : EapFrame(f)) \/ ExecuteEnd
           \/ UnbindConnection \/ SetPassword
  <2>1. CASE IgnoredFrame
    <3>1. PICK f : ctx' = [Fresh(ReleaseFrame(ctx)) EXCEPT !.recvframe = f]
      BY <2>1 DEF IgnoredFrame
    <3> QED
      BY <1>1, <1>2, <3>1, MovesPort
  <2>2. ASSUME NEW f \in AirFrames, EapFrame(f)
        PROVE  PortInv(ctx') /\ PortStep(ctx, ctx')
    <3>1. ctx' = [Fresh(ReleaseFrame(ctx)) EXCEPT
                     !.recvframe = f, !.sm.eapolEap = TRUE]
      BY <2>2 DEF EapFrame
    <3> QED
      BY <1>1, <1>2, <3>1, MovesPort
  <2>3. CASE ExecuteEnd
    <3>1. CASE ctx' = Fresh(ctx)
      BY <1>2, <1>3, <1>4, <3>1
    <3>2. CASE ctx' = [Fresh(ReleaseFrame(ctx)) EXCEPT !.recvframe = saved]
      BY <1>1, <1>2, <3>2, MovesPort
    <3> QED
      BY <2>3, <3>1, <3>2 DEF ExecuteEnd
  <2>4. CASE UnbindConnection
    <3>1. ctx' = [Fresh(ctx) EXCEPT !.conn = "NONE", !.prof = "NONE"]
      BY <2>4 DEF UnbindConnection, Request
    <3> QED
      BY <1>1, <1>2, <3>1, MovesPort
  <2>5. CASE SetPassword
    <3>1. CASE ctx' = [Fresh(ctx) EXCEPT !.eap.pwdCallback = FALSE]
      BY <1>1, <1>2, <3>1, MovesPort
    <3>2. CASE ctx' = [Fresh(ctx) EXCEPT
                          !.eap.pwdCallback = FALSE,
                          !.eap.pwdFrame = NullFrame,
                          !.eap.lastId = (@ + IdSpace - 1) % IdSpace,
                          !.recvframe = ctx.eap.pwdFrame,
                          !.sm.eapolEap = TRUE]
      BY <1>1, <1>2, <3>2, MovesPort
    <3> QED
      BY <2>5, <3>1, <3>2 DEF SetPassword
  <2> QED
    BY <1>5, <2>1, <2>2, <2>3, <2>4, <2>5
<1>6. CASE ExecuteRun
  <2>1. PICK in \in RunInputs(ctx) : ctx' = StatemachineRun(a, in)
    BY <1>3, <1>6 DEF ExecuteRun
  <2>2. in \in Inputs /\ a.conn # "NONE"
    BY <1>1, <1>4, <1>6, <2>1, RunInputsOk DEF ExecuteRun, CtxOk
  <2> QED
    BY <1>4, <2>1, <2>2, StatemachineRunPort, StepFromUnmoved
<1>7. CASE Tick
  <2>1. PICK b : b = Ticked(a)
    OBVIOUS
  <2>2. CtxOk(b) /\ Unmoved(ctx, b) /\ RunIfBound(b)
    BY <1>1, <1>3, <1>4, <1>7, <2>1, TickedOk, MovesPort DEF Tick
  <2> QED
    BY <2>2, UnmovedInv, RunIfBoundPort, StepFromUnmoved
<1>8. CASE Poll
  BY <1>3, <1>4, <1>8, RunIfBoundPort, StepFromUnmoved DEF Poll
<1>9. ASSUME NEW conn \in Conns, ChangeConnection(conn)
      PROVE  PortInv(ctx') /\ PortStep(ctx, ctx')
  <2>1. PICK b : b = [a EXCEPT !.conn = conn, !.prof = ProfOf(conn)]
    OBVIOUS
  <2>2. WithEap(b) /\ b.sm = ctx.sm /\ b.eap = ctx.eap
    BY <1>4, <2>1 DEF WithEap, Shaped
  <2>3. PICK n : n = [b EXCEPT !.eap = ReinitEap(@)]
    OBVIOUS
  <2>4. WithEap(n) /\ n.sm = ctx.sm /\ ~n.eap.won
    BY <2>2, <2>3, ReinitPort
  <2>5. ctx' \in {ToForceAuth(b), ToForceAuth(n), ToLogoff(n)}
    BY <1>3, <1>9, <2>1, <2>3 DEF ChangeConnection, Request
  <2>6. CASE ctx' \in {ToForceAuth(b), ToForceAuth(n)}
    BY <2>2, <2>4, <2>6, GiveUpStep DEF WithEap
  <2>7. CASE ctx' = ToLogoff(n)
    BY <2>4, <2>7, LogoffPort, LoggedOff
  <2> QED
    BY <2>5, <2>6, <2>7
<1>10. PICK g : g = ToLogoff(a)
  OBVIOUS
<1>11. /\ WithEap(g) /\ ~Opened(g) /\ g.sm.curState = "LOGOFF"
       /\ LinkOk(g) /\ ModeOk(g)
  BY <1>4, <1>10, LogoffPort
<1>12. CASE RequestLogoff
  <2>1. PICK b : b = [g EXCEPT !.conn = "NONE"]
    OBVIOUS
  <2>2. PICK e : e = ReinitEap(g.eap)
    OBVIOUS
  <2>3. ctx' = [g EXCEPT !.conn = "NONE", !.eap = e]
    BY <1>3, <1>10, <1>11, <1>12, <2>2
       DEF RequestLogoff, Request, WithEap, Shaped
  <2>4. ~e.won
    BY <2>2 DEF ReinitEap, NewEap
  <2>5. ctx'.sm = g.sm /\ ~ctx'.eap.won
    BY <1>11, <2>3, <2>4 DEF WithEap, Shaped
  <2> QED
    BY <1>11, <2>5, LoggedOff
<1>13. CASE DisconnectConnection
  <2>1. PICK o : o = [g EXCEPT !.eap = ReinitEap(@)]
    OBVIOUS
  <2>2. WithEap(o) /\ o.sm = g.sm /\ ~o.eap.won
    BY <1>11, <2>1, ReinitPort
  <2>3. ASSUME NEW x, WithEap(x)
        PROVE  LET y == TxLogoff(x)
               IN  WithEap(y) /\ y.sm = x.sm /\ y.eap = x.eap
    BY <2>3 DEF TxLogoff, Transmit, WithEap, Shaped
  <2>4. PICK t : t = TxLogoff(TxLogoff(o))
    OBVIOUS
  <2>5. WithEap(t) /\ t.sm = g.sm /\ ~t.eap.won
    BY <2>2, <2>3, <2>4
  <2>6. ctx' = [t EXCEPT !.conn = "NONE", !.prof = "NONE"]
    BY <1>3, <1>10, <1>13, <2>1, <2>4 DEF DisconnectConnection, Request
  <2>7. ctx'.sm = g.sm /\ ~ctx'.eap.won
    BY <2>5, <2>6 DEF WithEap, Shaped
  <2> QED
    BY <1>11, <2>7, LoggedOff
<1>14. CASE UNCHANGED vars
  BY <1>14 DEF vars, PortStep, SamePort
<1> QED
  BY <1>5, <1>6, <1>7, <1>8, <1>9, <1>12, <1>13, <1>14 DEF Next

(***************************************************************************)
(* The theorems.                                                           *)
(***************************************************************************)
LEMMA PortInitOk == Init => PortInv(ctx)
<1> SUFFICES ASSUME Init PROVE PortInv(ctx)
  OBVIOUS
<1>1. PICK link : ctx.sm = NewSm(link)
  BY DEF Init
<1> QED
  BY <1>1
     DEF PortInv, LinkOk, ModeOk, Follow, Follows, VerdictQuiets,
         BackendQuiet, NewSm

\* The two machines keep together in every reachable state: a port without
\* link is to be initialised, a forced port is left through LOGOFF, and a
\* verdict the backend reports leaves it quiet.
THEOREM PortInductive == Spec => []PortInv(ctx)
<1>1. Init => PortInv(ctx)
  BY PortInitOk
<1>2. IInv /\ PortInv(ctx) /\ [Next]_vars => PortInv(ctx)'
  BY PortStepOk
<1> QED
  BY <1>1, <1>2, Inductive, PTL DEF Spec

\* backend_sm.c talks to the authenticator only for a port access entity that
\* is AUTHENTICATING; elsewhere it idles, or is about to be aborted: for all
\* methods, connections, frames, requests and periods.
THEOREM BackendFollowsTheorem == Spec => []BackendFollowsPae
<1>1. PortInv(ctx) => BackendFollowsPae
  BY DEF PortInv, Follow, Follows, BackendQuiet, BackendFollowsPae
<1> QED
  BY <1>1, PortInductive, PTL

\* The daemon implements PortAccess: suppPortStatus becomes AUTHORIZED only
\* by a success of the conversation at hand, or because 802.1X was given up
\* (S_FORCE_AUTH, statemachine.c), however requests, frames, seconds and the
\* link interleave.
THEOREM PortTheorem == Spec => PortSpec
<1>1. Init => Port!Init
  BY DEF Init, Port!Init, NewSm, NewEap
<1>2. ASSUME IInv, IInv', PortInv(ctx), [Next]_vars
      PROVE  [Port!Next]_(Port!vars)
  <2>1. PortStep(ctx, ctx')
    BY <1>2, PortStepOk
  <2>2. /\ (ctx.eap.won /\ ctx.eap.by # "NONE") <=> ctx.eap.won
        /\ (ctx'.eap.won /\ ctx'.eap.by # "NONE") <=> ctx'.eap.won
    BY <1>2 DEF IInv, CtxOk, EapOk
  <2> QED
    BY <2>1, <2>2
       DEF PortStep, SamePort, Forced, Opened, Port!Next, Port!vars,
           Port!Prove, Port!Grant, Port!GiveUp, Port!Close, Port!StartAgain
<1>3. IInv /\ IInv' /\ PortInv(ctx) /\ [Next]_vars => [Port!Next]_(Port!vars)
  BY <1>2
<1> QED
  BY <1>1, <1>3, Inductive, PortInductive, PTL DEF Spec, PortSpec, Port!Spec

(***************************************************************************)
(* A frame takes few runs of the machines: with a link that stays up, and  *)
(* requests that name a type.                                              *)
(***************************************************************************)
\* A request of type 0 is answered by nothing (eap_sm.c:1168).
Typed(f) == f.code = "REQUEST" => f.type # "NONE"

\* What the EAP machine may come to read has a type.
Framed(e) ==
    /\ DOMAIN e = DOMAIN NewEap
    /\ Typed(e.reqData) /\ Typed(e.pwdFrame)
    /\ "NONE" \notin e.curMethods

\* One of the flags for which the backend leaves REQUEST.
Answering(e) == e.eapResp \/ e.eapNoResp \/ e.eapFail \/ e.eapSuccess

LEMMA QuietAnswers ==
  ASSUME NEW e, Framed(e)
  PROVE  /\ Framed(EapFailure(e)) /\ Answering(EapFailure(e))
         /\ Framed(EapSuccess(e)) /\ Answering(EapSuccess(e))
         /\ Framed(EapIdleQuiet(e))
         /\ Answering(e) => Answering(EapIdleQuiet(e))
<1>1. /\ Framed(EapFailure(e)) /\ Answering(EapFailure(e))
      /\ Framed(EapSuccess(e)) /\ Answering(EapSuccess(e))
  BY DEF Framed, Answering, EapFailure, EapSuccess, NewEap
<1> QED
  BY <1>1 DEF EapIdleQuiet

LEMMA DiscardAnswers ==
  ASSUME NEW e, Framed(e)
  PROVE  Framed(EapDiscard(e)) /\ Answering(EapDiscard(e))
<1>1. PICK f : f = [e EXCEPT !.eapReq = FALSE, !.eapNoResp = TRUE,
                             !.lastRespData = NullResp]
  OBVIOUS
<1>2. Framed(f) /\ Answering(f)
  BY <1>1 DEF Framed, Answering, NewEap
<1>3. EapDiscard(e) = EapIdleQuiet(f)
  BY <1>1 DEF EapDiscard
<1> QED
  BY <1>2, <1>3, QuietAnswers

LEMMA SendAnswers ==
  ASSUME NEW e, Framed(e), NEW id
  PROVE  Framed(EapSendResponse(e, id)) /\ Answering(EapSendResponse(e, id))
<1>1. PICK f : f = [e EXCEPT !.lastId = id, !.lastRespData = NullResp]
  OBVIOUS
<1>2. Framed(f)
  BY <1>1 DEF Framed, NewEap
<1>3. PICK g : g = [f EXCEPT !.lastRespData = f.respData,
                             !.eapReq = FALSE, !.eapResp = TRUE]
  OBVIOUS
<1>4. Framed(g) /\ Answering(g)
  BY <1>2, <1>3 DEF Framed, Answering, NewEap
<1>5. EapSendResponse(e, id) \in {EapDiscard(f), EapIdleQuiet(g)}
  BY <1>1, <1>3 DEF EapSendResponse
<1> QED
  BY <1>2, <1>4, <1>5, DiscardAnswers, QuietAnswers

\* A method that was selected answers, is silent, or fails.
LEMMA MethodAnswers ==
  ASSUME NEW e, Framed(e), NEW p, Typed(p), NEW m
  PROVE  /\ Framed(EapMethod(e, p, m))
         /\ e.selectedMethod # "NONE" => Answering(EapMethod(e, p, m))
<1>1. CASE e.selectedMethod = "NONE"
  BY <1>1 DEF EapMethod
<1>2. CASE e.selectedMethod # "NONE"
  <2>1. PICK r : r = [e EXCEPT !.methodState = m.methodState,
                       !.decision = m.decision, !.altReject = m.altReject,
                       !.altAccept = m.altAccept /\ e.methodState # "INIT",
                       !.by = e.selectedMethod]
    OBVIOUS
  <2>2. Framed(r)
    BY <2>1 DEF Framed, NewEap
  <2>3. Framed(AskPassword(r, p))
    BY <2>2 DEF AskPassword, Framed, NewEap
  <2>4. PICK f : f = MethodResult(e, p, m)
    OBVIOUS
  <2>5. Framed(f)
    BY <2>1, <2>2, <2>3, <2>4 DEF MethodResult
  <2>6. PICK x : x = IF m.resp THEN [id |-> p.id, body |-> e.selectedMethod]
                               ELSE NullResp
    OBVIOUS
  <2>7. PICK g : g = [f EXCEPT !.respData = x]
    OBVIOUS
  <2>8. Framed(g)
    BY <2>5, <2>7 DEF Framed, NewEap
  <2>9. EapMethod(e, p, m) \in
          {EapDiscard(f), EapFailure(g), EapSendResponse(g, p.id)}
    BY <1>2, <2>4, <2>6, <2>7 DEF EapMethod
  <2> QED
    BY <2>5, <2>8, <2>9, DiscardAnswers, QuietAnswers, SendAnswers
<1> QED
  BY <1>1, <1>2

LEMMA DeinitFramed ==
  ASSUME NEW e, Framed(e)
  PROVE  /\ Framed(DeinitMethod(e))
         /\ DeinitMethod(e).selectedMethod = e.selectedMethod
         /\ DeinitMethod(e).curMethods = e.curMethods
  BY DEF DeinitMethod, Framed, Typed, NullFrame, NewEap

\* GET_METHOD answers, for a request that names a type.
LEMMA GetMethodAnswers ==
  ASSUME NEW e, Framed(e), NEW p, Typed(p), p.code = "REQUEST", NEW m,
         e.selectedMethod = "NONE"
  PROVE  LET g == EapGetMethod(e, p, m) IN Framed(g) /\ Answering(g)
<1>1. PICK old : old = IF e.lastMethod \notin {p.type, "NONE"}
                       THEN DeinitMethod(e) ELSE e
  OBVIOUS
<1>2. Framed(old)
  BY <1>1, DeinitFramed
<1>3. PICK new : new = [old EXCEPT !.lastMethod = p.type,
                                   !.selectedMethod = p.type,
                                   !.methodState = "INIT"]
  OBVIOUS
<1>4. Framed(new) /\ new.selectedMethod = p.type
  BY <1>2, <1>3 DEF Framed, NewEap
<1>5. PICK r : r = [id |-> p.id, body |-> "NAK"]
  OBVIOUS
<1>6. PICK nak : nak = [e EXCEPT !.respData = r]
  OBVIOUS
<1>7. Framed(nak)
  BY <1>6 DEF Framed, NewEap
<1>8. PICK none : none = [e EXCEPT !.respData = NullResp, !.eapResp = FALSE]
  OBVIOUS
<1>9. Framed(none)
  BY <1>8 DEF Framed, NewEap
<1>10. p.type # "NONE" /\ p.type # e.selectedMethod
  BY DEF Typed
<1>11. EapGetMethod(e, p, m) = IF p.type \in e.curMethods
                               THEN EapMethod(new, p, m)
                               ELSE IF e.curMethods = {} THEN EapDiscard(none)
                               ELSE EapSendResponse(nak, p.id)
  BY <1>1, <1>3, <1>5, <1>6, <1>8, <1>10 DEF EapGetMethod
<1> QED
  BY <1>4, <1>7, <1>9, <1>10, <1>11, MethodAnswers, DiscardAnswers,
     SendAnswers

LEMMA RetransmitAnswers ==
  ASSUME NEW e, Framed(e), NEW p
  PROVE  Framed(EapRetransmit(e, p)) /\ Answering(EapRetransmit(e, p))
<1>1. PICK f : f = [e EXCEPT !.respData = NullResp]
  OBVIOUS
<1>2. Framed(f)
  BY <1>1 DEF Framed, NewEap
<1>3. PICK g : g = [f EXCEPT !.respData = e.lastRespData, !.eapResp = TRUE]
  OBVIOUS
<1>4. Framed(g)
  BY <1>2, <1>3 DEF Framed, NewEap
<1>5. EapRetransmit(e, p) \in
        {EapSendResponse(g, p.id), EapDiscard(f), EapFailure(f)}
  BY <1>1, <1>3 DEF EapRetransmit, EapFailure
<1> QED
  BY <1>2, <1>4, <1>5, SendAnswers, DiscardAnswers, QuietAnswers

LEMMA IdentityAnswers ==
  ASSUME NEW e, Framed(e), NEW p, NEW m
  PROVE  Framed(EapIdentity(e, p, m)) /\ Answering(EapIdentity(e, p, m))
<1>1. PICK f : f = [e EXCEPT !.selectedMethod = "NONE", !.respData = NullResp]
  OBVIOUS
<1>2. Framed(f)
  BY <1>1 DEF Framed, NewEap
<1>3. PICK r : r = [id |-> p.id, body |-> "IDENTITY"]
  OBVIOUS
<1>4. PICK g : g = [f EXCEPT !.respData = r, !.eapResp = TRUE,
                             !.eapNoResp = FALSE, !.methodState = "INIT"]
  OBVIOUS
<1>5. Framed(g)
  BY <1>2, <1>4 DEF Framed, NewEap
<1>6. EapIdentity(e, p, m) \in {EapSendResponse(g, p.id), EapDiscard(f)}
  BY <1>1, <1>3, <1>4 DEF EapIdentity
<1> QED
  BY <1>2, <1>5, <1>6, SendAnswers, DiscardAnswers

\* RECEIVED: whatever the order of the tests, something comes of it.
LEMMA DispatchAnswers ==
  ASSUME NEW e, Framed(e), NEW p, Typed(p), NEW m
  PROVE  Framed(EapDispatch(e, p, m)) /\ Answering(EapDispatch(e, p, m))
<1> DEFINE Ok(x) == Framed(x) /\ Answering(x)
<1>1. PICK n : n = [e EXCEPT !.respData = NullResp]
  OBVIOUS
<1>2. Framed(n) /\ EapNotification(e, p) = EapSendResponse(n, p.id)
  BY <1>1 DEF Framed, NewEap, EapNotification
<1>3. PICK o : o = IF e.selectedMethod # "NONE" THEN DeinitMethod(e) ELSE e
  OBVIOUS
<1>4. Framed(o)
  BY <1>3, DeinitFramed
<1>5. Ok(EapNotification(e, p)) /\ Ok(EapIdentity(o, p, m))
      /\ Ok(EapSuccess(e)) /\ Ok(EapFailure(e))
  BY <1>2, <1>4, SendAnswers, IdentityAnswers, QuietAnswers
<1>6. Ok(EapRequest(e, p, m))
  <2>1. CASE /\ IsFresh(e, p) /\ e.selectedMethod = "NONE"
             /\ p.type # "NOTIFY"
    BY <2>1, GetMethodAnswers DEF EapRequest, IsFresh
  <2>2. CASE /\ IsFresh(e, p) /\ p.type = e.selectedMethod
             /\ e.selectedMethod # "NONE"
    BY <2>2, MethodAnswers, RetransmitAnswers, DiscardAnswers DEF EapRequest
  <2>3. CASE ~IsFresh(e, p) \/ p.type # e.selectedMethod
    BY <2>1, <2>3, MethodAnswers, RetransmitAnswers, DiscardAnswers
       DEF EapRequest
  <2> QED
    BY <2>1, <2>2, <2>3
<1>7. e.selectedMethod = "LEAP" => Ok(EapMethod(e, p, m))
  BY MethodAnswers
<1> HIDE DEF Ok
<1>8. Ok(EapDispatch(e, p, m))
  BY <1>3, <1>5, <1>6, <1>7 DEF EapDispatch
<1> QED
  BY <1>8 DEF Ok

LEMMA InitFramed ==
  ASSUME NEW e, Framed(e)
  PROVE  Framed(InitEapVars(e))
<1>1. PICK q : q = (e.eapReq /\ e.reqData # NullFrame)
  OBVIOUS
<1>2. PICK f : f = ForgetResult(e)
  OBVIOUS
<1>3. Framed(f)
  BY <1>2 DEF ForgetResult, Framed, NewEap
<1>4. InitEapVars(e) =
        [f EXCEPT !.selectedMethod = "NONE", !.methodState = "NONE",
                  !.allowNotifications = TRUE, !.decision = "EAP_FAIL",
                  !.lastId = InitialId, !.altAccept = FALSE,
                  !.altReject = FALSE, !.eapRestart = FALSE,
                  !.eapReq = q, !.won = FALSE, !.by = "NONE"]
  BY <1>1, <1>2 DEF InitEapVars
<1> QED
  BY <1>3, <1>4 DEF Framed, NewEap

\* eap_sm_run: a request that is handed over is dealt with in that run.
LEMMA RunAnswers ==
  ASSUME NEW e, Framed(e), NEW m, NEW ub, Typed(ub)
  PROVE  /\ Framed(EapRun(e, m, ub))
         /\ e.portEnabled /\ e.eapReq /\ ~e.eapRestart =>
               Answering(EapRun(e, m, ub))
<1>1. ASSUME NEW x, Framed(x)
      PROVE  Framed(EapReceived(x, m, ub)) /\ Answering(EapReceived(x, m, ub))
  <2>1. PICK p : p = IF x.reqData \in Garbage THEN ub ELSE x.reqData
    OBVIOUS
  <2>2. Typed(p)
    BY <1>1, <2>1 DEF Framed
  <2>3. PICK w : w = (x.wild \/ x.reqData \in Garbage
                             \/ x.decision = "UNSET")
    OBVIOUS
  <2>4. PICK f : f = [x EXCEPT !.wild = w]
    OBVIOUS
  <2>5. Framed(f)
    BY <1>1, <2>4 DEF Framed, NewEap
  <2>6. EapReceived(x, m, ub) \in
          {EapDispatch(InitEapVars(DeinitMethod(f)), p, m),
           EapDispatch(f, p, m)}
    BY <2>1, <2>3, <2>4 DEF EapReceived
  <2> QED
    BY <2>2, <2>5, <2>6, DeinitFramed, InitFramed, DispatchAnswers
<1>2. ASSUME NEW x, Framed(x) PROVE Framed(EapIdle(x, m, ub))
  BY <1>1, <1>2, QuietAnswers DEF EapIdle
<1>3. Framed(EapRun(e, m, ub))
  BY <1>2, InitFramed DEF EapRun
<1> QED
  BY <1>1, <1>3 DEF EapRun, EapIdle

(***************************************************************************)
(* The backend machine.                                                    *)
(***************************************************************************)
FramesOk(c) ==
    /\ Shaped(c) /\ Framed(c.eap) /\ Typed(c.recvframe)
    /\ c.prof \in Conns \cup {"NONE"}

\* What the backend does to a frame that waits and to a machine that is to be
\* initialised: it takes the frame, and initialises the machine.
Settles(c, d) ==
    /\ FramesOk(d)
    /\ d.sm.eapolEap => c.sm.eapolEap
    /\ d.sm.initialize => c.sm.initialize
    /\ d.sm.suppAbort => c.sm.suppAbort
    /\ d.sm.beCurState = "UNKNOWN" => c.sm.beCurState = "UNKNOWN"

LEMMA RunEapAnswers ==
  ASSUME NEW c, FramesOk(c), NEW in, Typed(in.ub)
  PROVE  LET d == RunEap(c, in)
         IN  /\ FramesOk(d)
             /\ d.sm = [c.sm EXCEPT !.eapRestart = d.sm.eapRestart]
             /\ c.sm.portEnabled /\ c.sm.eapReq /\ ~c.sm.eapRestart =>
                   Answering(d.eap)
<1>1. PICK x : x = IF c.prof # "NONE" THEN ProfileOf[c.prof]
                                      ELSE c.eap.curMethods
  OBVIOUS
<1>2. "NONE" \notin x
  BY <1>1, ConnsAssumption, ConstantTypes DEF FramesOk, Framed
<1>3. PICK e : e = [c.eap EXCEPT !.eapReq = c.sm.eapReq,
                                 !.portEnabled = c.sm.portEnabled,
                                 !.eapRestart = c.sm.eapRestart,
                                 !.curMethods = x]
  OBVIOUS
<1>4. /\ Framed(e) /\ e.eapReq = c.sm.eapReq
      /\ e.portEnabled = c.sm.portEnabled
      /\ e.eapRestart = c.sm.eapRestart
  BY <1>2, <1>3 DEF FramesOk, Framed, NewEap
<1>5. PICK s : s = SyncLowerToPeer(c)
  OBVIOUS
<1>6. s = [c EXCEPT !.eap = e]
  BY <1>1, <1>3, <1>5 DEF SyncLowerToPeer, FramesOk, Shaped, Framed, NewEap
<1>7. PICK r : r = EapRun(e, in.m, in.ub)
  OBVIOUS
<1>8. Framed(r) /\ (e.portEnabled /\ e.eapReq /\ ~e.eapRestart
                    => Answering(r))
  BY <1>4, <1>7, RunAnswers
<1>9. RunEap(c, in) = [s EXCEPT !.eap = r, !.sm.eapRestart = r.eapRestart]
  BY <1>5, <1>6, <1>7 DEF RunEap, SyncPeerToLower, FramesOk, Shaped
<1>10. PICK d : d = RunEap(c, in)
  OBVIOUS
<1>11. /\ d.eap = r /\ Shaped(d) /\ d.prof = c.prof
       /\ d.recvframe = c.recvframe
       /\ d.sm = [c.sm EXCEPT !.eapRestart = r.eapRestart]
  BY <1>6, <1>9, <1>10 DEF FramesOk, Shaped, NewSm
<1>12. d.sm = [c.sm EXCEPT !.eapRestart = d.sm.eapRestart]
  BY <1>11 DEF FramesOk, Shaped, NewSm
<1> QED
  BY <1>4, <1>8, <1>10, <1>11, <1>12 DEF FramesOk

\* REQUEST: the EAP machine deals with the frame at once.
LEMMA RequestAnswered ==
  ASSUME NEW c, FramesOk(c), NEW in, Typed(in.ub)
  PROVE  LET d == BeRequest(c, in)
         IN  /\ Settles(c, d) /\ d.sm.beCurState = "REQUEST"
             /\ c.sm.portEnabled /\ ~c.sm.eapRestart => Answering(d.eap)
             /\ d.sm.eapolEap = c.sm.eapolEap
             /\ d.sm.suppStart = c.sm.suppStart
             /\ d.sm.suppSuccess = c.sm.suppSuccess
             /\ d.sm.suppFail = c.sm.suppFail
             /\ d.sm.suppTimeout = c.sm.suppTimeout
<1>1. PICK r : r = [c EXCEPT !.sm.authWhile = 0, !.sm.eapReq = TRUE,
                             !.sm.beCurState = "REQUEST"]
  OBVIOUS
<1>2. PICK t : t = TakeFrame(r)
  OBVIOUS
<1>3. /\ FramesOk(t) /\ t.sm.beCurState = "REQUEST"
      /\ t.sm.eapReq /\ t.sm.portEnabled = c.sm.portEnabled
      /\ t.sm.eapRestart = c.sm.eapRestart
      /\ t.sm.eapolEap = c.sm.eapolEap
      /\ t.sm.suppStart = c.sm.suppStart
      /\ t.sm.suppSuccess = c.sm.suppSuccess
      /\ t.sm.suppFail = c.sm.suppFail
      /\ t.sm.suppTimeout = c.sm.suppTimeout
      /\ t.sm.initialize = c.sm.initialize
      /\ t.sm.suppAbort = c.sm.suppAbort
  <2>1. /\ FramesOk(r) /\ r.sm.beCurState = "REQUEST"
        /\ r.sm.eapReq /\ r.sm.portEnabled = c.sm.portEnabled
        /\ r.sm.eapRestart = c.sm.eapRestart
        /\ r.sm.eapolEap = c.sm.eapolEap
        /\ r.sm.suppStart = c.sm.suppStart
        /\ r.sm.suppSuccess = c.sm.suppSuccess
        /\ r.sm.suppFail = c.sm.suppFail
        /\ r.sm.suppTimeout = c.sm.suppTimeout
        /\ r.sm.initialize = c.sm.initialize
        /\ r.sm.suppAbort = c.sm.suppAbort
    BY <1>1 DEF FramesOk, Shaped, NewSm
  <2>2. t.sm = r.sm /\ FramesOk(t)
    BY <1>2, <2>1 DEF TakeFrame, FramesOk, Shaped, Framed, NewEap
  <2> QED
    BY <2>1, <2>2
<1>4. PICK d : d = RunEap(t, in)
  OBVIOUS
<1>5. /\ FramesOk(d)
      /\ c.sm.portEnabled /\ ~c.sm.eapRestart => Answering(d.eap)
      /\ d.sm = [t.sm EXCEPT !.eapRestart = d.sm.eapRestart]
  BY <1>3, <1>4, RunEapAnswers
<1>6. BeRequest(c, in) = d
  BY <1>1, <1>2, <1>4 DEF BeRequest, GetSuppRsp
<1> HIDE DEF FramesOk
<1> QED
  BY <1>3, <1>5, <1>6 DEF Settles, FramesOk, Shaped, NewSm

LEMMA OpsSettle ==
  ASSUME NEW c, FramesOk(c)
  PROVE  /\ Settles(c, BeIdle(c)) /\ Settles(c, BeInitialize(c))
         /\ Settles(c, BeFail(c)) /\ Settles(c, BeTimeout(c))
         /\ Settles(c, BeSuccess(c)) /\ Settles(c, BeReceive(c))
         /\ Settles(c, BeResponse(c))
<1> USE DEF Settles, FramesOk, Shaped, NewSm, Framed, NewEap
<1>1. Settles(c, BeIdle(c)) /\ Settles(c, BeFail(c))
      /\ Settles(c, BeTimeout(c)) /\ Settles(c, BeSuccess(c))
  BY DEF BeIdle, BeFail, BeTimeout, BeSuccess
<1>2. Settles(c, BeInitialize(c))
  BY DEF BeInitialize, BeIdle, AbortSupp
<1>3. ASSUME NEW x, FramesOk(x) PROVE Settles(x, BeReceive(x))
  BY <1>3 DEF BeReceive
<1>4. Settles(c, BeResponse(c))
  <2>1. PICK x : x = TxSuppRsp(c)
    OBVIOUS
  <2>2. Settles(c, x)
    BY <2>1 DEF TxSuppRsp, Transmit
  <2>3. PICK y : y = [x EXCEPT !.eap.respData = NullResp]
    OBVIOUS
  <2>4. Settles(c, y)
    BY <2>2, <2>3
  <2>5. BeResponse(c) = BeReceive(y)
    BY <2>1, <2>3 DEF BeResponse
  <2> QED
    BY <1>3, <2>4, <2>5
<1> QED
  BY <1>1, <1>2, <1>3, <1>4

LEMMA BackendSettles ==
  ASSUME NEW c, FramesOk(c), NEW in, Typed(in.ub),
         c.sm.beCurState = "UNKNOWN" => c.sm.initialize \/ c.sm.suppAbort
  PROVE  LET d == BackendRun(c, in)
         IN  /\ Settles(c, d) /\ ~d.sm.initialize /\ ~d.sm.suppAbort
             /\ d.sm.beCurState # "UNKNOWN"
<1>1. PICK a : a = Aborted(c)
  OBVIOUS
<1>2. /\ Settles(c, a) /\ ~a.sm.initialize /\ ~a.sm.suppAbort
      /\ a.sm.beCurState # "UNKNOWN"
  <2>1. CASE c.sm.initialize \/ c.sm.suppAbort
    <3>1. a = BeInitialize(c)
      BY <1>1, <2>1 DEF Aborted
    <3>2. /\ ~a.sm.initialize /\ ~a.sm.suppAbort
          /\ a.sm.beCurState # "UNKNOWN"
      BY <3>1
         DEF BeInitialize, BeIdle, AbortSupp, FramesOk, Shaped, NewSm
    <3> QED
      BY <3>1, <3>2, OpsSettle
  <2>2. CASE ~c.sm.initialize /\ ~c.sm.suppAbort
    BY <1>1, <2>2 DEF Aborted, Settles
  <2> QED
    BY <2>1, <2>2
<1> DEFINE S(d) == Settles(a, d)
<1>3. ASSUME NEW d, S(d)
      PROVE  /\ S(BeIdle(d)) /\ S(BeInitialize(d)) /\ S(BeFail(d))
             /\ S(BeTimeout(d)) /\ S(BeSuccess(d)) /\ S(BeReceive(d))
             /\ S(RunEap(d, in)) /\ S(BeResponse(d)) /\ S(BeRequest(d, in))
  <2>1. ASSUME NEW x, Settles(d, x) PROVE S(x)
    BY <1>3, <2>1 DEF Settles
  <2>2. FramesOk(d)
    BY <1>3 DEF Settles
  <2> HIDE DEF S
  <2>3. Settles(d, BeRequest(d, in))
    BY <2>2, RequestAnswered
  <2>4. PICK r : r = RunEap(d, in)
    OBVIOUS
  <2>5. FramesOk(r) /\ r.sm = [d.sm EXCEPT !.eapRestart = r.sm.eapRestart]
    BY <2>2, <2>4, RunEapAnswers
  <2>6. Settles(d, r)
    BY <2>2, <2>5 DEF Settles, FramesOk, Shaped, NewSm
  <2> QED
    BY <2>1, <2>2, <2>3, <2>4, <2>6, OpsSettle
<1>4. S(a)
  BY <1>2 DEF Settles
<1> HIDE DEF S
<1>5. ASSUME NEW d, S(d)
      PROVE  /\ S(Failed(d)) /\ S(Succeeded(d)) /\ S(Silent(d))
             /\ S(Answered(d)) /\ S(TimedOut(d)) /\ S(Heard(d, in))
             /\ S(FailedIfAsked(d)) /\ S(HeardIfAsked(d, in))
             /\ S(SucceededIfAsked(d))
  BY <1>3, <1>5 DEF Failed, Succeeded, Silent, Answered, TimedOut, Heard,
     FailedIfAsked, HeardIfAsked, SucceededIfAsked
<1>6. ASSUME NEW d, S(d)
      PROVE  /\ S(BeDoIdle(d, in)) /\ S(BeDoRequest(d))
             /\ S(BeDoReceive(d, in))
  BY <1>5, <1>6 DEF BeDoIdle, BeDoRequest, BeDoReceive
<1>7. S(BeGlobals(c, in))
  BY <1>1, <1>3, <1>4 DEF BeGlobals, Restarted
<1>8. S(BackendRun(c, in))
  BY <1>6, <1>7 DEF BackendRun, BeDo
<1> QED
  BY <1>2, <1>8 DEF S, Settles

\* The operations of the backend, as far as a verdict is concerned.
LEMMA OpsReport ==
  ASSUME NEW c, FramesOk(c)
  PROVE  /\ FramesOk(BeFail(c)) /\ BeFail(c).sm.suppFail
         /\ ~BeFail(c).sm.suppStart /\ BeFail(c).eap = c.eap
         /\ FramesOk(BeSuccess(c)) /\ BeSuccess(c).sm.suppSuccess
         /\ FramesOk(BeTimeout(c)) /\ BeTimeout(c).sm.suppTimeout
         /\ \A d \in {BeFail(c), BeTimeout(c), BeSuccess(c)} :
               /\ d.sm.portEnabled = c.sm.portEnabled
               /\ d.sm.eapRestart = c.sm.eapRestart
         /\ \A d \in {BeReceive(c), BeResponse(c)} :
               /\ FramesOk(d)
               /\ d.sm.beCurState = "RECEIVE" /\ ~d.sm.eapolEap
               /\ d.sm.suppFail = c.sm.suppFail
               /\ d.eap.eapFail = c.eap.eapFail
               /\ d.eap.eapSuccess = c.eap.eapSuccess
         /\ BeReceive(c).eap.eapResp = c.eap.eapResp
<1> USE DEF FramesOk, Shaped, NewSm, Framed, NewEap
<1>1. /\ FramesOk(BeFail(c)) /\ BeFail(c).sm.suppFail
      /\ ~BeFail(c).sm.suppStart /\ BeFail(c).eap = c.eap
      /\ BeFail(c).sm.portEnabled = c.sm.portEnabled
      /\ BeFail(c).sm.eapRestart = c.sm.eapRestart
  BY DEF BeFail, BeIdle
<1>2. /\ FramesOk(BeSuccess(c)) /\ BeSuccess(c).sm.suppSuccess
      /\ BeSuccess(c).sm.portEnabled = c.sm.portEnabled
      /\ BeSuccess(c).sm.eapRestart = c.sm.eapRestart
      /\ FramesOk(BeTimeout(c)) /\ BeTimeout(c).sm.suppTimeout
      /\ BeTimeout(c).sm.portEnabled = c.sm.portEnabled
      /\ BeTimeout(c).sm.eapRestart = c.sm.eapRestart
  BY DEF BeSuccess, BeTimeout, BeIdle
<1>3. ASSUME NEW x, FramesOk(x)
      PROVE  LET d == BeReceive(x)
             IN  /\ FramesOk(d)
                 /\ d.sm.beCurState = "RECEIVE" /\ ~d.sm.eapolEap
                 /\ d.sm.suppFail = x.sm.suppFail
                 /\ d.eap.eapFail = x.eap.eapFail
                 /\ d.eap.eapSuccess = x.eap.eapSuccess
                 /\ d.eap.eapResp = x.eap.eapResp
  BY <1>3 DEF BeReceive
<1>4. PICK x : x = TxSuppRsp(c)
  OBVIOUS
<1>5. /\ FramesOk(x) /\ x.sm.suppFail = c.sm.suppFail
      /\ x.eap.eapFail = c.eap.eapFail
      /\ x.eap.eapSuccess = c.eap.eapSuccess
  BY <1>4 DEF TxSuppRsp, Transmit
<1>6. PICK y : y = [x EXCEPT !.eap.respData = NullResp]
  OBVIOUS
<1>7. /\ FramesOk(y) /\ y.sm.suppFail = c.sm.suppFail
      /\ y.eap.eapFail = c.eap.eapFail
      /\ y.eap.eapSuccess = c.eap.eapSuccess
  BY <1>5, <1>6
<1>8. BeResponse(c) = BeReceive(y)
  BY <1>4, <1>6 DEF BeResponse
<1> HIDE DEF FramesOk
<1> QED
  BY <1>1, <1>2, <1>3, <1>7, <1>8

(***************************************************************************)
(* A conversation that waits for something gets it in one run.             *)
(***************************************************************************)
Verdict(c) == c.sm.suppSuccess \/ c.sm.suppFail \/ c.sm.suppTimeout

Waits(c) ==
    \/ c.sm.beCurState = "RECEIVE"
    \/ c.sm.beCurState = "REQUEST" /\ Answering(c.eap)

\* IDLE, at the start of a conversation.
LEMMA IdleWaits ==
  ASSUME NEW c, FramesOk(c), c.sm.portEnabled, ~c.sm.eapRestart, NEW in,
         Typed(in.ub), c.sm.suppStart, ~c.sm.suppTimeout,
         c.sm.eapolEap \/ c.eap.eapFail \/ c.eap.eapSuccess
  PROVE  LET d == BeDoIdle(c, in)
         IN  \/ d.sm.suppSuccess \/ d.sm.suppFail
             \/ /\ d.sm.beCurState = "REQUEST" /\ Answering(d.eap)
                /\ ~d.sm.suppTimeout
<1>1. CASE c.eap.eapFail
  <2>1. PICK f : f = BeFail(c)
    OBVIOUS
  <2>2. f.sm.suppFail /\ ~f.sm.suppStart
    BY <2>1, OpsReport
  <2>3. BeDoIdle(c, in) = f
    BY <1>1, <2>1, <2>2
       DEF BeDoIdle, FailedIfAsked, Failed, HeardIfAsked, SucceededIfAsked
  <2> QED
    BY <2>2, <2>3
<1>2. CASE ~c.eap.eapFail
  <2>1. FailedIfAsked(c) = c
    BY <1>2 DEF FailedIfAsked, Failed
  <2>2. PICK h : h = HeardIfAsked(c, in)
    OBVIOUS
  <2>3. BeDoIdle(c, in) = SucceededIfAsked(h)
    BY <2>1, <2>2 DEF BeDoIdle
  <2>4. CASE c.sm.eapolEap
    <3>1. h = BeRequest(c, in)
      BY <2>2, <2>4 DEF HeardIfAsked, Heard
    <3>2. /\ FramesOk(h) /\ h.sm.beCurState = "REQUEST" /\ Answering(h.eap)
          /\ ~h.sm.suppTimeout
      BY <3>1, RequestAnswered DEF Settles
    <3> QED
      BY <2>3, <3>2, OpsReport DEF SucceededIfAsked, Succeeded
  <2>5. CASE ~c.sm.eapolEap
    <3>1. h = c /\ c.eap.eapSuccess
      BY <1>2, <2>2, <2>5 DEF HeardIfAsked, Heard
    <3> QED
      BY <2>3, <3>1, OpsReport DEF SucceededIfAsked, Succeeded
  <2> QED
    BY <2>4, <2>5
<1> QED
  BY <1>1, <1>2

\* RECEIVE: a frame is taken, whatever else happened.
LEMMA ReceiveWaitsOn ==
  ASSUME NEW c, FramesOk(c), c.sm.portEnabled, ~c.sm.eapRestart, NEW in,
         Typed(in.ub), c.sm.beCurState = "RECEIVE"
  PROVE  LET d == BeDoReceive(c, in)
         IN  /\ Verdict(d) \/ Waits(d)
             /\ d.sm.eapolEap => d.sm.beCurState = "REQUEST"
<1> DEFINE S(x) == /\ FramesOk(x) /\ x.sm.portEnabled /\ ~x.sm.eapRestart
                   /\ Verdict(x) \/ x.sm.beCurState = "RECEIVE"
<1>1. ASSUME NEW x, S(x)
      PROVE  S(BeFail(x)) /\ S(BeTimeout(x)) /\ S(BeSuccess(x))
  BY <1>1, OpsReport DEF Verdict
<1>2. S(c)
  OBVIOUS
<1> HIDE DEF S
<1>3. PICK b : b = Succeeded(TimedOut(Failed(c)))
  OBVIOUS
<1>4. S(b)
  BY <1>1, <1>2, <1>3 DEF Succeeded, TimedOut, Failed
<1>5. BeDoReceive(c, in) = Heard(b, in)
  BY <1>3 DEF BeDoReceive
<1>6. CASE b.sm.eapolEap
  <2>1. PICK d : d = BeRequest(b, in)
    OBVIOUS
  <2>2. d.sm.beCurState = "REQUEST" /\ Answering(d.eap)
    BY <1>4, <2>1, RequestAnswered DEF S
  <2> QED
    BY <1>5, <1>6, <2>1, <2>2 DEF Heard, Waits
<1>7. CASE ~b.sm.eapolEap
  BY <1>4, <1>5, <1>7 DEF S, Heard, Waits
<1> QED
  BY <1>6, <1>7

\* REQUEST: the answer is sent, or there is a verdict.
LEMMA RequestWaits ==
  ASSUME NEW c, FramesOk(c), c.sm.beCurState = "REQUEST", Answering(c.eap)
  PROVE  LET d == BeDoRequest(c)
         IN  \/ d.sm.suppSuccess \/ d.sm.suppFail
             \/ d.sm.beCurState = "RECEIVE" /\ ~d.sm.eapolEap
<1>1. PICK a : a = Failed(c)
  OBVIOUS
<1>2. FramesOk(a) /\ a.eap = c.eap /\ (c.eap.eapFail => a.sm.suppFail)
  BY <1>1, OpsReport DEF Failed
<1>3. PICK b : b = Silent(a)
  OBVIOUS
<1>4. /\ FramesOk(b) /\ b.sm.suppFail = a.sm.suppFail
      /\ b.eap.eapSuccess = c.eap.eapSuccess
      /\ b.eap.eapResp = c.eap.eapResp
      /\ c.eap.eapNoResp => b.sm.beCurState = "RECEIVE" /\ ~b.sm.eapolEap
  BY <1>2, <1>3, OpsReport DEF Silent
<1>5. PICK x : x = Answered(b)
  OBVIOUS
<1>6. /\ FramesOk(x) /\ x.sm.suppFail = a.sm.suppFail
      /\ x.eap.eapSuccess = c.eap.eapSuccess
      /\ c.eap.eapNoResp \/ c.eap.eapResp =>
            x.sm.beCurState = "RECEIVE" /\ ~x.sm.eapolEap
  BY <1>4, <1>5, OpsReport DEF Answered
<1>7. BeDoRequest(c) = Succeeded(x)
  BY <1>1, <1>3, <1>5 DEF BeDoRequest
<1> QED
  BY <1>2, <1>6, <1>7, OpsReport DEF Succeeded, Answering

(***************************************************************************)
(* The runs a frame still needs, by the state of the port access entity.   *)
(***************************************************************************)
RunsLeft(c) ==
    IF ~c.sm.eapolEap THEN 0
    ELSE IF c.sm.curState \in {"CONNECTING", "HELD", "AUTHENTICATED"} THEN 3
    ELSE IF c.sm.curState = "DISCONNECTED" /\ ~c.sm.initialize THEN 3
    ELSE IF c.sm.curState # "AUTHENTICATING" THEN 4
    ELSE IF c.sm.suppSuccess \/ c.sm.suppFail THEN 1
    ELSE IF c.sm.suppTimeout THEN 3
    ELSE IF c.sm.beCurState = "REQUEST" THEN 2 ELSE 4

\* Nothing is waited for that the next run does not bring.
Prompt(c) ==
    /\ c.sm.portEnabled
    /\ c.sm.initialize \/ c.sm.suppAbort =>
          c.sm.curState \in {"DISCONNECTED", "LOGOFF", "S_FORCE_AUTH"}
    /\ c.sm.beCurState = "UNKNOWN" => c.sm.initialize
    /\ c.sm.curState = "AUTHENTICATING" => Verdict(c) \/ Waits(c)

\* A conversation that starts.
Starts(c) ==
    /\ FramesOk(c) /\ c.sm.portEnabled /\ ~c.sm.eapRestart
    /\ c.sm.curState = "AUTHENTICATING" /\ c.sm.beCurState = "IDLE"
    /\ c.sm.suppStart /\ ~Verdict(c)
    /\ ~c.sm.initialize /\ ~c.sm.suppAbort
    /\ c.sm.eapolEap \/ c.eap.eapFail \/ c.eap.eapSuccess

\* No conversation, and no frame for one, unless it is to be disconnected.
Rests(c, d) ==
    /\ FramesOk(d) /\ d.sm.portEnabled
    /\ d.sm.curState # "AUTHENTICATING"
    /\ d.sm.beCurState = "UNKNOWN" => d.sm.initialize
    /\ d.sm.eapolEap => d.sm.curState = "DISCONNECTED" /\ RunsLeft(c) = 4

LEMMA AuthenticatingStarts ==
  ASSUME NEW c, FramesOk(c), c.sm.portEnabled,
         c.sm.curState \in {"CONNECTING", "RESTART"},
         c.sm.beCurState = "IDLE", ~c.sm.initialize, ~c.sm.suppAbort,
         c.sm.eapolEap \/ c.eap.eapFail \/ c.eap.eapSuccess,
         Entered(ToAuthenticating(c))
  PROVE  Starts(ToAuthenticating(c))
<1>1. PICK v : v = ForgetVerdict(c)
  OBVIOUS
<1>2. /\ FramesOk(v) /\ v.eap = c.eap /\ v.sm.portEnabled
      /\ v.sm.beCurState = "IDLE" /\ ~v.sm.initialize /\ ~v.sm.suppAbort
      /\ v.sm.eapolEap = c.sm.eapolEap /\ ~Verdict(v)
  BY <1>1 DEF ForgetVerdict, FramesOk, Shaped, NewSm, Verdict
<1>3. PICK d : d = [v EXCEPT !.sm.startCount = 0, !.sm.suppStart = TRUE,
                             !.sm.curState = "AUTHENTICATING"]
  OBVIOUS
<1>4. ToAuthenticating(c) = d
  BY <1>1, <1>3 DEF ToAuthenticating
<1>5. ~d.sm.eapRestart
  BY <1>4 DEF Entered, Base
<1>6. /\ FramesOk(d) /\ d.eap = c.eap /\ d.sm.portEnabled
      /\ d.sm.curState = "AUTHENTICATING" /\ d.sm.suppStart
      /\ d.sm.beCurState = "IDLE" /\ ~d.sm.initialize /\ ~d.sm.suppAbort
      /\ d.sm.eapolEap = c.sm.eapolEap /\ ~Verdict(d)
  BY <1>2, <1>3 DEF FramesOk, Shaped, NewSm, Verdict
<1> QED
  BY <1>4, <1>5, <1>6 DEF Starts

\* Asked to restart, the backend comes back with nothing left to initialise.
LEMMA RestartSettles ==
  ASSUME NEW c, FramesOk(c), c.sm.eapRestart, NEW in, Typed(in.ub)
  PROVE  LET d == BackendRun(c, in)
         IN  /\ FramesOk(d) /\ d.sm.beCurState = "IDLE"
             /\ ~d.sm.initialize /\ ~d.sm.suppAbort
             /\ d.sm.eapolEap = c.sm.eapolEap
<1>1. ASSUME NEW x, FramesOk(x)
      PROVE  LET i == BeInitialize(x)
             IN  /\ FramesOk(i) /\ i.sm.beCurState = "IDLE"
                 /\ ~i.sm.suppStart /\ ~i.sm.initialize /\ ~i.sm.suppAbort
                 /\ i.sm.eapolEap = x.sm.eapolEap
                 /\ i.sm.eapRestart = x.sm.eapRestart
  BY <1>1 DEF BeInitialize, BeIdle, AbortSupp, FramesOk, Shaped, NewSm,
              Framed, NewEap
<1>2. PICK a : a = Aborted(c)
  OBVIOUS
<1>3. FramesOk(a) /\ a.sm.eapRestart /\ a.sm.eapolEap = c.sm.eapolEap
  BY <1>1, <1>2 DEF Aborted
<1>4. PICK i : i = BeInitialize(a)
  OBVIOUS
<1>5. /\ FramesOk(i) /\ i.sm.beCurState = "IDLE"
      /\ ~i.sm.suppStart /\ ~i.sm.initialize /\ ~i.sm.suppAbort
      /\ i.sm.eapolEap = c.sm.eapolEap
  BY <1>1, <1>3, <1>4
<1>6. PICK g : g = RunEap(i, in)
  OBVIOUS
<1>7. FramesOk(g) /\ g.sm = [i.sm EXCEPT !.eapRestart = g.sm.eapRestart]
  BY <1>5, <1>6, RunEapAnswers
<1>8. /\ g.sm.beCurState = "IDLE" /\ ~g.sm.suppStart
      /\ ~g.sm.initialize /\ ~g.sm.suppAbort
      /\ g.sm.eapolEap = c.sm.eapolEap
  BY <1>5, <1>7 DEF FramesOk, Shaped, NewSm
<1>9. BeGlobals(c, in) = g
  BY <1>2, <1>3, <1>4, <1>6 DEF BeGlobals, Restarted
<1>10. BackendRun(c, in) = g
  BY <1>8, <1>9, BeDoIdleQuiet DEF BackendRun, BeDo
<1> QED
  BY <1>7, <1>8, <1>10

LEMMA RestartStarts ==
  ASSUME NEW c, FramesOk(c), c.sm.portEnabled, c.sm.eapolEap,
         c.sm.curState \in {"AUTHENTICATED", "CONNECTING", "HELD"},
         NEW in, Typed(in.ub), Entered(ToRestart(c, in))
  PROVE  Starts(ToRestart(c, in))
<1>1. PICK m : m = [c EXCEPT !.sm.eapRestart = TRUE,
                             !.sm.curState = "RESTART",
                             !.sm.portControl = "AUTO", !.sm.eapReq = FALSE]
  OBVIOUS
<1>2. /\ FramesOk(m) /\ m.sm.portEnabled /\ m.sm.eapolEap
      /\ m.sm.curState = "RESTART" /\ m.sm.eapRestart
  BY <1>1 DEF FramesOk, Shaped, NewSm
<1>3. PICK b : b = BackendRun(m, in)
  OBVIOUS
<1>4. KeepsPort(m, b)
  BY <1>2, <1>3, BackendPort DEF FramesOk
<1>5. /\ FramesOk(b) /\ b.sm.portEnabled /\ b.sm.eapolEap
      /\ b.sm.curState = "RESTART" /\ b.sm.beCurState = "IDLE"
      /\ ~b.sm.initialize /\ ~b.sm.suppAbort
  BY <1>2, <1>3, <1>4, RestartSettles DEF KeepsPort
<1>6. PICK q : q = c.sm.eapReq
  OBVIOUS
<1>7. PICK r : r = [b EXCEPT !.sm.eapReq = q]
  OBVIOUS
<1>8. /\ FramesOk(r) /\ r.sm.portEnabled /\ r.sm.eapolEap
      /\ r.sm.curState = "RESTART" /\ r.sm.beCurState = "IDLE"
      /\ ~r.sm.initialize /\ ~r.sm.suppAbort
  BY <1>5, <1>7 DEF FramesOk, Shaped, NewSm
<1>9. ToRestart(c, in) = DoRestart(r)
  BY <1>1, <1>3, <1>6, <1>7 DEF ToRestart
<1>10. DoRestart(r) = ToAuthenticating(r)
  BY <1>8, <1>9 DEF DoRestart, Entered
<1> QED
  BY <1>8, <1>9, <1>10, AuthenticatingStarts

\* CONNECTING begins a conversation at once when there is a frame.
LEMMA ConnectingStarts ==
  ASSUME NEW c, FramesOk(c), c.sm.portEnabled,
         c.sm.curState \in {"CONNECTING", "HELD", "DISCONNECTED",
                            "AUTHENTICATING"},
         c.sm.beCurState = "UNKNOWN" => c.sm.initialize,
         NEW in, Typed(in.ub), Entered(ToConnecting(c, in)), NEW o
  PROVE  LET e == ToConnecting(c, in)
         IN  /\ c.sm.eapolEap => Starts(e)
             /\ ~c.sm.eapolEap => Rests(o, e)
<1>1. PICK d : d = [c EXCEPT !.sm.curState = "CONNECTING"]
  OBVIOUS
<1> DEFINE S(x) == /\ FramesOk(x) /\ x.sm.portEnabled
                   /\ x.sm.curState = "CONNECTING"
                   /\ x.sm.eapolEap = c.sm.eapolEap
                   /\ x.sm.beCurState = "UNKNOWN" => x.sm.initialize
<1>2. S(d)
  BY <1>1 DEF FramesOk, Shaped, NewSm
<1>3. PICK w : w = [d EXCEPT !.sm.startWhen = StartPeriod]
  OBVIOUS
<1>4. S(w)
  BY <1>2, <1>3 DEF FramesOk, Shaped, NewSm
<1>5. PICK s : s = TxStart(w)
  OBVIOUS
<1>6. S(s)
  BY <1>4, <1>5 DEF TxStart, Transmit, FramesOk, Shaped
<1>7. PICK z : z = [s EXCEPT !.sm.startCount = (@ + 1) % 256]
  OBVIOUS
<1>8. S(z)
  BY <1>6, <1>7 DEF FramesOk, Shaped, NewSm
<1>9. ToConnecting(c, in) = IF d.sm.eapolEap THEN ToRestart(d, in)
                            ELSE IF d.conn = "NONE" THEN w ELSE z
  BY <1>1, <1>3, <1>5, <1>7 DEF ToConnecting
<1>10. CASE c.sm.eapolEap
  BY <1>2, <1>9, <1>10, RestartStarts
<1>11. CASE ~c.sm.eapolEap
  BY <1>2, <1>4, <1>8, <1>9, <1>11 DEF Rests
<1> QED
  BY <1>10, <1>11

(***************************************************************************)
(* One run of the machines.                                                *)
(***************************************************************************)
\* What the port access entity makes of a context.
Moves(c, e) ==
    \/ Starts(e) /\ (c.sm.eapolEap => RunsLeft(c) >= 3)
    \/ Rests(c, e)
    \/ e = c /\ c.sm.curState = "AUTHENTICATING" /\ ~Verdict(c)
    \/ e = ToForceAuth(c)

LEMMA ChangesRest ==
  ASSUME NEW c, FramesOk(c), c.sm.portEnabled,
         c.sm.beCurState = "UNKNOWN" => c.sm.initialize
  PROVE  /\ c.sm.curState = "LOGOFF" => Rests(c, ToDisconnected(c))
         /\ Rests(c, ToAuthenticated(c))
         /\ c.sm.curState = "AUTHENTICATING" => Rests(c, ToHeld(c))
<1> USE DEF FramesOk, Shaped, NewSm, Rests
<1>1. Rests(c, ToAuthenticated(c))
  BY DEF ToAuthenticated
<1>2. c.sm.curState = "AUTHENTICATING" => Rests(c, ToHeld(c))
  BY DEF ToHeld
<1>3. CASE c.sm.curState = "LOGOFF"
  <2>1. PICK e : e = [c EXCEPT !.sm.sPortMode = "AUTO",
                               !.sm.startCount = 0,
                               !.sm.logoffSent = FALSE]
    OBVIOUS
  <2>2. /\ FramesOk(e) /\ e.sm.portEnabled
        /\ e.sm.beCurState = "UNKNOWN" => e.sm.initialize
        /\ e.sm.eapolEap = c.sm.eapolEap
    BY <2>1
  <2>3. ToDisconnected(c) = [e EXCEPT !.sm.suppPortStatus = "UNAUTHORIZED",
                                      !.sm.suppAbort = TRUE,
                                      !.sm.curState = "DISCONNECTED"]
    BY <2>1 DEF ToDisconnected
  <2>4. c.sm.eapolEap => RunsLeft(c) = 4
    BY <1>3 DEF RunsLeft
  <2>5. PICK d : d = ToDisconnected(c)
    OBVIOUS
  <2> HIDE DEF Rests
  <2>6. /\ FramesOk(d) /\ d.sm.portEnabled
        /\ d.sm.curState = "DISCONNECTED"
        /\ d.sm.beCurState = "UNKNOWN" => d.sm.initialize
        /\ d.sm.eapolEap = c.sm.eapolEap
    <3>1. ASSUME NEW x, FramesOk(x)
          PROVE  LET y == [x EXCEPT !.sm.suppPortStatus = "UNAUTHORIZED",
                                    !.sm.suppAbort = TRUE,
                                    !.sm.curState = "DISCONNECTED"]
                 IN  /\ FramesOk(y) /\ y.sm.curState = "DISCONNECTED"
                     /\ y.sm.portEnabled = x.sm.portEnabled
                     /\ y.sm.beCurState = x.sm.beCurState
                     /\ y.sm.initialize = x.sm.initialize
                     /\ y.sm.eapolEap = x.sm.eapolEap
      BY <3>1
    <3> HIDE DEF FramesOk
    <3> QED
      BY <2>2, <2>3, <2>5, <3>1
  <2> QED
    BY <1>1, <1>2, <2>4, <2>5, <2>6 DEF Rests
<1> QED
  BY <1>1, <1>2, <1>3

LEMMA ConnectingMoves ==
  ASSUME NEW c, FramesOk(c), Prompt(c), Follow(c), NEW in, Typed(in.ub),
         c.sm.curState = "CONNECTING", Entered(DoConnecting(c, in))
  PROVE  Moves(c, DoConnecting(c, in))
<1>1. /\ c.sm.portEnabled /\ ~c.sm.initialize /\ ~c.sm.suppAbort
      /\ c.sm.beCurState = "IDLE" /\ c.sm.beCurState # "UNKNOWN"
      /\ c.sm.eapolEap => RunsLeft(c) = 3
  BY DEF Prompt, Follow, Follows, BackendQuiet, RunsLeft
<1>2. PICK s : s = TxStart(c)
  OBVIOUS
<1>3. FramesOk(s) /\ s.sm = c.sm
  BY <1>2 DEF TxStart, Transmit, FramesOk, Shaped
<1>4. CASE DoConnecting(c, in) = ToConnecting(s, in)
  BY <1>1, <1>3, <1>4, ConnectingStarts DEF Moves
<1>5. CASE /\ DoConnecting(c, in) = ToAuthenticating(c)
           /\ c.eap.eapSuccess \/ c.eap.eapFail
  BY <1>1, <1>5, AuthenticatingStarts DEF Moves
<1>6. CASE DoConnecting(c, in) = ToRestart(c, in) /\ c.sm.eapolEap
  BY <1>1, <1>6, RestartStarts DEF Moves
<1>7. CASE DoConnecting(c, in) = c /\ ~c.sm.eapolEap
  BY <1>1, <1>7 DEF Moves, Rests
<1>8. CASE DoConnecting(c, in) = ToForceAuth(c)
  BY <1>8 DEF Moves
<1> QED
  BY <1>2, <1>4, <1>5, <1>6, <1>7, <1>8 DEF DoConnecting

LEMMA WaitingMoves ==
  ASSUME NEW c, FramesOk(c), Prompt(c), NEW in, Typed(in.ub),
         c.sm.curState \in {"HELD", "DISCONNECTED"}, Entered(DoPae(c, in))
  PROVE  Moves(c, DoPae(c, in))
<1>1. c.sm.portEnabled /\ (c.sm.beCurState = "UNKNOWN" => c.sm.initialize)
  BY DEF Prompt
<1>2. CASE c.sm.curState = "DISCONNECTED" /\ c.sm.initialize
  <2>1. DoPae(c, in) = c
    BY <1>2 DEF DoPae, DoDisconnected
  <2>2. c.sm.eapolEap => RunsLeft(c) = 4
    BY <1>2 DEF RunsLeft
  <2> QED
    BY <1>1, <1>2, <2>1, <2>2 DEF Moves, Rests
<1>3. CASE ~(c.sm.curState = "DISCONNECTED" /\ c.sm.initialize)
  <2>1. c.sm.eapolEap => RunsLeft(c) = 3
    BY <1>3 DEF RunsLeft
  <2>2. CASE DoPae(c, in) = ToConnecting(c, in)
    BY <1>1, <2>1, <2>2, ConnectingStarts DEF Moves
  <2>3. CASE /\ c.sm.curState = "HELD" /\ c.sm.eapolEap
             /\ DoPae(c, in) = ToRestart(c, in)
    BY <1>1, <2>1, <2>3, RestartStarts DEF Moves
  <2>4. CASE /\ c.sm.curState = "HELD" /\ ~c.sm.eapolEap
             /\ DoPae(c, in) = c
    BY <1>1, <2>4 DEF Moves, Rests
  <2> QED
    BY <1>1, <1>3, <2>2, <2>3, <2>4 DEF DoPae, DoHeld, DoDisconnected
<1> QED
  BY <1>2, <1>3

LEMMA AuthenticatedMoves ==
  ASSUME NEW c, FramesOk(c), Prompt(c), NEW in, Typed(in.ub),
         c.sm.curState = "AUTHENTICATED", Entered(DoAuthenticated(c, in))
  PROVE  Moves(c, DoAuthenticated(c, in))
<1>1. c.sm.portEnabled /\ (c.sm.beCurState = "UNKNOWN" => c.sm.initialize)
  BY DEF Prompt
<1>2. CASE ~c.sm.eapolEap
  BY <1>1, <1>2 DEF DoAuthenticated, Moves, Rests
<1>3. CASE c.sm.eapolEap /\ c.recvframe.code = "SUCCESS"
  <2>1. PICK k : k = [c EXCEPT !.sm.eapolEap = FALSE]
    OBVIOUS
  <2>2. /\ FramesOk(k) /\ k.sm.portEnabled /\ ~k.sm.eapolEap
        /\ k.sm.curState = "AUTHENTICATED"
        /\ k.sm.beCurState = "UNKNOWN" => k.sm.initialize
    BY <1>1, <2>1 DEF FramesOk, Shaped, NewSm
  <2>3. PICK f : f = IF k.recvframe = NullFrame \/ k.eap.reqData = NullFrame
                     THEN k.eap.reqData ELSE FreedFrame
    OBVIOUS
  <2>4. Typed(f) /\ Typed(NullFrame)
    BY <2>2, <2>3 DEF FramesOk, Framed, Typed, NullFrame, FreedFrame
  <2>5. PICK d : d = [k EXCEPT !.recvframe = NullFrame, !.eap.reqData = f]
    OBVIOUS
  <2>6. d.sm = k.sm /\ FramesOk(d)
    BY <2>2, <2>4, <2>5 DEF FramesOk, Shaped, Framed, NewEap
  <2>7. DoAuthenticated(c, in) = d
    BY <1>3, <2>1, <2>2, <2>3, <2>5
       DEF DoAuthenticated, ReleaseFrame, FramesOk, Shaped
  <2> QED
    BY <2>2, <2>6, <2>7 DEF Moves, Rests
<1>4. CASE c.sm.eapolEap /\ c.recvframe.code # "SUCCESS"
  <2>1. PICK w : w = IF c.recvframe.code \in {"NULL", "OTHER"}
                     THEN [c EXCEPT !.eap.wild = TRUE] ELSE c
    OBVIOUS
  <2>2. FramesOk(w) /\ w.sm = c.sm
    BY <2>1 DEF FramesOk, Shaped, Framed, NewEap
  <2>3. DoAuthenticated(c, in) = ToRestart(w, in)
    BY <1>4, <2>1 DEF DoAuthenticated
  <2>4. RunsLeft(c) = 3
    BY <1>4 DEF RunsLeft
  <2> QED
    BY <1>1, <1>4, <2>2, <2>3, <2>4, RestartStarts DEF Moves
<1> QED
  BY <1>2, <1>3, <1>4

LEMMA PaeMoves ==
  ASSUME NEW c, FramesOk(c), Prompt(c), Follow(c), ~Forced(c),
         ~c.sm.userLogoff,
         c.sm.curState \in PaeStateNames \ {"RESTART", "S_FORCE_UNAUTH"},
         NEW in, Typed(in.ub), Entered(DoPae(c, in))
  PROVE  Moves(c, DoPae(c, in))
<1>1. c.sm.portEnabled /\ (c.sm.beCurState = "UNKNOWN" => c.sm.initialize)
  BY DEF Prompt
<1>2. CASE c.sm.curState = "LOGOFF"
  BY <1>1, <1>2, ChangesRest DEF DoPae, DoLogoff, Moves
<1>3. CASE c.sm.curState = "CONNECTING"
  BY <1>3, ConnectingMoves DEF DoPae
<1>4. CASE c.sm.curState = "AUTHENTICATED"
  BY <1>4, AuthenticatedMoves DEF DoPae
<1>5. CASE c.sm.curState \in {"HELD", "DISCONNECTED"}
  BY <1>5, WaitingMoves
<1>6. CASE c.sm.curState = "AUTHENTICATING"
  <2>1. DoPae(c, in) = DoAuthenticating(c, in)
    BY <1>6 DEF DoPae
  <2>2. CASE c.sm.suppSuccess
    BY <1>1, <2>1, <2>2, ChangesRest DEF DoAuthenticating, Moves
  <2>3. CASE ~c.sm.suppSuccess /\ c.sm.suppFail
    BY <1>1, <1>6, <2>1, <2>3, ChangesRest DEF DoAuthenticating, Moves
  <2>4. CASE ~c.sm.suppSuccess /\ ~c.sm.suppFail /\ c.sm.suppTimeout
    <3>1. DoPae(c, in) = ToConnecting(c, in)
      BY <2>1, <2>4 DEF DoAuthenticating
    <3>2. c.sm.eapolEap => RunsLeft(c) = 3
      BY <1>6, <2>4 DEF RunsLeft
    <3> QED
      BY <1>1, <1>6, <3>1, <3>2, ConnectingStarts DEF Moves
  <2>5. CASE ~c.sm.suppSuccess /\ ~c.sm.suppFail /\ ~c.sm.suppTimeout
    BY <1>6, <2>1, <2>5 DEF DoAuthenticating, Moves, Verdict
  <2> QED
    BY <2>2, <2>3, <2>4, <2>5
<1> QED
  BY <1>2, <1>3, <1>4, <1>5, <1>6 DEF PaeStateNames, Forced

\* The backend then brings what was waited for.
LEMMA BackendPrompt ==
  ASSUME NEW c, FramesOk(c), Prompt(c), NEW e, Moves(c, e), ~Forced(e),
         ~e.sm.eapRestart, NEW in, Typed(in.ub)
  PROVE  LET d == BackendRun(e, in)
         IN  /\ FramesOk(d) /\ Prompt(d)
             /\ c.sm.eapolEap => RunsLeft(d) < RunsLeft(c)
<1>2. e # ToForceAuth(c)
  BY ForcedPort DEF FramesOk
<1>3. /\ FramesOk(e) /\ e.sm.portEnabled
      /\ e.sm.beCurState = "UNKNOWN" => e.sm.initialize
  BY <1>2 DEF Moves, Starts, Rests, Prompt
<1>4. PICK d : d = BackendRun(e, in)
  OBVIOUS
<1>5. /\ Settles(e, d) /\ ~d.sm.initialize /\ ~d.sm.suppAbort
      /\ d.sm.beCurState # "UNKNOWN" /\ d.sm.portEnabled
      /\ d.sm.curState = e.sm.curState
  BY <1>3, <1>4, BackendSettles, BackendPort DEF KeepsPort, FramesOk
<1>6. Shaped(e)
  BY <1>3 DEF FramesOk
<1>7. CASE Starts(e) /\ (c.sm.eapolEap => RunsLeft(c) >= 3)
  <2>1. BeGlobals(e, in) = e
    BY <1>6, <1>7, GlobalsWithoutRestart DEF Starts
  <2>2. d = BeDoIdle(e, in)
    BY <1>4, <1>7, <2>1 DEF BackendRun, BeDo, Starts
  <2>3. \/ d.sm.suppSuccess \/ d.sm.suppFail
        \/ /\ d.sm.beCurState = "REQUEST" /\ Answering(d.eap)
           /\ ~d.sm.suppTimeout
    BY <1>7, <2>2, IdleWaits DEF Starts, Verdict
  <2>4. Prompt(d)
    BY <1>5, <2>3 DEF Prompt, Verdict, Waits
  <2>5. RunsLeft(d) \in 0 .. 2
    BY <1>5, <1>7, <2>3 DEF RunsLeft, Starts
  <2>6. RunsLeft(c) \in Nat
    BY DEF RunsLeft
  <2> QED
    BY <1>4, <1>5, <1>7, <2>4, <2>5, <2>6 DEF Settles
<1>8. CASE Rests(c, e)
  <2>1. Prompt(d)
    BY <1>5, <1>8 DEF Prompt, Rests
  <2>2. CASE e.sm.eapolEap
    <3>1. RunsLeft(c) = 4 /\ RunsLeft(d) \in 0 .. 3
      BY <1>5, <1>8, <2>2 DEF Rests, RunsLeft
    <3> QED
      BY <1>4, <1>5, <2>1, <3>1 DEF Settles
  <2>3. CASE ~e.sm.eapolEap
    <3>1. RunsLeft(d) = 0
      BY <1>5, <2>3 DEF Settles, RunsLeft
    <3>2. c.sm.eapolEap => RunsLeft(c) \in 1 .. 4
      BY DEF RunsLeft
    <3> QED
      BY <1>4, <1>5, <2>1, <3>1, <3>2 DEF Settles
  <2> QED
    BY <2>2, <2>3
<1>9. CASE e = c /\ c.sm.curState = "AUTHENTICATING" /\ ~Verdict(c)
  <2>1. ~e.sm.initialize /\ ~e.sm.suppAbort /\ Waits(e)
    BY <1>9 DEF Prompt
  <2>2. BeGlobals(e, in) = e
    BY <1>6, <2>1, GlobalsWithoutRestart
  <2>3. CASE e.sm.beCurState = "RECEIVE"
    <3>1. d = BeDoReceive(e, in)
      BY <1>4, <2>2, <2>3 DEF BackendRun, BeDo
    <3>2. /\ Verdict(d) \/ Waits(d)
          /\ d.sm.eapolEap => d.sm.beCurState = "REQUEST"
      BY <1>3, <2>3, <3>1, ReceiveWaitsOn
    <3>3. Prompt(d)
      BY <1>5, <3>2 DEF Prompt
    <3>4. RunsLeft(d) \in 0 .. 3
      BY <1>5, <1>9, <3>2 DEF RunsLeft
    <3>5. c.sm.eapolEap => RunsLeft(c) = 4
      BY <1>9, <2>3 DEF RunsLeft, Verdict
    <3> QED
      BY <1>4, <1>5, <3>3, <3>4, <3>5 DEF Settles
  <2>4. CASE e.sm.beCurState = "REQUEST" /\ Answering(e.eap)
    <3>1. d = BeDoRequest(e)
      BY <1>4, <2>2, <2>4 DEF BackendRun, BeDo
    <3>2. \/ d.sm.suppSuccess \/ d.sm.suppFail
          \/ d.sm.beCurState = "RECEIVE" /\ ~d.sm.eapolEap
      BY <1>3, <2>4, <3>1, RequestWaits
    <3>3. Prompt(d)
      BY <1>5, <3>2 DEF Prompt, Verdict, Waits
    <3>4. RunsLeft(d) \in 0 .. 1
      BY <1>5, <1>9, <3>2 DEF RunsLeft
    <3>5. c.sm.eapolEap => RunsLeft(c) = 2
      BY <1>9, <2>4 DEF RunsLeft, Verdict
    <3> QED
      BY <1>4, <1>5, <3>3, <3>4, <3>5 DEF Settles
  <2> QED
    BY <2>1, <2>3, <2>4 DEF Waits
<1> QED
  BY <1>2, <1>7, <1>8, <1>9 DEF Moves

\* A second: the machine is disconnected only to be initialised.
LEMMA TickPrompt ==
  ASSUME NEW c, FramesOk(c), Prompt(c), GivenUp(c), ModeOk(c),
         ~c.sm.userLogoff, c.sm.portControl # "FORCE_UNAUTHORIZED"
  PROVE  LET t == TickedOn(c)
         IN  /\ FramesOk(t) /\ Prompt(t)
             /\ t.sm.eapolEap = c.sm.eapolEap
             /\ Forced(t) \/ (~Forced(c) /\ RunsLeft(t) <= RunsLeft(c))
<1>1. RunsLeft(c) \in Nat
  BY DEF RunsLeft
<1>2. CASE ~c.sm.tick
  BY <1>1, <1>2 DEF TickedOn
<1>3. CASE c.sm.tick
  <2>1. PICK s : s = TimerTick(c)
    OBVIOUS
  <2>2. /\ FramesOk(s) /\ s.eap = c.eap
        /\ s.sm.curState = c.sm.curState
        /\ s.sm.beCurState = c.sm.beCurState
        /\ s.sm.portEnabled = c.sm.portEnabled
        /\ s.sm.initialize = c.sm.initialize
        /\ s.sm.suppAbort = c.sm.suppAbort
        /\ s.sm.eapolEap = c.sm.eapolEap
        /\ s.sm.userLogoff = c.sm.userLogoff
        /\ s.sm.portControl = c.sm.portControl
        /\ s.sm.sPortMode = c.sm.sPortMode
        /\ s.sm.suppSuccess = c.sm.suppSuccess
        /\ s.sm.suppFail = c.sm.suppFail
        /\ s.sm.suppTimeout = c.sm.suppTimeout
    <3>1. PICK x : x = DecIfNz(c.sm.authWhile)
      OBVIOUS
    <3>2. PICK y : y = DecIfNz(c.sm.heldWhile)
      OBVIOUS
    <3>3. PICK z : z = DecIfNz(c.sm.startWhen)
      OBVIOUS
    <3>4. s = [c EXCEPT !.sm.authWhile = x, !.sm.heldWhile = y,
                        !.sm.startWhen = z, !.sm.tick = FALSE]
      BY <2>1, <3>1, <3>2, <3>3 DEF TimerTick, FramesOk, Shaped, NewSm
    <3> QED
      BY <3>4 DEF FramesOk, Shaped, NewSm
  <2>3. Prompt(s) /\ RunsLeft(s) = RunsLeft(c)
    BY <2>2 DEF Prompt, Verdict, Waits, RunsLeft
  <2>4. GivenUp(s) /\ ModeOk(s)
    BY <2>2 DEF GivenUp, ModeOk
  <2>5. PICK t : t = GlobalTransition(s)
    OBVIOUS
  <2>6. TickedOn(c) = t /\ UserLogsOff(s) = s
    BY <1>3, <2>1, <2>2, <2>5 DEF TickedOn, UserLogsOff
  <2>7. Shaped(s)
    BY <2>2 DEF FramesOk
  <2>8. CASE /\ s.sm.portControl = "FORCE_AUTHORIZED"
             /\ s.sm.sPortMode # "FORCE_AUTHORIZED" /\ Usable(s)
    <3>1. PICK f : f = ToForceAuth(s)
      OBVIOUS
    <3>2. f.sm.portControl = "FORCE_AUTHORIZED"
      BY <2>7, <3>1, ForcedPort
    <3>3. t = f
      BY <2>5, <2>6, <2>8, <3>1, <3>2
         DEF GlobalTransition, ForcedOpen, ForcedShut, BackToAuto
    <3>4. /\ FramesOk(f) /\ Forced(f)
          /\ f.sm.eapolEap = s.sm.eapolEap
          /\ f.sm.beCurState = s.sm.beCurState
          /\ f.sm.portEnabled = s.sm.portEnabled
          /\ f.sm.initialize = s.sm.initialize
      BY <2>2, <3>1 DEF ToForceAuth, FramesOk, Shaped, NewSm, Forced
    <3>5. Prompt(f)
      BY <2>3, <3>4 DEF Prompt, Forced
    <3> QED
      BY <2>2, <2>6, <3>3, <3>4, <3>5
  <2>9. CASE /\ s.sm.portControl = "AUTO" /\ ~Usable(s)
             /\ s.sm.curState # "DISCONNECTED"
    <3>1. PICK f : f = ToDisconnected(s)
      OBVIOUS
    <3>2. t = f
      BY <2>5, <2>6, <2>9, <3>1
         DEF GlobalTransition, ForcedOpen, ForcedShut, BackToAuto
    <3>3. s.sm.initialize /\ s.sm.curState = "LOGOFF"
      BY <2>3, <2>4, <2>9 DEF Usable, Prompt, GivenUp
    <3>4. /\ FramesOk(f) /\ f.sm.curState = "DISCONNECTED"
          /\ f.sm.eapolEap = s.sm.eapolEap
          /\ f.sm.beCurState = s.sm.beCurState
          /\ f.sm.portEnabled = s.sm.portEnabled
          /\ f.sm.initialize = s.sm.initialize
      <4>1. PICK e : e = [s EXCEPT !.sm.sPortMode = "AUTO",
                                   !.sm.startCount = 0,
                                   !.sm.logoffSent = FALSE]
        OBVIOUS
      <4>2. /\ FramesOk(e)
            /\ e.sm.eapolEap = s.sm.eapolEap
            /\ e.sm.beCurState = s.sm.beCurState
            /\ e.sm.portEnabled = s.sm.portEnabled
            /\ e.sm.initialize = s.sm.initialize
        BY <2>2, <4>1 DEF FramesOk, Shaped, NewSm
      <4>3. f = [e EXCEPT !.sm.suppPortStatus = "UNAUTHORIZED",
                          !.sm.suppAbort = TRUE,
                          !.sm.curState = "DISCONNECTED"]
        BY <3>1, <4>1 DEF ToDisconnected
      <4> QED
        BY <4>2, <4>3 DEF FramesOk, Shaped, NewSm
    <3>5. Prompt(f)
      BY <2>3, <3>3, <3>4 DEF Prompt
    <3>6. RunsLeft(f) = RunsLeft(s) /\ ~Forced(s)
      BY <3>3, <3>4 DEF RunsLeft, Forced
    <3> QED
      BY <1>1, <2>2, <2>3, <2>6, <3>2, <3>4, <3>5, <3>6 DEF Forced
  <2>10. CASE /\ ~(/\ s.sm.portControl = "FORCE_AUTHORIZED"
                   /\ s.sm.sPortMode # "FORCE_AUTHORIZED" /\ Usable(s))
              /\ ~(/\ s.sm.portControl = "AUTO" /\ ~Usable(s)
                   /\ s.sm.curState # "DISCONNECTED")
    <3>1. s.sm.sPortMode # "AUTO" => s.sm.portControl # "AUTO"
      BY <2>4 DEF ModeOk
    <3>2. t = s
      BY <2>2, <2>5, <2>6, <2>10, <3>1
         DEF GlobalTransition, ForcedOpen, ForcedShut, BackToAuto
    <3> QED
      BY <1>1, <2>2, <2>3, <2>6, <3>2 DEF Forced
  <2> QED
    BY <2>8, <2>9, <2>10
<1> QED
  BY <1>2, <1>3

\* statemachine_run with the link up uses up one of the runs that are left.
LEMMA RunPrompt ==
  ASSUME NEW c, CtxOk(c), PortInv(c), c.conn # "NONE", FramesOk(c),
         Prompt(c), NEW in \in Inputs, in.link, Typed(in.ub)
  PROVE  LET d == StatemachineRun(c, in)
         IN  /\ FramesOk(d) /\ Prompt(d)
             /\ \/ Forced(d)
                \/ ~Forced(c) /\ (c.sm.eapolEap => RunsLeft(d) < RunsLeft(c))
<1>1. PICK t : t = TickedOn(c)
  OBVIOUS
<1>2. CtxOk(t) /\ t.conn # "NONE" /\ PortInv(t)
  BY <1>1, TickPort
<1>3. /\ FramesOk(t) /\ Prompt(t) /\ t.sm.eapolEap = c.sm.eapolEap
      /\ Forced(t) \/ (~Forced(c) /\ RunsLeft(t) <= RunsLeft(c))
  BY <1>1, TickPrompt DEF CtxOk, Unreached, PortInv
<1>4. PICK p : p = LinkUp(t)
  OBVIOUS
<1>5. p.sm.portEnabled /\ CtxOk(p) /\ p.conn # "NONE"
  BY <1>2, <1>4, PortEnabledOk DEF LinkUp
<1>6. /\ FramesOk(p) /\ p.eap = t.eap
      /\ p.sm = [t.sm EXCEPT !.portEnabled = TRUE]
  BY <1>3, <1>4 DEF LinkUp, FramesOk, Shaped, NewSm
<1>7. /\ Prompt(p) /\ RunsLeft(p) = RunsLeft(t) /\ (Forced(p) <=> Forced(t))
      /\ p.sm.eapolEap = c.sm.eapolEap
  BY <1>3, <1>6
     DEF Prompt, Verdict, Waits, RunsLeft, Forced, FramesOk, Shaped, NewSm
<1>8. PortInv(p)
  BY <1>2, <1>4, LinkUpPort, UnmovedInv, ContextsShaped DEF CtxOk
<1>9. PICK e : e = DoPae(p, in)
  OBVIOUS
<1>10. StatemachineRun(c, in) = BackendUnlessForced(e, in)
  BY <1>1, <1>4, <1>9 DEF StatemachineRun
<1>11. RunsLeft(c) \in Nat /\ RunsLeft(t) \in Nat
  BY DEF RunsLeft
<1>12. CASE Forced(p)
  <2>1. StatemachineRun(c, in) = p
    BY <1>9, <1>10, <1>12 DEF Forced, DoPae, BackendUnlessForced
  <2> QED
    BY <1>6, <1>7, <1>12, <2>1
<1>13. CASE ~Forced(p)
  <2>1. Begun(p)
    BY <1>5, <1>13
       DEF Begun, Base, Enabled, CtxOk, Unreached, UnsetIsUnused, Forced
  <2>2. Entered(e)
    BY <1>9, <2>1, DoPaeOk
  <2>3. p.sm.curState \in PaeStateNames \ {"RESTART", "S_FORCE_UNAUTH"}
    BY <1>5, AllowedMethods DEF CtxOk, Unreached, SmStates
  <2>4. Moves(p, e)
    BY <1>5, <1>6, <1>7, <1>8, <1>9, <1>13, <2>2, <2>3, PaeMoves
       DEF CtxOk, Unreached, PortInv
  <2>5. CASE Forced(e)
    <3>1. StatemachineRun(c, in) = e
      BY <1>10, <2>5 DEF Forced, BackendUnlessForced
    <3>2. FramesOk(e) /\ Prompt(e)
      <4>1. CASE e = ToForceAuth(p)
        <5>1. /\ FramesOk(e)
              /\ e.sm.beCurState = p.sm.beCurState
              /\ e.sm.portEnabled = p.sm.portEnabled
              /\ e.sm.initialize = p.sm.initialize
          BY <1>6, <4>1 DEF ToForceAuth, FramesOk, Shaped, NewSm
        <5> QED
          BY <1>7, <2>5, <5>1 DEF Prompt, Forced
      <4>2. CASE Rests(p, e)
        BY <2>5, <4>2 DEF Rests, Prompt, Forced
      <4> QED
        BY <2>4, <2>5, <4>1, <4>2 DEF Moves, Starts, Forced
    <3> QED
      BY <2>5, <3>1, <3>2
  <2>6. CASE ~Forced(e)
    <3>1. /\ ~e.sm.eapRestart
          /\ e.sm.curState \notin {"S_FORCE_AUTH", "S_FORCE_UNAUTH"}
      BY <2>2, <2>6 DEF Entered, Base, Forced
    <3>2. PICK d : d = BackendRun(e, in)
      OBVIOUS
    <3>3. StatemachineRun(c, in) = d
      BY <1>10, <3>1, <3>2 DEF BackendUnlessForced
    <3>4. /\ FramesOk(d) /\ Prompt(d)
          /\ p.sm.eapolEap => RunsLeft(d) < RunsLeft(p)
      BY <1>6, <1>7, <2>4, <2>6, <3>1, <3>2, BackendPrompt
    <3>5. RunsLeft(d) \in Nat
      BY DEF RunsLeft
    <3> QED
      BY <1>3, <1>7, <1>11, <1>13, <3>3, <3>4, <3>5
  <2> QED
    BY <2>5, <2>6
<1> QED
  BY <1>12, <1>13

(***************************************************************************)
(* The steps of the daemon.                                                *)
(***************************************************************************)
\* The link stays up, and a request names a type.
Steady == LinkAnswers = {TRUE} /\ \A f \in AirFrames : Typed(f)

Poised(c) == FramesOk(c) /\ Prompt(c)

\* Steps that move frames, the connection or the password, but no state.
LEMMA MovesPoised ==
  ASSUME NEW c, Poised(c), NEW f, Typed(f)
  PROVE  /\ Poised(Fresh(c)) /\ Poised(Ticked(c))
         /\ Poised([Fresh(ReleaseFrame(c)) EXCEPT !.recvframe = f])
         /\ Poised([Fresh(ReleaseFrame(c)) EXCEPT
                      !.recvframe = f, !.sm.eapolEap = TRUE])
         /\ Poised([Fresh(c) EXCEPT !.conn = "NONE", !.prof = "NONE"])
         /\ Poised([Fresh(c) EXCEPT !.eap.pwdCallback = FALSE])
         /\ Poised([Fresh(c) EXCEPT
                      !.eap.pwdCallback = FALSE,
                      !.eap.pwdFrame = NullFrame,
                      !.eap.lastId = (@ + IdSpace - 1) % IdSpace,
                      !.recvframe = c.eap.pwdFrame,
                      !.sm.eapolEap = TRUE])
<1>1. ASSUME NEW x, Poised(x), NEW g, Typed(g), NEW i
      PROVE  /\ Poised([x EXCEPT !.out = <<>>])
             /\ Poised([x EXCEPT !.sm.tick = TRUE])
             /\ Poised([x EXCEPT !.sm.eapolEap = TRUE])
             /\ Poised([x EXCEPT !.recvframe = g])
             /\ Poised([x EXCEPT !.conn = "NONE", !.prof = "NONE"])
             /\ Poised([x EXCEPT !.eap.reqData = g])
             /\ Poised([x EXCEPT !.eap.pwdFrame = g])
             /\ Poised([x EXCEPT !.eap.pwdCallback = FALSE])
             /\ Poised([x EXCEPT !.eap.lastId = i])
  BY <1>1 DEF Poised, FramesOk, Framed, Prompt, Verdict, Waits, Answering,
              Shaped, NewSm, NewEap
<1>2. Typed(NullFrame) /\ Typed(FreedFrame)
  BY DEF Typed, NullFrame, FreedFrame
<1>3. Shaped(c) /\ DOMAIN c.eap = DOMAIN NewEap
      /\ Typed(c.eap.reqData) /\ Typed(c.eap.pwdFrame)
  BY DEF Poised, FramesOk, Framed
<1>4. PICK a : a = Fresh(c)
  OBVIOUS
<1>5. Poised(a) /\ a.eap = c.eap /\ Shaped(a)
  BY <1>1, <1>3, <1>4 DEF Fresh, Shaped
<1>6. PICK q : q = IF c.recvframe = NullFrame \/ c.eap.reqData = NullFrame
                   THEN c.eap.reqData ELSE FreedFrame
  OBVIOUS
<1>7. PICK r : r = [c EXCEPT !.recvframe = NullFrame]
  OBVIOUS
<1>8. PICK s : s = [r EXCEPT !.eap.reqData = q]
  OBVIOUS
<1>9. ReleaseFrame(c) = s
  BY <1>3, <1>6, <1>7, <1>8 DEF ReleaseFrame, Shaped
<1>10. Poised(r) /\ Poised(s)
  BY <1>1, <1>2, <1>3, <1>6, <1>7, <1>8
<1>11. PICK b : b = Fresh(s)
  OBVIOUS
<1>12. Poised(b)
  BY <1>1, <1>10, <1>11 DEF Fresh
<1>13. PICK g : g = [b EXCEPT !.recvframe = f]
  OBVIOUS
<1>14. Poised(g) /\ Poised([g EXCEPT !.sm.eapolEap = TRUE])
  BY <1>1, <1>12, <1>13
<1>15. [b EXCEPT !.recvframe = f, !.sm.eapolEap = TRUE]
         = [g EXCEPT !.sm.eapolEap = TRUE]
  BY <1>12, <1>13 DEF Poised, FramesOk, Shaped
<1>16. PICK i : i = (c.eap.lastId + IdSpace - 1) % IdSpace
  OBVIOUS
<1>17. PICK p1 : p1 = [a EXCEPT !.eap.pwdCallback = FALSE]
  OBVIOUS
<1>18. PICK p2 : p2 = [p1 EXCEPT !.eap.pwdFrame = NullFrame]
  OBVIOUS
<1>19. PICK p3 : p3 = [p2 EXCEPT !.eap.lastId = i]
  OBVIOUS
<1>20. PICK p4 : p4 = [p3 EXCEPT !.recvframe = c.eap.pwdFrame]
  OBVIOUS
<1>21. PICK p5 : p5 = [p4 EXCEPT !.sm.eapolEap = TRUE]
  OBVIOUS
<1>22. Poised(p1) /\ Poised(p2) /\ Poised(p3) /\ Poised(p4) /\ Poised(p5)
  BY <1>1, <1>2, <1>3, <1>5, <1>17, <1>18, <1>19, <1>20, <1>21
<1>23. [a EXCEPT !.eap.pwdCallback = FALSE, !.eap.pwdFrame = NullFrame,
                 !.eap.lastId = (@ + IdSpace - 1) % IdSpace,
                 !.recvframe = c.eap.pwdFrame, !.sm.eapolEap = TRUE] = p5
  BY <1>3, <1>5, <1>16, <1>17, <1>18, <1>19, <1>20, <1>21
     DEF Shaped, NewEap
<1>24. Poised(Ticked(c))
  BY <1>1 DEF Ticked
<1>25. Poised([a EXCEPT !.conn = "NONE", !.prof = "NONE"])
  BY <1>1, <1>5
<1> QED
  BY <1>4, <1>5, <1>9, <1>11, <1>13, <1>14, <1>15, <1>17, <1>22, <1>23,
     <1>24, <1>25

\* An EAP machine that starts afresh has nothing without a type to read.
LEMMA ReinitFramed ==
  ASSUME NEW e, Framed(e)
  PROVE  Framed(ReinitEap(e)) /\ Framed(EapForceInit(e))
<1>1. Framed(ReinitEap(e))
  BY DEF ReinitEap, Framed, Typed, NullFrame, NewEap
<1>2. PICK f : f = [e EXCEPT !.eapReq = FALSE]
  OBVIOUS
<1>3. Framed(f)
  BY <1>2 DEF Framed, NewEap
<1>4. PICK g : g = InitEapVars(f)
  OBVIOUS
<1>5. Framed(g)
  BY <1>3, <1>4, InitFramed
<1> QED
  BY <1>1, <1>2, <1>4, <1>5, QuietAnswers DEF EapForceInit

(***************************************************************************)
(* The requests that open or close the port.                               *)
(***************************************************************************)
LEMMA PortPoised ==
  ASSUME NEW c, Poised(c), NEW b, FramesOk(b), b.sm = c.sm
  PROVE  Poised(ToForceAuth(b)) /\ Poised(ToLogoff(b))
<1>1. PICK f : f = ToForceAuth(b)
  OBVIOUS
<1>2. /\ FramesOk(f) /\ f.sm.curState = "S_FORCE_AUTH"
      /\ f.sm.beCurState = b.sm.beCurState
      /\ f.sm.portEnabled = b.sm.portEnabled
      /\ f.sm.initialize = b.sm.initialize
  BY <1>1 DEF ToForceAuth, FramesOk, Shaped, NewSm
<1>3. Poised(f)
  BY <1>2 DEF Poised, Prompt
<1>4. PICK t : t = TxLogoff(b)
  OBVIOUS
<1>5. FramesOk(t) /\ t.sm = c.sm
  BY <1>4 DEF TxLogoff, Transmit, FramesOk, Shaped
<1>6. PICK e : e = EapForceInit(t.eap)
  OBVIOUS
<1>7. Framed(e)
  BY <1>5, <1>6, ReinitFramed DEF FramesOk
<1>8. PICK d : d = [t EXCEPT !.sm.logoffSent = TRUE,
                             !.sm.suppPortStatus = "UNAUTHORIZED",
                             !.sm.curState = "LOGOFF", !.eap = e]
  OBVIOUS
<1>9. /\ FramesOk(d) /\ d.sm.curState = "LOGOFF"
      /\ d.sm.beCurState = c.sm.beCurState
      /\ d.sm.portEnabled = c.sm.portEnabled
      /\ d.sm.initialize = c.sm.initialize
  BY <1>5, <1>7, <1>8 DEF FramesOk, Shaped, NewSm
<1>10. Poised(d)
  BY <1>9 DEF Poised, Prompt
<1>11. ToLogoff(b) = d
  BY <1>4, <1>5, <1>6, <1>8 DEF ToLogoff, FramesOk, Shaped
<1> QED
  BY <1>1, <1>3, <1>10, <1>11

\* Whatever is done to the EAP machine and the connection of a context that
\* does not run.
LEMMA BoundPoised ==
  ASSUME NEW c, FramesOk(c), NEW n, NEW p \in Conns \cup {"NONE"}
  PROVE  LET d == [c EXCEPT !.conn = n, !.prof = p]
         IN  FramesOk(d) /\ d.sm = c.sm
  BY DEF FramesOk, Shaped

LEMMA HandedPoised ==
  ASSUME NEW c, FramesOk(c), NEW n
  PROVE  /\ LET d == [c EXCEPT !.eap = ReinitEap(@)]
            IN  FramesOk(d) /\ d.sm = c.sm
         /\ LET d == [c EXCEPT !.conn = n, !.eap = ReinitEap(@)]
            IN  FramesOk(d) /\ d.sm = c.sm
         /\ LET d == TxLogoff(c) IN FramesOk(d) /\ d.sm = c.sm
<1>1. PICK e : e = ReinitEap(c.eap)
  OBVIOUS
<1>2. Framed(e)
  BY <1>1, ReinitFramed DEF FramesOk
<1>3. LET d == TxLogoff(c) IN FramesOk(d) /\ d.sm = c.sm
  BY DEF TxLogoff, Transmit, FramesOk, Shaped
<1> QED
  BY <1>1, <1>2, <1>3 DEF FramesOk, Shaped

LEMMA SameMachinesPoised ==
  ASSUME NEW c, Poised(c), c.sm.curState \in {"LOGOFF", "S_FORCE_AUTH"},
         NEW d, FramesOk(d), d.sm = c.sm
  PROVE  Poised(d)
  BY DEF Poised, Prompt

\* Every request leaves the machines ready.
LEMMA RequestPoised ==
  ASSUME CtxOk(ctx), Poised(ctx),
         \/ \E conn \in Conns : ChangeConnection(conn)
         \/ RequestLogoff \/ DisconnectConnection
  PROVE  Poised(ctx')
<1>1. PICK a : a = Fresh(ctx)
  OBVIOUS
<1>2. Poised(a) /\ FramesOk(a)
  BY <1>1, MovesPoised DEF Poised, FramesOk
<1>3. ASSUME NEW conn \in Conns, ChangeConnection(conn)
      PROVE  Poised(ctx')
  <2>1. PICK p : p = ProfOf(conn)
    OBVIOUS
  <2>2. p \in Conns \cup {"NONE"}
    BY <2>1 DEF ProfOf
  <2>3. PICK b : b = [a EXCEPT !.conn = conn, !.prof = p]
    OBVIOUS
  <2>4. FramesOk(b) /\ b.sm = a.sm
    BY <1>2, <2>2, <2>3, BoundPoised
  <2>5. PICK n : n = [b EXCEPT !.eap = ReinitEap(@)]
    OBVIOUS
  <2>6. FramesOk(n) /\ n.sm = a.sm
    BY <2>4, <2>5, HandedPoised
  <2>7. ctx' \in {ToForceAuth(b), ToForceAuth(n), ToLogoff(n)}
    BY <1>1, <1>3, <2>1, <2>3, <2>5 DEF ChangeConnection, Request
  <2> QED
    BY <1>2, <2>4, <2>6, <2>7, PortPoised
<1>4. PICK g : g = ToLogoff(a)
  OBVIOUS
<1>5. Poised(g) /\ FramesOk(g) /\ g.sm.curState = "LOGOFF"
  <2>1. Poised(g)
    BY <1>2, <1>4, PortPoised
  <2>2. g.sm.curState = "LOGOFF"
    BY <1>2, <1>4
       DEF ToLogoff, TxLogoff, Transmit, FramesOk, Shaped, NewSm
  <2> QED
    BY <2>1, <2>2 DEF Poised
<1>6. CASE RequestLogoff
  <2>1. ctx' = [g EXCEPT !.conn = "NONE", !.eap = ReinitEap(@)]
    BY <1>1, <1>4, <1>6 DEF RequestLogoff, Request
  <2>2. FramesOk(ctx') /\ ctx'.sm = g.sm
    BY <1>5, <2>1, HandedPoised
  <2> QED
    BY <1>5, <2>2, SameMachinesPoised
<1>7. CASE DisconnectConnection
  <2>1. PICK o : o = [g EXCEPT !.eap = ReinitEap(@)]
    OBVIOUS
  <2>2. FramesOk(o) /\ o.sm = g.sm
    BY <1>5, <2>1, HandedPoised
  <2>3. PICK t : t = TxLogoff(TxLogoff(o))
    OBVIOUS
  <2>4. FramesOk(t) /\ t.sm = g.sm
    BY <2>2, <2>3, HandedPoised
  <2>5. ctx' = [t EXCEPT !.conn = "NONE", !.prof = "NONE"]
    BY <1>1, <1>4, <1>7, <2>1, <2>3 DEF DisconnectConnection, Request
  <2>6. FramesOk(ctx') /\ ctx'.sm = g.sm
    BY <2>4, <2>5, BoundPoised
  <2> QED
    BY <1>5, <2>6, SameMachinesPoised
<1> QED
  BY <1>3, <1>6, <1>7

(***************************************************************************)
(* The runs a frame takes.                                                 *)
(***************************************************************************)
FewInv ==
    /\ Poised(ctx) /\ Typed(saved)
    /\ pc = "select" => runs = 0
    /\ pc = "select" \/ Forced(ctx) \/ runs + RunsLeft(ctx) <= 4

LEMMA RunsLeftBound ==
  ASSUME NEW c
  PROVE  RunsLeft(c) \in 0 .. 4
  BY DEF RunsLeft

\* What the environment decides, for a link that stays up.
LEMMA SteadyInputs ==
  ASSUME Steady, NEW c, NEW in \in RunInputs(c)
  PROVE  in.link /\ Typed(in.ub)
<1>1. in.link \in LinkAnswers /\ in.ub \in AirFrames \cup {NullFrame}
  BY DEF RunInputs
<1>2. Typed(NullFrame)
  BY DEF Typed, NullFrame
<1> QED
  BY <1>1, <1>2 DEF Steady

\* One run of the machines.
LEMMA RunPoised ==
  ASSUME Steady, NEW c, CtxOk(c), PortInv(c), Poised(c), c.conn # "NONE",
         NEW in \in RunInputs(c)
  PROVE  LET d == StatemachineRun(c, in)
         IN  /\ Poised(d)
             /\ \/ Forced(d)
                \/ ~Forced(c) /\ (c.sm.eapolEap => RunsLeft(d) < RunsLeft(c))
<1>1. in.link /\ Typed(in.ub) /\ in \in Inputs
  BY SteadyInputs, RunInputsOk DEF CtxOk
<1> QED
  BY <1>1, RunPrompt DEF Poised

\* Every step keeps the invariant: one case per action.
LEMMA FewStepOk ==
  ASSUME Steady, IInv, PortInv(ctx), FewInv, [Next]_vars
  PROVE  FewInv'
<1>1. CtxOk(ctx) /\ Poised(ctx) /\ Typed(saved)
      /\ runs \in Nat /\ RunsLeft(ctx) \in 0 .. 4 /\ RunsLeft(ctx') \in 0 .. 4
  BY RunsLeftBound DEF IInv, FewInv, TypeOK
<1>2. Typed(ctx.recvframe) /\ Typed(NullFrame) /\ Typed(OtherFrame)
  BY <1>1 DEF Poised, FramesOk, Typed, NullFrame, OtherFrame
<1>3. PICK a : a = Fresh(ctx)
  OBVIOUS
<1>4. /\ CtxOk(a) /\ PortInv(a) /\ Poised(a)
      /\ a.sm = ctx.sm /\ a.conn = ctx.conn
  BY <1>1, <1>2, <1>3, FreshOk, MovesPort, UnmovedInv, ContextsShaped,
     MovesPoised DEF CtxOk, PortInv
<1>5. ASSUME pc = "select", Poised(ctx'), UNCHANGED <<pc, runs, saved>>
      PROVE  FewInv'
  BY <1>1, <1>5 DEF FewInv
<1>6. ASSUME Poised(ctx'), runs' = 0, Typed(saved')
      PROVE  FewInv'
  BY <1>1, <1>6 DEF FewInv
<1>7. CASE IgnoredFrame
  <2>1. PICK f \in {NullFrame, OtherFrame} :
               ctx' = [Fresh(ReleaseFrame(ctx)) EXCEPT !.recvframe = f]
    BY <1>7 DEF IgnoredFrame
  <2>2. Poised(ctx')
    BY <1>1, <1>2, <2>1, MovesPoised
  <2> QED
    BY <1>1, <1>6, <1>7, <2>2 DEF IgnoredFrame
<1>8. ASSUME NEW f \in AirFrames, EapFrame(f) PROVE FewInv'
  <2>1. ctx' = [Fresh(ReleaseFrame(ctx)) EXCEPT
                   !.recvframe = f, !.sm.eapolEap = TRUE]
    BY <1>8 DEF EapFrame
  <2>2. Poised(ctx')
    BY <1>1, <2>1, MovesPoised DEF Steady
  <2> QED
    BY <1>1, <1>6, <1>8, <2>2 DEF EapFrame
<1>9. CASE ExecuteRun
  <2>1. PICK in \in RunInputs(ctx) : ctx' = StatemachineRun(a, in)
    BY <1>3, <1>9 DEF ExecuteRun
  <2>2. in \in RunInputs(a) /\ a.conn # "NONE" /\ a.sm.eapolEap
    <3>1. a.eap = ctx.eap /\ a.recvframe = ctx.recvframe
      BY <1>1, <1>3, FreshOk
    <3> QED
      BY <1>4, <1>9, <2>1, <3>1 DEF ExecuteRun, RunInputs
  <2>3. /\ Poised(ctx')
        /\ \/ Forced(ctx')
           \/ ~Forced(ctx) /\ RunsLeft(ctx') < RunsLeft(ctx)
    <3>1. RunsLeft(a) = RunsLeft(ctx) /\ (Forced(a) <=> Forced(ctx))
      BY <1>4 DEF RunsLeft, Forced
    <3> QED
      BY <1>4, <2>1, <2>2, <3>1, RunPoised
  <2>4. runs' = runs + 1 /\ pc' = pc /\ saved' = saved /\ pc # "select"
    BY <1>9 DEF ExecuteRun
  <2>5. runs + RunsLeft(ctx) <= 4 \/ Forced(ctx)
    BY <2>4 DEF FewInv
  <2>6. Forced(ctx') \/ runs' + RunsLeft(ctx') <= 4
    BY <1>1, <2>3, <2>4, <2>5
  <2> QED
    BY <1>1, <2>3, <2>4, <2>6 DEF FewInv, Forced, RunsLeft
<1>10. CASE ExecuteEnd
  <2>1. ctx' \in {a, [Fresh(ReleaseFrame(ctx)) EXCEPT !.recvframe = saved]}
    BY <1>3, <1>10 DEF ExecuteEnd
  <2>2. PICK r : r = [Fresh(ReleaseFrame(ctx)) EXCEPT !.recvframe = saved]
    OBVIOUS
  <2>3. Poised(r)
    BY <1>1, <2>2, MovesPoised
  <2>4. Poised(ctx')
    BY <1>4, <2>1, <2>2, <2>3
  <2>5. runs' = 0 /\ saved' = NullFrame
    BY <1>10 DEF ExecuteEnd
  <2> QED
    BY <1>2, <1>6, <2>4, <2>5
<1>11. CASE (\E conn \in Conns : ChangeConnection(conn)) \/ RequestLogoff
            \/ DisconnectConnection
  <2>1. Poised(ctx')
    BY <1>1, <1>11, RequestPoised
  <2> QED
    BY <1>5, <1>11, <2>1
       DEF ChangeConnection, RequestLogoff, DisconnectConnection, Request,
           NextSource
<1>12. CASE UnbindConnection
  <2>1. Poised(ctx')
    BY <1>1, <1>2, <1>12, MovesPoised DEF UnbindConnection, Request
  <2> QED
    BY <1>5, <1>12, <2>1 DEF UnbindConnection, Request, NextSource
<1>13. CASE SetPassword
  <2>1. CASE /\ ctx' = [Fresh(ctx) EXCEPT !.eap.pwdCallback = FALSE]
             /\ UNCHANGED <<pc, runs, saved>>
    <3>1. Poised(ctx')
      BY <1>1, <1>2, <2>1, MovesPoised
    <3> QED
      BY <1>5, <1>13, <2>1, <3>1 DEF SetPassword, NextSource
  <2>2. CASE /\ ctx' = [Fresh(ctx) EXCEPT
                           !.eap.pwdCallback = FALSE,
                           !.eap.pwdFrame = NullFrame,
                           !.eap.lastId = (@ + IdSpace - 1) % IdSpace,
                           !.recvframe = ctx.eap.pwdFrame,
                           !.sm.eapolEap = TRUE]
             /\ runs' = 0 /\ saved' = ctx.recvframe
    <3>1. Poised(ctx')
      BY <1>1, <1>2, <2>2, MovesPoised
    <3> QED
      BY <1>2, <1>6, <2>2, <3>1
  <2> QED
    BY <1>13, <2>1, <2>2 DEF SetPassword
<1>14. ASSUME NEW b, CtxOk(b), PortInv(b), Poised(b), RunIfBound(b), EndPass
       PROVE  FewInv'
  <2>1. Poised(ctx')
    BY <1>14, RunPoised DEF RunIfBound
  <2> QED
    BY <1>5, <1>14, <2>1 DEF EndPass
<1>15. CASE Tick
  <2>1. PICK b : b = Ticked(a)
    OBVIOUS
  <2>2. CtxOk(b) /\ Poised(b) /\ PortInv(b)
    <3>1. Unmoved(ctx, b)
      BY <1>1, <1>3, <2>1, MovesPort, ContextsShaped DEF CtxOk, PortInv
    <3> QED
      BY <1>2, <1>4, <2>1, <3>1, UnmovedInv, TickedOk, MovesPoised
  <2> QED
    BY <1>3, <1>14, <1>15, <2>1, <2>2 DEF Tick
<1>16. CASE Poll
  BY <1>3, <1>4, <1>14, <1>16 DEF Poll
<1>17. CASE UNCHANGED vars
  BY <1>17 DEF vars, FewInv, Poised, FramesOk, Prompt, Shaped, Verdict,
               Waits, RunsLeft, Forced
<1> QED
  BY <1>7, <1>8, <1>9, <1>10, <1>11, <1>12, <1>13, <1>15, <1>16, <1>17
     DEF Next

LEMMA FewInitOk ==
  ASSUME Steady, Init
  PROVE  FewInv
<1>1. PICK conn \in InitialConns, link \in LinkAnswers :
             ctx = [sm |-> NewSm(link), eap |-> NewEap,
                    recvframe |-> NullFrame, conn |-> conn,
                    prof |-> ProfOf(conn), out |-> <<>>]
  BY DEF Init
<1>2. ProfOf(conn) \in Conns \cup {"NONE"}
  BY EnvironmentAssumption DEF ProfOf
<1>3. link = TRUE
  BY DEF Steady
<1>4. FramesOk(ctx)
  BY <1>1, <1>2
     DEF FramesOk, Shaped, Framed, Typed, NewSm, NewEap, NullFrame
<1>5. Prompt(ctx)
  BY <1>1, <1>3 DEF Prompt, NewSm
<1>6. Typed(saved) /\ pc = "select" /\ runs = 0
  BY DEF Init, Typed, NullFrame
<1> QED
  BY <1>4, <1>5, <1>6 DEF FewInv, Poised

\* The frame that waits is used up before the runs are: an invariant of every
\* reachable state, under the same conditions as FewRunsTheorem.
THEOREM FewInductive == Steady => (Spec => []FewInv)
<1> SUFFICES ASSUME Steady PROVE Spec => []FewInv
  OBVIOUS
<1>1. Init => FewInv
  BY FewInitOk
<1>2. IInv /\ PortInv(ctx) /\ FewInv /\ [Next]_vars => FewInv'
  BY FewStepOk
<1> QED
  BY <1>1, <1>2, Inductive, PortInductive, PTL DEF Spec

\* eapol_execute never comes near the 255 runs at which it gives up
\* (eapol.c:247): four runs of the machines use up a frame in every reachable
\* state, unless 802.1X was given up, for all methods, connections, frames,
\* requests and periods, with a link that stays up and requests that name a
\* type.
THEOREM FewRunsTheorem == Steady => (Spec => []FewRuns)
<1> SUFFICES ASSUME Steady PROVE Spec => []FewRuns
  OBVIOUS
<1>1. IInv /\ FewInv => FewRuns
  <2> SUFFICES ASSUME IInv, FewInv PROVE FewRuns
    OBVIOUS
  <2>1. runs \in Nat /\ RunsLeft(ctx) \in 0 .. 4
    BY RunsLeftBound DEF IInv, TypeOK
  <2> QED
    BY <2>1 DEF FewInv, FewRuns, Forced
<1> QED
  BY <1>1, Inductive, FewInductive, PTL

(***************************************************************************)
(* A conversation gets one verdict: with more than one second to wait for  *)
(* the authenticator.                                                      *)
(***************************************************************************)
\* The EAP machine has neither failed nor succeeded; it has not done both.
Undecided(e) ==
    DOMAIN e = DOMAIN NewEap /\ ~e.eapFail /\ ~e.eapSuccess

NotBoth(e) == ~(e.eapFail /\ e.eapSuccess)

LEMMA QuietNotBoth ==
  ASSUME NEW e, Undecided(e)
  PROVE  /\ NotBoth(EapFailure(e)) /\ NotBoth(EapSuccess(e))
         /\ NotBoth(EapIdleQuiet(e)) /\ NotBoth(e)
<1>1. /\ NotBoth(EapFailure(e)) /\ NotBoth(EapSuccess(e)) /\ NotBoth(e)
  BY DEF Undecided, NotBoth, EapFailure, EapSuccess, NewEap
<1> QED
  BY <1>1 DEF EapIdleQuiet

LEMMA DiscardNotBoth ==
  ASSUME NEW e, Undecided(e)
  PROVE  NotBoth(EapDiscard(e))
<1>1. PICK f : f = [e EXCEPT !.eapReq = FALSE, !.eapNoResp = TRUE,
                             !.lastRespData = NullResp]
  OBVIOUS
<1>2. Undecided(f)
  BY <1>1 DEF Undecided, NewEap
<1>3. EapDiscard(e) = EapIdleQuiet(f)
  BY <1>1 DEF EapDiscard
<1> QED
  BY <1>2, <1>3, QuietNotBoth

LEMMA SendNotBoth ==
  ASSUME NEW e, Undecided(e), NEW id
  PROVE  NotBoth(EapSendResponse(e, id))
<1>1. PICK f : f = [e EXCEPT !.lastId = id, !.lastRespData = NullResp]
  OBVIOUS
<1>2. Undecided(f)
  BY <1>1 DEF Undecided, NewEap
<1>3. PICK g : g = [f EXCEPT !.lastRespData = f.respData,
                             !.eapReq = FALSE, !.eapResp = TRUE]
  OBVIOUS
<1>4. Undecided(g)
  BY <1>2, <1>3 DEF Undecided, NewEap
<1>5. EapSendResponse(e, id) \in {EapDiscard(f), EapIdleQuiet(g)}
  BY <1>1, <1>3 DEF EapSendResponse
<1> QED
  BY <1>2, <1>4, <1>5, DiscardNotBoth, QuietNotBoth

LEMMA MethodNotBoth ==
  ASSUME NEW e, Undecided(e), NEW p, NEW m
  PROVE  NotBoth(EapMethod(e, p, m))
<1>1. PICK r : r = [e EXCEPT !.methodState = m.methodState,
                     !.decision = m.decision, !.altReject = m.altReject,
                     !.altAccept = m.altAccept /\ e.methodState # "INIT",
                     !.by = e.selectedMethod]
  OBVIOUS
<1>2. Undecided(r)
  BY <1>1 DEF Undecided, NewEap
<1>3. Undecided(AskPassword(r, p))
  BY <1>2 DEF AskPassword, Undecided, NewEap
<1>4. PICK f : f = MethodResult(e, p, m)
  OBVIOUS
<1>5. Undecided(f)
  BY <1>1, <1>2, <1>3, <1>4 DEF MethodResult
<1>6. PICK x : x = IF m.resp THEN [id |-> p.id, body |-> e.selectedMethod]
                             ELSE NullResp
  OBVIOUS
<1>7. PICK g : g = [f EXCEPT !.respData = x]
  OBVIOUS
<1>8. Undecided(g)
  BY <1>5, <1>7 DEF Undecided, NewEap
<1>9. EapMethod(e, p, m) \in
        {e, EapDiscard(f), EapFailure(g), EapSendResponse(g, p.id)}
  BY <1>4, <1>6, <1>7 DEF EapMethod
<1> QED
  BY <1>5, <1>8, <1>9, DiscardNotBoth, QuietNotBoth, SendNotBoth

LEMMA DeinitUndecided ==
  ASSUME NEW e, Undecided(e)
  PROVE  Undecided(DeinitMethod(e))
  BY DEF DeinitMethod, Undecided, NewEap

LEMMA GetMethodNotBoth ==
  ASSUME NEW e, Undecided(e), NEW p, NEW m
  PROVE  NotBoth(EapGetMethod(e, p, m))
<1>1. PICK old : old = IF e.lastMethod \notin {p.type, "NONE"}
                       THEN DeinitMethod(e) ELSE e
  OBVIOUS
<1>2. Undecided(old)
  BY <1>1, DeinitUndecided
<1>3. PICK new : new = [old EXCEPT !.lastMethod = p.type,
                                   !.selectedMethod = p.type,
                                   !.methodState = "INIT"]
  OBVIOUS
<1>4. Undecided(new)
  BY <1>2, <1>3 DEF Undecided, NewEap
<1>5. PICK r : r = [id |-> p.id, body |-> "NAK"]
  OBVIOUS
<1>6. PICK nak : nak = [e EXCEPT !.respData = r]
  OBVIOUS
<1>7. Undecided(nak)
  BY <1>6 DEF Undecided, NewEap
<1>8. PICK none : none = [e EXCEPT !.respData = NullResp, !.eapResp = FALSE]
  OBVIOUS
<1>9. Undecided(none)
  BY <1>8 DEF Undecided, NewEap
<1>10. EapGetMethod(e, p, m) \in
         {EapMethod(new, p, m), EapDiscard(none), EapMethod(nak, p, m),
          EapSendResponse(nak, p.id)}
  BY <1>1, <1>3, <1>5, <1>6, <1>8 DEF EapGetMethod
<1> QED
  BY <1>4, <1>7, <1>9, <1>10, MethodNotBoth, DiscardNotBoth, SendNotBoth

LEMMA RetransmitNotBoth ==
  ASSUME NEW e, Undecided(e), NEW p
  PROVE  NotBoth(EapRetransmit(e, p))
<1>1. PICK f : f = [e EXCEPT !.respData = NullResp]
  OBVIOUS
<1>2. Undecided(f)
  BY <1>1 DEF Undecided, NewEap
<1>3. PICK g : g = [f EXCEPT !.respData = e.lastRespData, !.eapResp = TRUE]
  OBVIOUS
<1>4. Undecided(g)
  BY <1>2, <1>3 DEF Undecided, NewEap
<1>5. EapRetransmit(e, p) \in
        {EapSendResponse(g, p.id), EapDiscard(f), EapFailure(f)}
  BY <1>1, <1>3 DEF EapRetransmit, EapFailure
<1> QED
  BY <1>2, <1>4, <1>5, SendNotBoth, DiscardNotBoth, QuietNotBoth

LEMMA IdentityNotBoth ==
  ASSUME NEW e, Undecided(e), NEW p, NEW m
  PROVE  NotBoth(EapIdentity(e, p, m))
<1>1. PICK f : f = [e EXCEPT !.selectedMethod = "NONE", !.respData = NullResp]
  OBVIOUS
<1>2. Undecided(f)
  BY <1>1 DEF Undecided, NewEap
<1>3. PICK r : r = [id |-> p.id, body |-> "IDENTITY"]
  OBVIOUS
<1>4. PICK g : g = [f EXCEPT !.respData = r, !.eapResp = TRUE,
                             !.eapNoResp = FALSE, !.methodState = "INIT"]
  OBVIOUS
<1>5. Undecided(g)
  BY <1>2, <1>4 DEF Undecided, NewEap
<1>6. EapIdentity(e, p, m) \in {EapSendResponse(g, p.id), EapDiscard(f)}
  BY <1>1, <1>3, <1>4 DEF EapIdentity
<1> QED
  BY <1>2, <1>5, <1>6, SendNotBoth, DiscardNotBoth

LEMMA DispatchNotBoth ==
  ASSUME NEW e, Undecided(e), NEW p, NEW m
  PROVE  NotBoth(EapDispatch(e, p, m))
<1>1. PICK n : n = [e EXCEPT !.respData = NullResp]
  OBVIOUS
<1>2. Undecided(n) /\ EapNotification(e, p) = EapSendResponse(n, p.id)
  BY <1>1 DEF Undecided, NewEap, EapNotification
<1>3. PICK o : o = IF e.selectedMethod # "NONE" THEN DeinitMethod(e) ELSE e
  OBVIOUS
<1>4. Undecided(o)
  BY <1>3, DeinitUndecided
<1>5. NotBoth(EapRequest(e, p, m))
  BY GetMethodNotBoth, MethodNotBoth, RetransmitNotBoth, DiscardNotBoth
     DEF EapRequest
<1> QED
  BY <1>2, <1>3, <1>4, <1>5, SendNotBoth, IdentityNotBoth, QuietNotBoth,
     MethodNotBoth DEF EapDispatch

LEMMA InitUndecided ==
  ASSUME NEW e, DOMAIN e = DOMAIN NewEap
  PROVE  Undecided(InitEapVars(e))
<1>1. PICK q : q = (e.eapReq /\ e.reqData # NullFrame)
  OBVIOUS
<1>2. PICK f : f = ForgetResult(e)
  OBVIOUS
<1>3. Undecided(f)
  BY <1>2 DEF ForgetResult, Undecided, NewEap
<1>4. InitEapVars(e) =
        [f EXCEPT !.selectedMethod = "NONE", !.methodState = "NONE",
                  !.allowNotifications = TRUE, !.decision = "EAP_FAIL",
                  !.lastId = InitialId, !.altAccept = FALSE,
                  !.altReject = FALSE, !.eapRestart = FALSE,
                  !.eapReq = q, !.won = FALSE, !.by = "NONE"]
  BY <1>1, <1>2 DEF InitEapVars
<1> QED
  BY <1>3, <1>4 DEF Undecided, NewEap

\* eap_sm_run: one result at most comes of a request.
LEMMA RunNotBoth ==
  ASSUME NEW e, Undecided(e), NEW m, NEW ub
  PROVE  NotBoth(EapRun(e, m, ub))
<1>1. ASSUME NEW x, Undecided(x)
      PROVE  NotBoth(EapReceived(x, m, ub))
  <2>1. PICK p : p = IF x.reqData \in Garbage THEN ub ELSE x.reqData
    OBVIOUS
  <2>2. PICK w : w = (x.wild \/ x.reqData \in Garbage
                             \/ x.decision = "UNSET")
    OBVIOUS
  <2>3. PICK f : f = [x EXCEPT !.wild = w]
    OBVIOUS
  <2>4. Undecided(f)
    BY <1>1, <2>3 DEF Undecided, NewEap
  <2>5. EapReceived(x, m, ub) \in
          {EapDispatch(InitEapVars(DeinitMethod(f)), p, m),
           EapDispatch(f, p, m)}
    BY <2>1, <2>2, <2>3 DEF EapReceived
  <2>6. Undecided(InitEapVars(DeinitMethod(f)))
    BY <2>4, DeinitUndecided, InitUndecided DEF Undecided
  <2> QED
    BY <2>4, <2>5, <2>6, DispatchNotBoth
<1>2. ASSUME NEW x, Undecided(x) PROVE NotBoth(EapIdle(x, m, ub))
  BY <1>1, <1>2, QuietNotBoth DEF EapIdle
<1>3. Undecided(InitEapVars(e))
  BY InitUndecided DEF Undecided
<1> QED
  BY <1>2, <1>3, QuietNotBoth DEF EapRun

(***************************************************************************)
(* The backend machine.                                                    *)
(***************************************************************************)
Clear(c) == ~c.sm.suppSuccess /\ ~c.sm.suppFail /\ ~c.sm.suppTimeout

AtMostOne(c) ==
    /\ ~(c.sm.suppSuccess /\ c.sm.suppFail)
    /\ ~(c.sm.suppSuccess /\ c.sm.suppTimeout)
    /\ ~(c.sm.suppFail /\ c.sm.suppTimeout)

SameReport(c, d) ==
    /\ d.sm.suppSuccess = c.sm.suppSuccess
    /\ d.sm.suppFail = c.sm.suppFail
    /\ d.sm.suppTimeout = c.sm.suppTimeout

\* A second verdict cannot come: the EAP machine has not both failed and
\* succeeded, and a failure that is still to be seen is not overtaken by the
\* clock.
NoSecond(c) ==
    /\ c.sm.beCurState = "REQUEST" => NotBoth(c.eap)
    /\ c.sm.beCurState = "RECEIVE" /\ c.eap.eapFail =>
          c.sm.authWhile = AuthPeriod

\* The states in which the backend reports do not change.
LEMMA OpsTell ==
  ASSUME NEW c, WithEap(c)
  PROVE  /\ WithEap(BeFail(c)) /\ BeFail(c).eap = c.eap
         /\ BeFail(c).sm.beCurState = "IDLE" /\ ~BeFail(c).sm.suppStart
         /\ BeFail(c).sm.suppFail
         /\ BeFail(c).sm.suppSuccess = c.sm.suppSuccess
         /\ BeFail(c).sm.suppTimeout = c.sm.suppTimeout
         /\ BeFail(c).sm.authWhile = c.sm.authWhile
         /\ BeFail(c).sm.eapolEap = c.sm.eapolEap
         /\ WithEap(BeTimeout(c)) /\ BeTimeout(c).eap = c.eap
         /\ BeTimeout(c).sm.beCurState = "IDLE"
         /\ BeTimeout(c).sm.suppTimeout
         /\ BeTimeout(c).sm.suppSuccess = c.sm.suppSuccess
         /\ BeTimeout(c).sm.suppFail = c.sm.suppFail
         /\ WithEap(BeSuccess(c)) /\ BeSuccess(c).eap = c.eap
         /\ BeSuccess(c).sm.beCurState = "IDLE"
         /\ BeSuccess(c).sm.suppSuccess
         /\ BeSuccess(c).sm.suppFail = c.sm.suppFail
         /\ BeSuccess(c).sm.suppTimeout = c.sm.suppTimeout
  BY DEF BeFail, BeTimeout, BeSuccess, BeIdle, WithEap, Shaped, NewSm, NewEap

LEMMA WaitTells ==
  ASSUME NEW c, WithEap(c)
  PROVE  \A d \in {BeReceive(c), BeResponse(c)} :
            /\ WithEap(d) /\ d.sm.beCurState = "RECEIVE"
            /\ SameReport(c, d) /\ d.sm.authWhile = AuthPeriod
            /\ d.eap.eapFail = c.eap.eapFail
            /\ d.eap.eapSuccess = c.eap.eapSuccess
<1> USE DEF WithEap, Shaped, NewSm, NewEap, SameReport
<1>1. PICK x : x = TxSuppRsp(c)
  OBVIOUS
<1>2. /\ WithEap(x) /\ SameReport(c, x)
      /\ x.eap.eapFail = c.eap.eapFail
      /\ x.eap.eapSuccess = c.eap.eapSuccess
  BY <1>1 DEF TxSuppRsp, Transmit
<1>3. PICK y : y = [x EXCEPT !.eap.respData = NullResp]
  OBVIOUS
<1>4. /\ WithEap(y) /\ y.sm = x.sm /\ y.eap.eapFail = x.eap.eapFail
      /\ y.eap.eapSuccess = x.eap.eapSuccess
  BY <1>2, <1>3
<1>5. BeResponse(c) = BeReceive(y)
  BY <1>1, <1>3 DEF BeResponse
<1>6. ASSUME NEW d, WithEap(d)
      PROVE  LET r == BeReceive(d)
             IN  /\ WithEap(r) /\ r.sm.beCurState = "RECEIVE"
                 /\ SameReport(d, r) /\ r.sm.authWhile = AuthPeriod
                 /\ r.eap.eapFail = d.eap.eapFail
                 /\ r.eap.eapSuccess = d.eap.eapSuccess
  BY <1>6 DEF BeReceive
<1> HIDE DEF WithEap
<1> QED
  BY <1>2, <1>4, <1>5, <1>6 DEF SameReport

\* REQUEST: nothing is reported, and the EAP machine comes to one result.
LEMMA RequestTells ==
  ASSUME NEW c, WithEap(c), NEW in
  PROVE  LET d == BeRequest(c, in)
         IN  /\ Shaped(d) /\ d.sm.beCurState = "REQUEST"
             /\ SameReport(c, d) /\ d.sm.suppStart = c.sm.suppStart
             /\ Undecided(c.eap) => NotBoth(d.eap)
<1> USE DEF WithEap, Shaped, NewSm, NewEap, SameReport, Undecided
<1>1. PICK x : x = TakeFrame([c EXCEPT !.sm.authWhile = 0,
                                       !.sm.eapReq = TRUE,
                                       !.sm.beCurState = "REQUEST"])
  OBVIOUS
<1>2. /\ Shaped(x) /\ x.sm.beCurState = "REQUEST"
      /\ SameReport(c, x) /\ x.sm.suppStart = c.sm.suppStart
      /\ Undecided(c.eap) => Undecided(x.eap)
  BY <1>1 DEF TakeFrame
<1>3. BeRequest(c, in) = RunEap(x, in)
  BY <1>1 DEF BeRequest, GetSuppRsp
<1>4. PICK s : s = SyncLowerToPeer(x)
  OBVIOUS
<1>5. Shaped(s) /\ s.sm = x.sm /\ (Undecided(x.eap) => Undecided(s.eap))
  BY <1>2, <1>4 DEF SyncLowerToPeer
<1>6. PICK e : e = EapRun(s.eap, in.m, in.ub)
  OBVIOUS
<1> HIDE DEF Undecided
<1>7. Undecided(s.eap) => NotBoth(e)
  BY <1>6, RunNotBoth
<1>8. RunEap(x, in) = SyncPeerToLower(s, e)
  BY <1>4, <1>6 DEF RunEap
<1>9. PICK d : d = SyncPeerToLower(s, e)
  OBVIOUS
<1>10. /\ Shaped(d) /\ d.eap = e /\ d.sm.beCurState = "REQUEST"
       /\ SameReport(c, d) /\ d.sm.suppStart = c.sm.suppStart
  BY <1>2, <1>5, <1>9 DEF SyncPeerToLower
<1> QED
  BY <1>2, <1>3, <1>5, <1>7, <1>8, <1>9, <1>10

\* What the port access entity leaves to the backend: a run of it comes to
\* one verdict.
Told(c) ==
    /\ AtMostOne(c)
    /\ \/ c.sm.initialize \/ c.sm.suppAbort \/ BackendQuiet(c)
       \/ /\ Clear(c)
          /\ c.sm.beCurState = "RECEIVE" => ~c.eap.eapFail
          /\ c.sm.beCurState = "REQUEST" => NotBoth(c.eap)
       \/ /\ c.sm.beCurState = "RECEIVE" /\ c.eap.eapFail
          /\ c.sm.suppFail /\ c.sm.authWhile # 0 /\ ~c.sm.eapolEap

LEMMA BackendTells ==
  ASSUME NEW c, WithEap(c), ~c.sm.eapRestart, ReceiveWaits(c), Told(c),
         NEW in
  PROVE  AtMostOne(BackendRun(c, in)) /\ NoSecond(BackendRun(c, in))
<1> DEFINE init == c.sm.initialize \/ c.sm.suppAbort
           D == BackendRun(c, in)
           Good(d) == AtMostOne(d) /\ NoSecond(d)
<1>1. BeGlobals(c, in) = IF init THEN BeInitialize(c) ELSE c
  BY GlobalsWithoutRestart DEF WithEap
<1>2. ASSUME NEW d, AtMostOne(d), d.sm.beCurState \notin {"REQUEST", "RECEIVE"}
      PROVE  Good(d)
  BY <1>2 DEF NoSecond
<1>3. CASE init
  <2>1. PICK d : d = BeInitialize(c)
    OBVIOUS
  <2>2. d.sm.beCurState = "IDLE" /\ ~d.sm.suppStart /\ SameReport(c, d)
    BY <2>1 DEF BeInitialize, BeIdle, AbortSupp, WithEap, Shaped, NewSm,
                SameReport
  <2>3. D = d
    BY <1>1, <1>3, <2>1, <2>2, BeDoIdleQuiet DEF BackendRun, BeDo
  <2> QED
    BY <1>2, <2>2, <2>3 DEF Told, AtMostOne, SameReport
<1>4. CASE ~init /\ BackendQuiet(c)
  <2>1. D = c
    BY <1>1, <1>4, BeDoIdleQuiet DEF BackendRun, BeDo, BackendQuiet
  <2> QED
    BY <1>2, <1>4, <2>1 DEF Told, BackendQuiet
<1>5. CASE /\ ~init /\ c.sm.beCurState = "RECEIVE" /\ c.eap.eapFail
           /\ c.sm.suppFail /\ c.sm.authWhile # 0 /\ ~c.sm.eapolEap
  <2>1. PICK a : a = BeFail(c)
    OBVIOUS
  <2>2. /\ a.eap = c.eap /\ a.sm.beCurState = "IDLE" /\ a.sm.suppFail
        /\ a.sm.suppSuccess = c.sm.suppSuccess
        /\ a.sm.suppTimeout = c.sm.suppTimeout
        /\ a.sm.authWhile # 0 /\ ~a.sm.eapolEap
    BY <1>5, <2>1, OpsTell
  <2>3. D = a
    BY <1>1, <1>5, <2>1, <2>2
       DEF BackendRun, BeDo, BeDoReceive, Failed, TimedOut, Succeeded, Heard,
           ReceiveWaits
  <2> QED
    BY <1>2, <1>5, <2>2, <2>3 DEF Told, AtMostOne
<1>6. CASE /\ ~init /\ Clear(c)
           /\ c.sm.beCurState = "RECEIVE" => ~c.eap.eapFail
           /\ c.sm.beCurState = "REQUEST" => NotBoth(c.eap)
  <2>1. D = BeDo(c, in)
    BY <1>1, <1>6 DEF BackendRun
  <2>2. CASE c.sm.beCurState = "IDLE"
    <3>1. CASE c.sm.suppStart /\ c.eap.eapFail
      <4>1. PICK a : a = BeFail(c)
        OBVIOUS
      <4>2. /\ a.sm.beCurState = "IDLE" /\ ~a.sm.suppStart
            /\ a.sm.suppSuccess = c.sm.suppSuccess
            /\ a.sm.suppTimeout = c.sm.suppTimeout
        BY <4>1, OpsTell
      <4>3. D = a
        BY <2>1, <2>2, <3>1, <4>1, <4>2
           DEF BeDo, BeDoIdle, FailedIfAsked, Failed, HeardIfAsked,
               SucceededIfAsked
      <4> QED
        BY <1>2, <1>6, <4>2, <4>3 DEF Clear, AtMostOne
    <3>2. CASE c.sm.suppStart /\ ~c.eap.eapFail
      <4>1. PICK b : b = Heard(c, in)
        OBVIOUS
      <4>2. D = SucceededIfAsked(b)
        BY <2>1, <2>2, <3>2, <4>1
           DEF BeDo, BeDoIdle, FailedIfAsked, Failed, HeardIfAsked
      <4>3. /\ Shaped(b) /\ SameReport(c, b) /\ b.sm.suppStart
            /\ b.sm.beCurState \in {"IDLE", "REQUEST"}
        BY <2>2, <3>2, <4>1, RequestTells DEF Heard, WithEap, SameReport
      <4>4. PICK s : s = BeSuccess(b)
        OBVIOUS
      <4>5. s.sm.beCurState = "IDLE" /\ AtMostOne(s) /\ AtMostOne(b)
        BY <1>6, <4>3, <4>4
           DEF BeSuccess, BeIdle, Shaped, NewSm, SameReport, Clear,
               AtMostOne
      <4>6. D = IF b.eap.eapSuccess THEN s ELSE b
        BY <4>2, <4>3, <4>4 DEF SucceededIfAsked, Succeeded
      <4> QED
        BY <1>2, <4>3, <4>5, <4>6 DEF NoSecond, NotBoth
    <3>3. CASE ~c.sm.suppStart
      <4>1. D = c
        BY <2>1, <2>2, <3>3, BeDoIdleQuiet DEF BeDo
      <4> QED
        BY <1>2, <2>2, <4>1 DEF Told
    <3> QED
      BY <3>1, <3>2, <3>3
  <2>3. CASE c.sm.beCurState = "REQUEST"
    <3> DEFINE W(x) ==
                 /\ WithEap(x) /\ NotBoth(x.eap)
                 /\ ~x.sm.suppSuccess /\ ~x.sm.suppTimeout
                 /\ x.sm.suppFail => x.eap.eapFail
                 /\ x.sm.beCurState = "RECEIVE" =>
                       x.sm.authWhile = AuthPeriod
    <3>1. PICK a : a = Failed(c)
      OBVIOUS
    <3>2. W(a)
      BY <1>6, <2>3, <3>1, OpsTell DEF Failed, Clear
    <3>3. ASSUME NEW x, W(x)
          PROVE  W(Silent(x)) /\ W(Answered(x))
      BY <3>3, WaitTells DEF Silent, Answered, SameReport, NotBoth
    <3>4. PICK d : d = Answered(Silent(a))
      OBVIOUS
    <3>5. W(d)
      BY <3>2, <3>3, <3>4
    <3>6. D = Succeeded(d)
      BY <2>1, <2>3, <3>1, <3>4 DEF BeDo, BeDoRequest
    <3>7. CASE d.eap.eapSuccess
      <4>1. PICK s : s = BeSuccess(d)
        OBVIOUS
      <4>2. /\ s.sm.beCurState = "IDLE" /\ ~s.sm.suppTimeout
            /\ ~s.sm.suppFail
        BY <3>5, <3>7, <4>1, OpsTell DEF NotBoth
      <4> QED
        BY <1>2, <3>6, <3>7, <4>1, <4>2 DEF Succeeded, AtMostOne
    <3>8. CASE ~d.eap.eapSuccess
      BY <3>5, <3>6, <3>8 DEF Succeeded, AtMostOne, NoSecond
    <3> QED
      BY <3>7, <3>8
  <2>4. CASE c.sm.beCurState = "RECEIVE"
    <3>1. Undecided(c.eap)
      BY <1>6, <2>4 DEF Undecided, WithEap, ReceiveWaits
    <3>2. PICK a : a = TimedOut(c)
      OBVIOUS
    <3>3. /\ WithEap(a) /\ AtMostOne(a) /\ a.eap = c.eap
      BY <1>6, <3>2, OpsTell DEF TimedOut, Clear, AtMostOne
    <3>4. D = Heard(a, in)
      BY <2>1, <2>4, <3>1, <3>2, <3>3
         DEF BeDo, BeDoReceive, Failed, Succeeded, Undecided
    <3>5. CASE a.sm.eapolEap
      <4>1. PICK d : d = BeRequest(a, in)
        OBVIOUS
      <4>2. SameReport(a, d) /\ d.sm.beCurState = "REQUEST" /\ NotBoth(d.eap)
        BY <3>1, <3>3, <4>1, RequestTells
      <4> QED
        BY <3>3, <3>4, <3>5, <4>1, <4>2
           DEF Heard, SameReport, AtMostOne, NoSecond
    <3>6. CASE ~a.sm.eapolEap
      BY <3>1, <3>3, <3>4, <3>6 DEF Heard, NoSecond, Undecided, NotBoth
    <3> QED
      BY <3>5, <3>6
  <2>5. CASE c.sm.beCurState \notin {"IDLE", "REQUEST", "RECEIVE"}
    BY <1>2, <2>1, <2>5 DEF BeDo, Told
  <2> QED
    BY <2>2, <2>3, <2>4, <2>5
<1> QED
  BY <1>3, <1>4, <1>5, <1>6 DEF Told

(***************************************************************************)
(* The port access entity.                                                 *)
(***************************************************************************)
\* One verdict, and no second to come while the port access entity listens;
\* a failure that is still to be seen was reported by the last run of the
\* backend, which set the clock.
Pending(c) ==
    c.sm.beCurState = "RECEIVE" /\ c.eap.eapFail
    /\ ~c.sm.initialize /\ ~c.sm.suppAbort

VerdictInv(c) ==
    /\ AtMostOne(c)
    /\ c.sm.curState = "AUTHENTICATING" =>
          /\ c.sm.beCurState = "REQUEST" => NotBoth(c.eap)
          /\ Pending(c) => c.sm.authWhile = AuthPeriod

\* The same after a second: the clock has not run out.
InTime(c) ==
    /\ AtMostOne(c)
    /\ c.sm.curState = "AUTHENTICATING" =>
          /\ c.sm.beCurState = "REQUEST" => NotBoth(c.eap)
          /\ Pending(c) => c.sm.authWhile # 0

LEMMA DisconnectedTold ==
  ASSUME NEW c, Shaped(c), AtMostOne(c)
  PROVE  Told(ToDisconnected(c))
<1>1. PICK d : d = ToDisconnected(c)
  OBVIOUS
<1>2. d.sm.suppAbort /\ SameReport(c, d)
  BY <1>1 DEF ToDisconnected, Shaped, NewSm, SameReport
<1> QED
  BY <1>1, <1>2 DEF Told, SameReport, AtMostOne

\* AUTHENTICATING starts with no verdict.
LEMMA AuthenticatingTold ==
  ASSUME NEW c, Shaped(c), AtMostOne(c) \/ c.sm.curState = "RESTART",
         c.sm.beCurState \in {"UNKNOWN", "IDLE"} \/ c.sm.suppAbort
  PROVE  Told(ToAuthenticating(c))
<1>1. CASE c.sm.curState \notin {"CONNECTING", "RESTART"}
  BY <1>1, DisconnectedTold DEF ToAuthenticating
<1>2. CASE c.sm.curState \in {"CONNECTING", "RESTART"}
  <2>1. PICK v : v = ForgetVerdict(c)
    OBVIOUS
  <2>2. /\ Shaped(v) /\ Clear(v) /\ v.sm.beCurState = c.sm.beCurState
        /\ v.sm.suppAbort = c.sm.suppAbort
    BY <2>1 DEF ForgetVerdict, Shaped, NewSm, Clear
  <2>3. PICK d : d = [v EXCEPT !.sm.startCount = 0, !.sm.suppStart = TRUE,
                               !.sm.curState = "AUTHENTICATING"]
    OBVIOUS
  <2>4. /\ Clear(d) /\ d.sm.beCurState = c.sm.beCurState
        /\ d.sm.suppAbort = c.sm.suppAbort
    BY <2>2, <2>3 DEF Shaped, NewSm, Clear
  <2>5. ToAuthenticating(c) = d
    BY <1>2, <2>1, <2>3 DEF ToAuthenticating
  <2> QED
    BY <2>4, <2>5 DEF Told, Clear, AtMostOne
<1> QED
  BY <1>1, <1>2

LEMMA RestartTold ==
  ASSUME NEW c, Shaped(c), AtMostOne(c), NEW in, Entered(ToRestart(c, in))
  PROVE  Told(ToRestart(c, in))
<1>1. PICK m : m = [c EXCEPT !.sm.eapRestart = TRUE,
                             !.sm.curState = "RESTART",
                             !.sm.portControl = "AUTO", !.sm.eapReq = FALSE]
  OBVIOUS
<1>2. Shaped(m) /\ m.sm.curState = "RESTART" /\ m.sm.eapRestart
  BY <1>1 DEF Shaped, NewSm
<1>3. PICK b : b = BackendRun(m, in)
  OBVIOUS
<1>4. /\ Shaped(b) /\ b.sm.curState = "RESTART"
      /\ b.sm.beCurState = "IDLE"
  BY <1>2, <1>3, BackendPort, RestartIdle DEF KeepsPort
<1>5. PICK q : q = c.sm.eapReq
  OBVIOUS
<1>6. PICK r : r = [b EXCEPT !.sm.eapReq = q]
  OBVIOUS
<1>7. /\ Shaped(r) /\ r.sm.curState = "RESTART"
      /\ r.sm.beCurState = "IDLE"
  BY <1>4, <1>6 DEF Shaped, NewSm
<1>8. ToRestart(c, in) \in {ToDisconnected(c), DoRestart(r)}
  BY <1>1, <1>3, <1>5, <1>6 DEF ToRestart
<1>9. CASE ToRestart(c, in) = DoRestart(r)
  <2>1. DoRestart(r) = ToAuthenticating(r)
    BY <1>7, <1>9 DEF DoRestart, Entered
  <2> QED
    BY <1>7, <1>9, <2>1, AuthenticatingTold
<1> QED
  BY <1>8, <1>9, DisconnectedTold

\* CONNECTING is entered with a quiet backend, or with a frame to begin with.
LEMMA ConnectingTold ==
  ASSUME NEW c, Shaped(c), AtMostOne(c), NEW in,
         Entered(ToConnecting(c, in)),
         BackendQuiet(c) \/ c.sm.suppAbort \/ c.sm.eapolEap
  PROVE  Told(ToConnecting(c, in))
<1> DEFINE Alone(x) ==
             /\ Shaped(x) /\ AtMostOne(x)
             /\ BackendQuiet(x) \/ x.sm.suppAbort \/ x.sm.eapolEap
             /\ x.sm.eapolEap = c.sm.eapolEap
<1>1. PICK d : d = [c EXCEPT !.sm.curState = "CONNECTING"]
  OBVIOUS
<1>2. Alone(d)
  BY <1>1 DEF Shaped, NewSm, AtMostOne, BackendQuiet
<1>3. PICK w : w = [d EXCEPT !.sm.startWhen = StartPeriod]
  OBVIOUS
<1>4. Alone(w)
  BY <1>2, <1>3 DEF Shaped, NewSm, AtMostOne, BackendQuiet
<1>5. PICK s : s = TxStart(w)
  OBVIOUS
<1>6. Shaped(s) /\ s.sm = w.sm
  BY <1>4, <1>5 DEF TxStart, Transmit, Shaped
<1>7. Alone(s)
  BY <1>4, <1>6 DEF AtMostOne, BackendQuiet
<1>8. PICK z : z = [s EXCEPT !.sm.startCount = (@ + 1) % 256]
  OBVIOUS
<1>9. Alone(z)
  BY <1>7, <1>8 DEF Shaped, NewSm, AtMostOne, BackendQuiet
<1>10. ASSUME NEW x, Alone(x), ~c.sm.eapolEap PROVE Told(x)
  BY <1>10 DEF Told
<1>11. \/ ToConnecting(c, in) \in {ToDisconnected(c), ToRestart(d, in)}
       \/ ToConnecting(c, in) \in {w, z} /\ ~d.sm.eapolEap
  BY <1>1, <1>3, <1>5, <1>8 DEF ToConnecting
<1> QED
  BY <1>2, <1>4, <1>9, <1>10, <1>11, DisconnectedTold, RestartTold

\* A failure seen: the backend is quiet, or sees it too, in time.
LEMMA HeldTold ==
  ASSUME NEW c, Shaped(c), c.sm.curState = "AUTHENTICATING", c.sm.suppFail,
         Follow(c), InTime(c)
  PROVE  Told(ToHeld(c))
<1>1. PICK d : d = ToHeld(c)
  OBVIOUS
<1>2. /\ SameReport(c, d) /\ ~d.sm.eapolEap /\ d.eap = c.eap
      /\ d.sm.beCurState = c.sm.beCurState
      /\ d.sm.suppStart = c.sm.suppStart
      /\ d.sm.authWhile = c.sm.authWhile
      /\ d.sm.initialize = c.sm.initialize
      /\ d.sm.suppAbort = c.sm.suppAbort
  BY <1>1 DEF ToHeld, Shaped, NewSm, SameReport
<1> QED
  BY <1>1, <1>2
     DEF Told, InTime, Pending, SameReport, AtMostOne, Follow,
         VerdictQuiets, BackendQuiet

(***************************************************************************)
(* statemachine_do_*.                                                      *)
(***************************************************************************)
LEMMA AuthenticatingTells ==
  ASSUME NEW c, WithEap(c), c.sm.curState = "AUTHENTICATING", Follow(c),
         SuccessHolds(c), InTime(c), NEW in, Entered(DoAuthenticating(c, in))
  PROVE  Told(DoAuthenticating(c, in))
<1>1. Shaped(c) /\ AtMostOne(c)
  BY DEF WithEap, InTime
<1>2. CASE c.sm.suppSuccess
  <2>1. PICK d : d = ToAuthenticated(c)
    OBVIOUS
  <2>2. /\ SameReport(c, d) /\ d.sm.beCurState = c.sm.beCurState
        /\ d.sm.suppStart = c.sm.suppStart
    BY <1>1, <2>1 DEF ToAuthenticated, Shaped, NewSm, SameReport
  <2>3. Told(d)
    BY <1>1, <1>2, <2>2
       DEF SuccessHolds, Told, SameReport, AtMostOne, BackendQuiet
  <2> QED
    BY <1>2, <2>1, <2>3 DEF DoAuthenticating
<1>3. CASE ~c.sm.suppSuccess /\ c.sm.suppFail
  BY <1>1, <1>3, HeldTold DEF DoAuthenticating
<1>4. CASE ~c.sm.suppSuccess /\ ~c.sm.suppFail /\ c.sm.suppTimeout
  <2>1. DoAuthenticating(c, in) = ToConnecting(c, in)
    BY <1>4 DEF DoAuthenticating
  <2>2. BackendQuiet(c) \/ c.sm.eapolEap
    BY <1>4 DEF Follow, VerdictQuiets
  <2> QED
    BY <1>1, <2>1, <2>2, ConnectingTold
<1>5. CASE Clear(c)
  <2>1. DoAuthenticating(c, in) = c
    BY <1>5 DEF DoAuthenticating, Clear
  <2>2. c.sm.beCurState = "RECEIVE" => ~c.eap.eapFail
    BY <1>5 DEF Follow, VerdictQuiets, Clear
  <2> QED
    BY <1>1, <1>5, <2>1, <2>2 DEF Told, InTime
<1> QED
  BY <1>2, <1>3, <1>4, <1>5 DEF Clear

LEMMA AuthenticatedTells ==
  ASSUME NEW c, WithEap(c), BackendQuiet(c), AtMostOne(c), NEW in,
         Entered(DoAuthenticated(c, in))
  PROVE  Told(DoAuthenticated(c, in))
<1>1. CASE ~c.sm.eapolEap
  BY <1>1 DEF DoAuthenticated, Told
<1>2. CASE c.sm.eapolEap /\ c.recvframe.code = "SUCCESS"
  <2>1. PICK k : k = [c EXCEPT !.sm.eapolEap = FALSE]
    OBVIOUS
  <2>2. Shaped(k) /\ AtMostOne(k) /\ BackendQuiet(k)
    BY <2>1 DEF WithEap, Shaped, NewSm, AtMostOne, BackendQuiet
  <2>3. PICK d : d = ReleaseFrame(k)
    OBVIOUS
  <2>4. d.sm = k.sm
    BY <2>2, <2>3 DEF ReleaseFrame, Shaped
  <2>5. DoAuthenticated(c, in) = d
    BY <1>2, <2>1, <2>3 DEF DoAuthenticated
  <2> QED
    BY <2>2, <2>4, <2>5 DEF Told, AtMostOne, BackendQuiet
<1>3. CASE c.sm.eapolEap /\ c.recvframe.code # "SUCCESS"
  <2>1. PICK w : w = IF c.recvframe.code \in {"NULL", "OTHER"}
                     THEN [c EXCEPT !.eap.wild = TRUE] ELSE c
    OBVIOUS
  <2>2. DoAuthenticated(c, in) = ToRestart(w, in)
    BY <1>3, <2>1 DEF DoAuthenticated
  <2>3. Shaped(w) /\ w.sm = c.sm
    BY <2>1 DEF WithEap, Shaped
  <2> QED
    BY <2>2, <2>3, RestartTold DEF AtMostOne
<1> QED
  BY <1>1, <1>2, <1>3

LEMMA ConnectingTells ==
  ASSUME NEW c, WithEap(c), c.sm.curState = "CONNECTING", Follow(c),
         AtMostOne(c), NEW in, Entered(DoConnecting(c, in))
  PROVE  \/ Told(DoConnecting(c, in))
         \/ DoConnecting(c, in) = ToForceAuth(c)
<1>1. Shaped(c) /\ (c.sm.suppAbort \/ BackendQuiet(c))
  BY DEF WithEap, Follow, Follows
<1>2. PICK s : s = TxStart(c)
  OBVIOUS
<1>3. Shaped(s) /\ s.sm = c.sm
  BY <1>1, <1>2 DEF TxStart, Transmit, Shaped
<1>4. CASE DoConnecting(c, in) = ToConnecting(s, in)
  BY <1>1, <1>3, <1>4, ConnectingTold DEF BackendQuiet, AtMostOne
<1>5. CASE DoConnecting(c, in) = ToAuthenticating(c)
  BY <1>1, <1>5, AuthenticatingTold DEF BackendQuiet
<1>6. CASE DoConnecting(c, in) = ToRestart(c, in)
  BY <1>1, <1>6, RestartTold
<1>7. CASE DoConnecting(c, in) = c
  BY <1>1, <1>7 DEF Told
<1> QED
  BY <1>2, <1>4, <1>5, <1>6, <1>7 DEF DoConnecting

\* One run of the port access entity.
LEMMA PaeTells ==
  ASSUME NEW c, WithEap(c), Follow(c), SuccessHolds(c), InTime(c),
         ~Forced(c), ~c.sm.userLogoff, NEW in,
         c.sm.curState \in PaeStateNames \ {"RESTART", "S_FORCE_UNAUTH"},
         Entered(DoPae(c, in))
  PROVE  Told(DoPae(c, in)) \/ DoPae(c, in) = ToForceAuth(c)
<1>1. Shaped(c) /\ AtMostOne(c)
  BY DEF WithEap, InTime
<1>2. CASE c.sm.curState = "LOGOFF"
  BY <1>1, <1>2, DisconnectedTold DEF DoPae, DoLogoff
<1>3. CASE c.sm.curState = "CONNECTING"
  BY <1>1, <1>3, ConnectingTells DEF DoPae
<1>4. CASE c.sm.curState = "AUTHENTICATING"
  BY <1>4, AuthenticatingTells DEF DoPae
<1>5. CASE c.sm.curState = "AUTHENTICATED"
  BY <1>1, <1>5, AuthenticatedTells DEF DoPae, SuccessHolds
<1>6. CASE c.sm.curState \in {"HELD", "DISCONNECTED"}
  <2>1. c.sm.suppAbort \/ BackendQuiet(c)
    BY <1>6 DEF Follow, Follows
  <2>2. DoPae(c, in) \in {c, ToConnecting(c, in), ToRestart(c, in)}
    BY <1>6 DEF DoPae, DoHeld, DoDisconnected
  <2>3. Told(c)
    BY <1>1, <2>1 DEF Told
  <2> QED
    BY <1>1, <2>1, <2>2, <2>3, ConnectingTold, RestartTold
<1> QED
  BY <1>2, <1>3, <1>4, <1>5, <1>6 DEF PaeStateNames, Forced

(***************************************************************************)
(* One run of both machines.                                               *)
(***************************************************************************)
\* What looks the same to a verdict, but for the time that is left.
Untold(c, d) ==
    /\ SameReport(c, d)
    /\ d.sm.curState = c.sm.curState /\ d.sm.beCurState = c.sm.beCurState
    /\ d.sm.initialize = c.sm.initialize
    /\ d.sm.suppAbort = c.sm.suppAbort
    /\ d.eap.eapFail = c.eap.eapFail /\ d.eap.eapSuccess = c.eap.eapSuccess

SameTime(c, d) == Untold(c, d) /\ d.sm.authWhile = c.sm.authWhile

LEMMA SameTimeTold ==
  ASSUME NEW c, NEW d, SameTime(c, d)
  PROVE  /\ VerdictInv(c) => VerdictInv(d)
         /\ InTime(c) => InTime(d)
  BY DEF SameTime, Untold, VerdictInv, InTime, Pending, SameReport,
         AtMostOne, NotBoth

\* A port that is not, or no longer, authenticating.
LEMMA ElsewhereTold ==
  ASSUME NEW c, AtMostOne(c), NEW d, SameReport(c, d),
         d.sm.curState # "AUTHENTICATING"
  PROVE  VerdictInv(d) /\ InTime(d)
  BY DEF VerdictInv, InTime, SameReport, AtMostOne

\* A second does not use up the time that the last run of the backend gave.
LEMMA TimerTickTold ==
  ASSUME AuthPeriod > 1, NEW c, WithEap(c), VerdictInv(c)
  PROVE  InTime(TimerTick(c))
<1>1. PICK x : x = DecIfNz(c.sm.authWhile)
  OBVIOUS
<1>2. PICK y : y = DecIfNz(c.sm.heldWhile)
  OBVIOUS
<1>3. PICK z : z = DecIfNz(c.sm.startWhen)
  OBVIOUS
<1>4. PICK t : t = [c EXCEPT !.sm.authWhile = x, !.sm.heldWhile = y,
                             !.sm.startWhen = z, !.sm.tick = FALSE]
  OBVIOUS
<1>5. TimerTick(c) = t
  BY <1>1, <1>2, <1>3, <1>4 DEF TimerTick, WithEap, Shaped, NewSm
<1>6. Untold(c, t) /\ t.sm.authWhile = x
  BY <1>4 DEF WithEap, Shaped, NewSm, Untold, SameReport
<1>7. c.sm.authWhile = AuthPeriod => x # 0
  BY <1>1, PeriodsAssumption DEF DecIfNz
<1> QED
  BY <1>5, <1>6, <1>7
     DEF VerdictInv, InTime, Untold, SameReport, Pending, AtMostOne, NotBoth

\* A change of the whole port leaves AUTHENTICATING.
LEMMA GlobalTold ==
  ASSUME NEW c, WithEap(c), InTime(c), ~c.sm.userLogoff,
         c.sm.portControl # "FORCE_UNAUTHORIZED"
  PROVE  InTime(GlobalTransition(c))
<1>1. UserLogsOff(c) = c
  BY DEF UserLogsOff
<1>2. AtMostOne(c) /\ Shaped(c)
  BY DEF InTime, WithEap
<1>3. PICK f : f = ForcedOpen(c)
  OBVIOUS
<1>4. /\ Shaped(f) /\ InTime(f) /\ AtMostOne(f)
      /\ f.sm.portControl # "FORCE_UNAUTHORIZED"
  <2>1. PICK o : o = ToForceAuth(c)
    OBVIOUS
  <2>2. /\ Shaped(o) /\ SameReport(c, o)
        /\ o.sm.curState # "AUTHENTICATING"
        /\ o.sm.portControl # "FORCE_UNAUTHORIZED"
    BY <1>2, <2>1 DEF ToForceAuth, Shaped, NewSm, SameReport
  <2>3. InTime(o) /\ AtMostOne(o)
    BY <1>2, <2>2, ElsewhereTold DEF SameReport, AtMostOne
  <2> QED
    BY <1>2, <1>3, <2>1, <2>2, <2>3 DEF ForcedOpen
<1>5. GlobalTransition(c) = BackToAuto(f)
  BY <1>1, <1>3, <1>4 DEF GlobalTransition, ForcedShut
<1>6. PICK d : d = ToDisconnected(f)
  OBVIOUS
<1>7. SameReport(f, d) /\ d.sm.curState # "AUTHENTICATING"
  BY <1>4, <1>6 DEF ToDisconnected, Shaped, NewSm, SameReport
<1>8. InTime(d)
  BY <1>4, <1>7, ElsewhereTold
<1> QED
  BY <1>4, <1>5, <1>6, <1>8 DEF BackToAuto

LEMMA TickTold ==
  ASSUME AuthPeriod > 1, NEW c, WithEap(c), VerdictInv(c),
         ~c.sm.userLogoff, c.sm.portControl # "FORCE_UNAUTHORIZED"
  PROVE  InTime(TickedOn(c))
<1>1. CASE ~c.sm.tick
  BY <1>1, PeriodsAssumption DEF TickedOn, VerdictInv, InTime
<1>2. CASE c.sm.tick
  <2>1. PICK t : t = TimerTick(c)
    OBVIOUS
  <2>2. /\ WithEap(t) /\ ~t.sm.userLogoff
        /\ t.sm.portControl # "FORCE_UNAUTHORIZED"
    BY <2>1 DEF TimerTick, WithEap, Shaped, NewSm
  <2>3. InTime(t)
    BY <2>1, TimerTickTold
  <2> QED
    BY <1>2, <2>1, <2>2, <2>3, GlobalTold DEF TickedOn
<1> QED
  BY <1>1, <1>2

\* The machines run on a port that is up and not forced.
LEMMA MachinesTold ==
  ASSUME NEW c, CtxOk(c), PortInv(c), InTime(c), c.conn # "NONE",
         c.sm.portEnabled, ~Forced(c), NEW in \in Inputs
  PROVE  VerdictInv(BackendUnlessForced(DoPae(c, in), in))
<1>1. Begun(c)
  BY DEF Begun, Base, Enabled, CtxOk, Unreached, UnsetIsUnused, Forced
<1>2. PICK e : e = DoPae(c, in)
  OBVIOUS
<1>3. Entered(e)
  BY <1>1, <1>2, DoPaeOk
<1>4. WithEap(e) /\ ~e.sm.eapRestart /\ ReceiveWaits(e)
  BY <1>3, ContextsShaped DEF Entered, Base, Enabled
<1>5. c.sm.curState \in PaeStateNames \ {"RESTART", "S_FORCE_UNAUTH"}
  BY AllowedMethods DEF CtxOk, Unreached, SmStates
<1>6. Told(e) \/ e = ToForceAuth(c)
  BY <1>2, <1>3, <1>5, ContextsShaped, PaeTells
     DEF CtxOk, PortInv, Unreached
<1>7. CASE e = ToForceAuth(c)
  <2>1. Shaped(c)
    BY ContextsShaped DEF CtxOk, WithEap
  <2>2. SameReport(c, e) /\ e.sm.curState = "S_FORCE_AUTH"
    BY <1>7, <2>1 DEF ToForceAuth, Shaped, NewSm, SameReport
  <2>3. VerdictInv(e)
    BY <2>2, ElsewhereTold DEF InTime
  <2> QED
    BY <1>2, <2>2, <2>3 DEF BackendUnlessForced
<1>8. CASE Told(e)
  <2>1. PICK d : d = BackendRun(e, in)
    OBVIOUS
  <2>2. VerdictInv(d)
    BY <1>4, <1>8, <2>1, BackendTells DEF VerdictInv, NoSecond, Pending
  <2>3. CASE e.sm.curState \in {"S_FORCE_AUTH", "S_FORCE_UNAUTH"}
    BY <1>2, <1>8, <2>3 DEF BackendUnlessForced, VerdictInv, Told
  <2>4. CASE e.sm.curState \notin {"S_FORCE_AUTH", "S_FORCE_UNAUTH"}
    BY <1>2, <2>1, <2>2, <2>4 DEF BackendUnlessForced
  <2> QED
    BY <2>3, <2>4
<1> QED
  BY <1>6, <1>7, <1>8

LEMMA RunTold ==
  ASSUME AuthPeriod > 1, NEW c, CtxOk(c), PortInv(c), VerdictInv(c),
         c.conn # "NONE", NEW in \in Inputs
  PROVE  VerdictInv(StatemachineRun(c, in))
<1>1. PICK t : t = TickedOn(c)
  OBVIOUS
<1>2. /\ CtxOk(t) /\ t.conn # "NONE" /\ PortInv(t) /\ WithEap(t)
  BY <1>1, TickPort, ContextsShaped DEF CtxOk
<1>3. InTime(t)
  BY <1>1, TickTold, ContextsShaped DEF CtxOk, Unreached
<1>4. CASE ~in.link
  <2>1. PICK d : d = LinkDown(t)
    OBVIOUS
  <2>2. /\ SameReport(t, d) /\ d.sm.initialize
        /\ d.sm.curState = t.sm.curState
        /\ d.sm.beCurState = t.sm.beCurState
        /\ d.eap.eapFail = t.eap.eapFail
        /\ d.eap.eapSuccess = t.eap.eapSuccess
    BY <1>2, <2>1
       DEF LinkDown, WithEap, Shaped, NewSm, NewEap, SameReport
  <2>3. StatemachineRun(c, in) = d
    BY <1>1, <1>4, <2>1 DEF StatemachineRun
  <2> QED
    BY <1>3, <2>2, <2>3
       DEF InTime, VerdictInv, Pending, SameReport, AtMostOne, NotBoth
<1>5. CASE in.link
  <2>1. PICK p : p = LinkUp(t)
    OBVIOUS
  <2>2. StatemachineRun(c, in) = BackendUnlessForced(DoPae(p, in), in)
    BY <1>1, <1>5, <2>1 DEF StatemachineRun
  <2>3. SameTime(t, p) /\ p.sm.portEnabled
    BY <1>2, <2>1
       DEF LinkUp, WithEap, Shaped, NewSm, SameTime, Untold, SameReport
  <2>4. CtxOk(p) /\ p.conn # "NONE"
    BY <1>2, <2>1, PortEnabledOk DEF LinkUp
  <2>5. PortInv(p) /\ InTime(p)
    BY <1>2, <1>3, <2>1, <2>3, LinkUpPort, UnmovedInv, SameTimeTold
  <2>6. CASE Forced(p)
    <3>1. BackendUnlessForced(DoPae(p, in), in) = p
      BY <2>6 DEF Forced, DoPae, BackendUnlessForced
    <3> QED
      BY <2>2, <2>5, <2>6, <3>1 DEF Forced, InTime, VerdictInv
  <2>7. CASE ~Forced(p)
    BY <2>2, <2>3, <2>4, <2>5, <2>7, MachinesTold
  <2> QED
    BY <2>6, <2>7
<1> QED
  BY <1>4, <1>5

(***************************************************************************)
(* The steps of the daemon.                                                *)
(***************************************************************************)
\* Steps that move frames, the connection or the password, but no state.
LEMMA MovesTold ==
  ASSUME NEW c, WithEap(c), NEW f
  PROVE  /\ SameTime(c, Fresh(c)) /\ SameTime(c, Ticked(Fresh(c)))
         /\ SameTime(c, [Fresh(ReleaseFrame(c)) EXCEPT !.recvframe = f])
         /\ SameTime(c, [Fresh(ReleaseFrame(c)) EXCEPT
                           !.recvframe = f, !.sm.eapolEap = TRUE])
         /\ SameTime(c, [Fresh(c) EXCEPT !.conn = "NONE", !.prof = "NONE"])
         /\ SameTime(c, [Fresh(c) EXCEPT !.eap.pwdCallback = FALSE])
         /\ SameTime(c, [Fresh(c) EXCEPT
                           !.eap.pwdCallback = FALSE,
                           !.eap.pwdFrame = NullFrame,
                           !.eap.lastId = (@ + IdSpace - 1) % IdSpace,
                           !.recvframe = c.eap.pwdFrame,
                           !.sm.eapolEap = TRUE])
<1> USE DEF WithEap, Shaped, NewSm, NewEap
<1>1. PICK a : a = Fresh(c)
  OBVIOUS
<1>2. WithEap(a) /\ a.sm = c.sm /\ a.eap = c.eap
  BY <1>1 DEF Fresh
<1>3. PICK r : r = ReleaseFrame(c)
  OBVIOUS
<1>4. /\ WithEap(r) /\ r.sm = c.sm /\ r.eap.eapSuccess = c.eap.eapSuccess
      /\ r.eap.eapFail = c.eap.eapFail
  BY <1>3 DEF ReleaseFrame
<1>5. PICK b : b = Fresh(r)
  OBVIOUS
<1>6. /\ WithEap(b) /\ b.sm = c.sm /\ b.eap.eapSuccess = c.eap.eapSuccess
      /\ b.eap.eapFail = c.eap.eapFail
  BY <1>4, <1>5 DEF Fresh
<1> USE DEF SameTime, Untold, SameReport
<1>7. SameTime(c, a)
  BY <1>2
<1>8. /\ SameTime(c, [b EXCEPT !.recvframe = f])
      /\ SameTime(c, [b EXCEPT !.recvframe = f, !.sm.eapolEap = TRUE])
  BY <1>6
<1>9. /\ SameTime(c, [a EXCEPT !.conn = "NONE", !.prof = "NONE"])
      /\ SameTime(c, [a EXCEPT !.eap.pwdCallback = FALSE])
  BY <1>2
<1>10. SameTime(c, [a EXCEPT !.eap.pwdCallback = FALSE,
                             !.eap.pwdFrame = NullFrame,
                             !.eap.lastId = (@ + IdSpace - 1) % IdSpace,
                             !.recvframe = c.eap.pwdFrame,
                             !.sm.eapolEap = TRUE])
  BY <1>2
<1>11. SameTime(c, Ticked(a))
  BY <1>2 DEF Ticked
<1> HIDE DEF WithEap, SameTime
<1> QED
  BY <1>1, <1>2, <1>3, <1>5, <1>7, <1>8, <1>9, <1>10, <1>11

\* The requests that open or close the port report nothing.
LEMMA RequestTold ==
  ASSUME CtxOk(ctx), VerdictInv(ctx),
         \/ \E conn \in Conns : ChangeConnection(conn)
         \/ RequestLogoff \/ DisconnectConnection
  PROVE  VerdictInv(ctx')
<1> DEFINE Calm(x) ==
             Shaped(x) /\ SameReport(ctx, x)
<1>1. Shaped(ctx) /\ AtMostOne(ctx)
  BY ContextsShaped DEF CtxOk, WithEap, VerdictInv
<1>2. PICK a : a = Fresh(ctx)
  OBVIOUS
<1>3. Calm(a)
  BY <1>1, <1>2 DEF Fresh, Shaped, SameReport
<1>4. ASSUME NEW x, Calm(x), NEW n, NEW p, NEW e
      PROVE  /\ Calm([x EXCEPT !.conn = n]) /\ Calm([x EXCEPT !.eap = e])
             /\ Calm([x EXCEPT !.conn = n, !.prof = p])
             /\ Calm([x EXCEPT !.conn = n, !.eap = e])
             /\ LET d == TxLogoff(x)
                IN  Calm(d) /\ d.sm.curState = x.sm.curState
             /\ LET d == ToForceAuth(x)
                IN  Calm(d) /\ d.sm.curState = "S_FORCE_AUTH"
  BY <1>4 DEF TxLogoff, Transmit, ToForceAuth, Shaped, NewSm, SameReport
<1>5. ASSUME NEW x, Calm(x)
      PROVE  LET d == ToLogoff(x)
             IN  Calm(d) /\ d.sm.curState = "LOGOFF"
  <2>1. PICK t : t = TxLogoff(x)
    OBVIOUS
  <2>2. Calm(t)
    BY <1>4, <1>5, <2>1
  <2>3. PICK e : e = EapForceInit(t.eap)
    OBVIOUS
  <2>4. PICK d : d = [t EXCEPT !.sm.logoffSent = TRUE,
                               !.sm.suppPortStatus = "UNAUTHORIZED",
                               !.sm.curState = "LOGOFF", !.eap = e]
    OBVIOUS
  <2>5. ToLogoff(x) = d
    BY <2>1, <2>2, <2>3, <2>4 DEF ToLogoff, Shaped
  <2>6. Calm(d) /\ d.sm.curState = "LOGOFF"
    BY <2>2, <2>4 DEF Shaped, NewSm, SameReport
  <2> QED
    BY <2>5, <2>6
<1>6. ASSUME NEW x, Calm(x), x.sm.curState \in {"LOGOFF", "S_FORCE_AUTH"}
      PROVE  VerdictInv(x)
  BY <1>1, <1>6, ElsewhereTold
<1>7. ASSUME NEW conn \in Conns, ChangeConnection(conn)
      PROVE  VerdictInv(ctx')
  <2>1. PICK p : p = ProfOf(conn)
    OBVIOUS
  <2>2. PICK b : b = [a EXCEPT !.conn = conn, !.prof = p]
    OBVIOUS
  <2>3. Calm(b)
    BY <1>3, <1>4, <2>2
  <2>4. PICK n : n = [b EXCEPT !.eap = ReinitEap(@)]
    OBVIOUS
  <2>5. PICK e : e = ReinitEap(b.eap)
    OBVIOUS
  <2>6. n = [b EXCEPT !.eap = e]
    BY <2>4, <2>5
  <2>7. Calm(n)
    BY <1>4, <2>3, <2>6
  <2>8. ctx' \in {ToForceAuth(b), ToForceAuth(n), ToLogoff(n)}
    BY <1>2, <1>7, <2>1, <2>2, <2>4 DEF ChangeConnection, Request
  <2> QED
    BY <1>4, <1>5, <1>6, <2>3, <2>7, <2>8
<1>8. PICK g : g = ToLogoff(a)
  OBVIOUS
<1>9. Calm(g) /\ g.sm.curState = "LOGOFF"
  BY <1>3, <1>5, <1>8
<1>10. PICK e : e = ReinitEap(g.eap)
  OBVIOUS
<1>11. CASE RequestLogoff
  <2>1. ctx' = [g EXCEPT !.conn = "NONE", !.eap = e]
    BY <1>2, <1>8, <1>9, <1>10, <1>11
       DEF RequestLogoff, Request, Shaped
  <2>2. Calm(ctx') /\ ctx'.sm.curState = "LOGOFF"
    BY <1>4, <1>9, <2>1 DEF Shaped
  <2> QED
    BY <1>6, <2>2
<1>12. CASE DisconnectConnection
  <2>1. PICK o : o = [g EXCEPT !.eap = e]
    OBVIOUS
  <2>2. Calm(o) /\ o.sm.curState = "LOGOFF"
    BY <1>4, <1>9, <2>1 DEF Shaped
  <2>3. PICK t : t = TxLogoff(TxLogoff(o))
    OBVIOUS
  <2>4. Calm(t) /\ t.sm.curState = "LOGOFF"
    BY <1>4, <2>2, <2>3
  <2>5. ctx' = [t EXCEPT !.conn = "NONE", !.prof = "NONE"]
    BY <1>2, <1>8, <1>9, <1>10, <1>12, <2>1, <2>3
       DEF DisconnectConnection, Request, Shaped
  <2>6. Calm(ctx') /\ ctx'.sm.curState = "LOGOFF"
    BY <1>4, <2>4, <2>5 DEF Shaped
  <2> QED
    BY <1>6, <2>6
<1> QED
  BY <1>7, <1>11, <1>12

LEMMA RunIfBoundTold ==
  ASSUME AuthPeriod > 1, NEW c, CtxOk(c), PortInv(c), VerdictInv(c),
         RunIfBound(c)
  PROVE  VerdictInv(ctx')
<1>1. RunInputs(c) \subseteq Inputs
  BY RunInputsOk DEF CtxOk
<1> QED
  BY <1>1, RunTold DEF RunIfBound

\* Every step keeps the invariant: one case per action.
LEMMA VerdictStepOk ==
  ASSUME AuthPeriod > 1, IInv, PortInv(ctx), VerdictInv(ctx), [Next]_vars
  PROVE  VerdictInv(ctx')
<1>1. CtxOk(ctx) /\ WithEap(ctx) /\ LinkOk(ctx)
  BY ContextsShaped DEF IInv, CtxOk, PortInv
<1>2. ASSUME SameTime(ctx, ctx') PROVE VerdictInv(ctx')
  BY <1>2, SameTimeTold
<1>3. PICK a : a = Fresh(ctx)
  OBVIOUS
<1>4. /\ CtxOk(a) /\ PortInv(a) /\ VerdictInv(a) /\ a.conn = ctx.conn
  <2>1. CtxOk(a) /\ a.conn = ctx.conn
    BY <1>1, <1>3, FreshOk
  <2>2. Unmoved(ctx, a) /\ SameTime(ctx, a)
    BY <1>1, <1>3, MovesPort, MovesTold
  <2> QED
    BY <2>1, <2>2, UnmovedInv, SameTimeTold
<1>5. CASE IgnoredFrame
  <2>1. PICK f : ctx' = [Fresh(ReleaseFrame(ctx)) EXCEPT !.recvframe = f]
    BY <1>5 DEF IgnoredFrame
  <2> QED
    BY <1>1, <1>2, <2>1, MovesTold
<1>6. ASSUME NEW f \in AirFrames, EapFrame(f) PROVE VerdictInv(ctx')
  BY <1>1, <1>2, <1>6, MovesTold DEF EapFrame
<1>7. CASE ExecuteEnd
  BY <1>1, <1>2, <1>7, MovesTold DEF ExecuteEnd
<1>8. CASE UnbindConnection
  BY <1>1, <1>2, <1>8, MovesTold DEF UnbindConnection, Request
<1>9. CASE SetPassword
  <2>1. CASE ctx' = [Fresh(ctx) EXCEPT !.eap.pwdCallback = FALSE]
    BY <1>1, <1>2, <2>1, MovesTold
  <2>2. CASE ctx' = [Fresh(ctx) EXCEPT
                        !.eap.pwdCallback = FALSE,
                        !.eap.pwdFrame = NullFrame,
                        !.eap.lastId = (@ + IdSpace - 1) % IdSpace,
                        !.recvframe = ctx.eap.pwdFrame,
                        !.sm.eapolEap = TRUE]
    BY <1>1, <1>2, <2>2, MovesTold
  <2> QED
    BY <1>9, <2>1, <2>2 DEF SetPassword
<1>10. CASE (\E conn \in Conns : ChangeConnection(conn)) \/ RequestLogoff
            \/ DisconnectConnection
  BY <1>1, <1>10, RequestTold
<1>11. CASE ExecuteRun
  <2>1. PICK in \in RunInputs(ctx) : ctx' = StatemachineRun(a, in)
    BY <1>3, <1>11 DEF ExecuteRun
  <2>2. in \in Inputs /\ a.conn # "NONE"
    BY <1>1, <1>4, <1>11, <2>1, RunInputsOk DEF ExecuteRun, CtxOk
  <2> QED
    BY <1>4, <2>1, <2>2, RunTold
<1>12. CASE Tick
  <2>1. PICK b : b = Ticked(a)
    OBVIOUS
  <2>2. CtxOk(b) /\ Unmoved(ctx, b) /\ SameTime(ctx, b) /\ RunIfBound(b)
    BY <1>1, <1>3, <1>4, <1>12, <2>1, TickedOk, MovesPort, MovesTold
       DEF Tick
  <2> QED
    BY <2>2, UnmovedInv, SameTimeTold, RunIfBoundTold
<1>13. CASE Poll
  BY <1>3, <1>4, <1>13, RunIfBoundTold DEF Poll
<1>14. CASE UNCHANGED vars
  BY <1>14 DEF vars
<1> QED
  BY <1>5, <1>6, <1>7, <1>8, <1>9, <1>10, <1>11, <1>12, <1>13, <1>14
     DEF Next

\* backend_sm_do_receive (backend_sm.c:657) tests failure, timeout, success
\* and a new frame one after the other, without returning in between; still
\* a conversation gets one verdict in every reachable state, for all methods,
\* connections, frames, requests and links, when the authenticator is given
\* more than one second to answer.
THEOREM OneVerdictTheorem == AuthPeriod > 1 => (Spec => []OneVerdict)
<1> SUFFICES ASSUME AuthPeriod > 1 PROVE Spec => []OneVerdict
  OBVIOUS
<1>1. Init => VerdictInv(ctx)
  <2> SUFFICES ASSUME Init PROVE VerdictInv(ctx)
    OBVIOUS
  <2>1. PICK link : ctx.sm = NewSm(link)
    BY DEF Init
  <2> QED
    BY <2>1 DEF VerdictInv, AtMostOne, NewSm
<1>2. IInv /\ PortInv(ctx) /\ VerdictInv(ctx) /\ [Next]_vars
        => VerdictInv(ctx)'
  BY VerdictStepOk
<1>3. VerdictInv(ctx) => OneVerdict
  BY DEF VerdictInv, AtMostOne, OneVerdict
<1> QED
  BY <1>1, <1>2, <1>3, Inductive, PortInductive, PTL DEF Spec

(***************************************************************************)
(* A request that was answered gets the stored response again.             *)
(***************************************************************************)
\* eap_sm_run: a frame that repeats the identifier of the last answer.
Repeated(e) ==
    /\ e.portEnabled /\ ~e.eapRestart /\ e.eapReq
    /\ e.reqData.code = "REQUEST" /\ e.reqData.id = e.lastId
    /\ e.reqData.type \notin {"IDENTITY", "TNC"}
    /\ e.lastRespData # NullResp

LEMMA RunRetransmits ==
  ASSUME NEW e, DOMAIN e = DOMAIN NewEap, Repeated(e), NEW m, NEW ub
  PROVE  LET f == EapRun(e, m, ub)
         IN  Progress(f) = Progress(e) /\ f.respData = e.lastRespData
<1> DEFINE Kept(x) == /\ DOMAIN x = DOMAIN NewEap
                      /\ Progress(x) = Progress(e)
                      /\ x.respData = e.lastRespData
<1>1. PICK p : p = e.reqData
  OBVIOUS
<1>2. /\ p.code = "REQUEST" /\ p.id = e.lastId /\ p \notin Garbage
      /\ p.type # "IDENTITY" /\ p.type # "TNC"
  BY <1>1 DEF Repeated, Garbage, FreedFrame, OtherFrame
<1>3. PICK w : w = (e.wild \/ e.reqData \in Garbage
                           \/ e.decision = "UNSET")
  OBVIOUS
<1>4. PICK f : f = [e EXCEPT !.wild = w]
  OBVIOUS
<1>5. /\ DOMAIN f = DOMAIN NewEap /\ Progress(f) = Progress(e)
      /\ f.lastId = e.lastId /\ f.lastRespData = e.lastRespData
  BY <1>4 DEF NewEap, Progress
<1>6. EapRun(e, m, ub) = EapDispatch(f, p, m)
  BY <1>1, <1>2, <1>3, <1>4
     DEF EapRun, EapIdle, EapReceived, SwitchesToTnc, Repeated
<1>7. EapDispatch(f, p, m) = EapRetransmit(f, p)
  BY <1>2, <1>5
     DEF EapDispatch, MeansSuccess, MeansFailure, IsFresh, EapRequest
<1>8. PICK g : g = [f EXCEPT !.respData = f.lastRespData, !.eapResp = TRUE]
  OBVIOUS
<1>9. Kept(g)
  BY <1>5, <1>8 DEF NewEap, Progress
<1>10. EapRetransmit(f, p) = EapSendResponse(g, p.id)
  BY <1>5, <1>8 DEF EapRetransmit, Repeated, NewEap
<1>11. PICK h : h = [g EXCEPT !.lastId = p.id, !.lastRespData = g.respData,
                              !.eapReq = FALSE, !.eapResp = TRUE]
  OBVIOUS
<1>12. Kept(h)
  BY <1>2, <1>9, <1>11 DEF NewEap, Progress
<1>13. EapSendResponse(g, p.id) = EapIdleQuiet(h)
  BY <1>9, <1>11 DEF EapSendResponse, Repeated, NewEap
<1>14. Kept(EapIdleQuiet(h))
  BY <1>12 DEF EapIdleQuiet, EapFailure, EapSuccess, NewEap, Progress
<1> QED
  BY <1>6, <1>7, <1>10, <1>13, <1>14

\* What has to be true of a context in which such a frame is waiting.
Repeats(c) ==
    /\ c.recvframe.code = "REQUEST"
    /\ c.recvframe.type \notin {"IDENTITY", "TNC"}
    /\ c.recvframe.id = c.eap.lastId
    /\ c.eap.lastRespData # NullResp

\* The stored response is taken; what was reached stays.
Retransmits(c, d) ==
    /\ Progress(d.eap) = Progress(c.eap)
    /\ d.eap.respData = c.eap.lastRespData

LEMMA RequestRetransmits ==
  ASSUME NEW c, WithEap(c), Repeats(c), c.sm.portEnabled, ~c.sm.eapRestart,
         NEW in
  PROVE  Retransmits(c, BeRequest(c, in))
<1> USE DEF WithEap, Shaped, NewSm, NewEap
<1>1. PICK r : r = [c EXCEPT !.sm.authWhile = 0, !.sm.eapReq = TRUE,
                             !.sm.beCurState = "REQUEST"]
  OBVIOUS
<1>2. PICK t : t = [r EXCEPT !.eap.reqData = c.recvframe]
  OBVIOUS
<1>3. /\ WithEap(r) /\ r.eap = c.eap /\ r.recvframe = c.recvframe
      /\ r.sm.eapReq /\ r.sm.portEnabled /\ ~r.sm.eapRestart
  BY <1>1
<1>4. /\ Shaped(t) /\ t.sm = r.sm
      /\ t.eap = [c.eap EXCEPT !.reqData = c.recvframe]
  BY <1>2, <1>3
<1>5. TakeFrame(r) = t
  BY <1>2, <1>3 DEF TakeFrame, Repeats, NullFrame
<1>6. PICK ms : ms = IF t.prof # "NONE" THEN ProfileOf[t.prof]
                                        ELSE t.eap.curMethods
  OBVIOUS
<1>7. PICK e : e = [t.eap EXCEPT !.eapReq = t.sm.eapReq,
                                 !.portEnabled = t.sm.portEnabled,
                                 !.eapRestart = t.sm.eapRestart,
                                 !.curMethods = ms]
  OBVIOUS
<1>8. PICK s : s = SyncLowerToPeer(t)
  OBVIOUS
<1>9. s = [t EXCEPT !.eap = e]
  BY <1>4, <1>6, <1>7, <1>8 DEF SyncLowerToPeer
<1>10. /\ DOMAIN e = DOMAIN NewEap /\ Repeated(e)
       /\ Progress(e) = Progress(c.eap)
       /\ e.lastRespData = c.eap.lastRespData
  BY <1>3, <1>4, <1>7 DEF Repeated, Repeats, Progress
<1>11. PICK f : f = EapRun(e, in.m, in.ub)
  OBVIOUS
<1>12. Progress(f) = Progress(e) /\ f.respData = e.lastRespData
  BY <1>10, <1>11, RunRetransmits
<1>13. s.eap = e /\ Shaped(s)
  BY <1>4, <1>9
<1>14. BeRequest(c, in) = SyncPeerToLower(s, f)
  BY <1>1, <1>5, <1>8, <1>11, <1>13 DEF BeRequest, GetSuppRsp, RunEap
<1>15. SyncPeerToLower(s, f).eap = f
  BY <1>13 DEF SyncPeerToLower
<1> QED
  BY <1>10, <1>12, <1>14, <1>15 DEF Retransmits

\* An aborted backend asks for nothing.
LEMMA AbortAsksNothing ==
  ASSUME NEW c, WithEap(c), ~c.sm.eapRestart, NEW in,
         c.sm.initialize \/ c.sm.suppAbort
  PROVE  BackendRun(c, in).sm.beCurState = "IDLE"
<1>1. PICK d : d = BeInitialize(c)
  OBVIOUS
<1>2. d.sm.beCurState = "IDLE" /\ ~d.sm.suppStart
  BY <1>1 DEF BeInitialize, BeIdle, AbortSupp, WithEap, Shaped, NewSm
<1>3. BackendRun(c, in) = BeDoIdle(d, in)
  BY <1>1, <1>2, GlobalsWithoutRestart DEF BackendRun, BeDo, WithEap
<1> QED
  BY <1>2, <1>3, BeDoIdleQuiet

\* RECEIVE: a backend that asks the EAP machine has the frame and the
\* machine as they were; without a frame it does not ask.
LEMMA ReceiveAsks ==
  ASSUME NEW c, WithEap(c), ~c.sm.eapRestart, c.sm.portEnabled, NEW in,
         c.sm.beCurState = "RECEIVE",
         BackendRun(c, in).sm.beCurState = "REQUEST"
  PROVE  c.sm.eapolEap /\ (Repeats(c) => Retransmits(c, BackendRun(c, in)))
<1>1. ~(c.sm.initialize \/ c.sm.suppAbort)
  BY AbortAsksNothing
<1>2. BackendRun(c, in) = BeDoReceive(c, in)
  BY <1>1, GlobalsWithoutRestart DEF BackendRun, BeDo, WithEap
<1> DEFINE S(d) == /\ WithEap(d) /\ d.eap = c.eap
                   /\ d.recvframe = c.recvframe
                   /\ d.sm.eapolEap = c.sm.eapolEap
                   /\ d.sm.portEnabled /\ ~d.sm.eapRestart
                   /\ d.sm.beCurState # "REQUEST"
<1>3. ASSUME NEW d, S(d)
      PROVE  S(BeFail(d)) /\ S(BeTimeout(d)) /\ S(BeSuccess(d))
  BY <1>3 DEF BeFail, BeTimeout, BeSuccess, BeIdle, WithEap, Shaped, NewSm
<1>4. S(c)
  OBVIOUS
<1> HIDE DEF S
<1>5. PICK x : x = Succeeded(TimedOut(Failed(c)))
  OBVIOUS
<1>6. S(x)
  <2>1. ASSUME NEW d, S(d)
        PROVE  S(Failed(d)) /\ S(TimedOut(d)) /\ S(Succeeded(d))
    BY <1>3, <2>1 DEF Failed, TimedOut, Succeeded
  <2> QED
    BY <1>4, <1>5, <2>1
<1>7. BackendRun(c, in) = Heard(x, in)
  BY <1>2, <1>5 DEF BeDoReceive
<1>8. x.sm.eapolEap
  BY <1>6, <1>7 DEF Heard, S
<1>9. BackendRun(c, in) = BeRequest(x, in)
  BY <1>7, <1>8 DEF Heard
<1>10. ASSUME Repeats(c) PROVE Retransmits(c, BackendRun(c, in))
  <2>1. Repeats(x)
    BY <1>6, <1>10 DEF Repeats, S
  <2>2. Retransmits(x, BeRequest(x, in))
    BY <1>6, <2>1, RequestRetransmits DEF S
  <2> QED
    BY <1>6, <1>9, <2>2 DEF S, Retransmits
<1> QED
  BY <1>6, <1>8, <1>10 DEF S

\* A backend that waits was not told that it waited too long: the state in
\* which it waits is left with the verdict.
Untimed(c) ==
    c.sm.curState = "AUTHENTICATING" /\ c.sm.beCurState = "RECEIVE" =>
        ~c.sm.suppTimeout

LEMMA BackendUntimed ==
  ASSUME NEW c, WithEap(c), ~c.sm.eapRestart, Ready(c), NEW in
  PROVE  Untimed(BackendRun(c, in))
<1> DEFINE D == BackendRun(c, in)
           Done(d) == WithEap(d) /\ d.sm.beCurState = "IDLE"
           Calm(d) == WithEap(d) /\ ~d.sm.suppTimeout
<1>1. CASE c.sm.initialize \/ c.sm.suppAbort
  BY <1>1, AbortAsksNothing DEF Untimed
<1>2. CASE ~(c.sm.initialize \/ c.sm.suppAbort)
  <2>1. BeGlobals(c, in) = c
    BY <1>2, GlobalsWithoutRestart DEF WithEap
  <2>2. ASSUME NEW d, WithEap(d)
        PROVE  Done(BeFail(d)) /\ Done(BeTimeout(d)) /\ Done(BeSuccess(d))
    BY <2>2, OpsTell
  <2>3. ASSUME NEW d, Shaped(d)
        PROVE  BeSuccess(d).sm.beCurState = "IDLE"
    BY <2>3 DEF BeSuccess, BeIdle, Shaped, NewSm
  <2>4. ASSUME NEW d, WithEap(d)
        PROVE  LET r == BeRequest(d, in)
               IN  Shaped(r) /\ r.sm.beCurState = "REQUEST"
    BY <2>4, RequestVerdict
  <2>5. CASE c.sm.beCurState = "IDLE"
    <3>1. PICK x : x = FailedIfAsked(c)
      OBVIOUS
    <3>2. Done(x)
      BY <2>2, <2>5, <3>1 DEF FailedIfAsked, Failed
    <3>3. PICK y : y = HeardIfAsked(x, in)
      OBVIOUS
    <3>4. Shaped(y) /\ y.sm.beCurState \in {"IDLE", "REQUEST"}
      BY <2>4, <3>2, <3>3 DEF HeardIfAsked, Heard, WithEap
    <3>5. D = SucceededIfAsked(y)
      BY <2>1, <2>5, <3>1, <3>3 DEF BackendRun, BeDo, BeDoIdle
    <3>6. D.sm.beCurState \in {"IDLE", "REQUEST"}
      BY <2>3, <3>4, <3>5 DEF SucceededIfAsked, Succeeded
    <3> QED
      BY <3>6 DEF Untimed
  <2>6. CASE c.sm.beCurState = "REQUEST"
    <3>1. Calm(c)
      BY <1>2, <2>6 DEF Ready, BackendQuiet
    <3>2. ASSUME NEW d, Calm(d)
          PROVE  /\ Calm(BeFail(d)) /\ Calm(BeSuccess(d))
                 /\ Calm(BeReceive(d)) /\ Calm(BeResponse(d))
      BY <3>2, OpsTell, OpsWait
    <3> HIDE DEF Calm
    <3>3. ASSUME NEW d, Calm(d)
          PROVE  /\ Calm(Failed(d)) /\ Calm(Succeeded(d))
                 /\ Calm(Silent(d)) /\ Calm(Answered(d))
      BY <3>2, <3>3 DEF Failed, Succeeded, Silent, Answered
    <3>4. D = BeDoRequest(c)
      BY <2>1, <2>6 DEF BackendRun, BeDo
    <3>5. Calm(D)
      BY <3>1, <3>3, <3>4 DEF BeDoRequest
    <3> QED
      BY <3>5 DEF Calm, Untimed
  <2>7. CASE c.sm.beCurState = "RECEIVE"
    <3>1. D = BeDoReceive(c, in)
      BY <2>1, <2>7 DEF BackendRun, BeDo
    <3>2. Calm(c) \/ c.eap.eapFail
      BY <1>2, <2>7 DEF Ready, BackendQuiet
    <3>3. PICK x : x = Failed(c)
      OBVIOUS
    <3>4. Done(x) \/ (x = c /\ Calm(c))
      <4>1. CASE c.eap.eapFail
        BY <2>2, <3>3, <4>1 DEF Failed
      <4>2. CASE ~c.eap.eapFail
        BY <3>2, <3>3, <4>2 DEF Failed
      <4> QED
        BY <4>1, <4>2
    <3>5. PICK y : y = Succeeded(TimedOut(x))
      OBVIOUS
    <3>6. Done(y) \/ (y = c /\ Calm(c))
      BY <2>2, <3>4, <3>5 DEF TimedOut, Succeeded
    <3>7. D = Heard(y, in)
      BY <3>1, <3>3, <3>5 DEF BeDoReceive
    <3> QED
      BY <2>4, <3>6, <3>7 DEF Heard, Untimed
  <2>8. CASE c.sm.beCurState \notin {"IDLE", "REQUEST", "RECEIVE"}
    BY <2>1, <2>8 DEF BackendRun, BeDo, Untimed
  <2> QED
    BY <2>5, <2>6, <2>7, <2>8
<1> QED
  BY <1>1, <1>2

(***************************************************************************)
(* One run of both machines.                                               *)
(***************************************************************************)
\* The backend asked, in this run, about a frame it waited for.
Asked(c, d) ==
    /\ c.sm.curState = "AUTHENTICATING" /\ c.sm.beCurState = "RECEIVE"
    /\ d.sm.beCurState = "REQUEST" /\ Repeats(c)

\* What a step may do to such a frame, and to the timeout.
RepeatStep(c, d) == Untimed(d) /\ (Asked(c, d) => Retransmits(c, d))

\* The machines run on a port that is up and not forced.
LEMMA MachinesRepeat ==
  ASSUME NEW c, CtxOk(c), PortInv(c), Untimed(c), c.conn # "NONE",
         c.sm.portEnabled, ~Forced(c), NEW in \in Inputs
  PROVE  RepeatStep(c, BackendUnlessForced(DoPae(c, in), in))
<1>1. Begun(c)
  BY DEF Begun, Base, Enabled, CtxOk, Unreached, UnsetIsUnused, Forced
<1>2. PICK e : e = DoPae(c, in)
  OBVIOUS
<1>3. Entered(e)
  BY <1>1, <1>2, DoPaeOk
<1>4. /\ WithEap(e) /\ ~e.sm.eapRestart /\ WithEap(c)
      /\ e.sm.portEnabled /\ e.sm.curState # "S_FORCE_UNAUTH"
  BY <1>3, ContextsShaped DEF Entered, Base, Enabled, CtxOk
<1>5. c.sm.curState \in PaeStateNames \ {"RESTART", "S_FORCE_UNAUTH"}
  BY AllowedMethods DEF CtxOk, Unreached, SmStates
<1>6. Onward(c, e) \/ e = ToForceAuth(c)
  BY <1>2, <1>3, <1>5, ContextsShaped, PaeDoes
     DEF CtxOk, PortInv, Unreached
<1>7. CASE e = ToForceAuth(c)
  <2>1. /\ e.sm.curState = "S_FORCE_AUTH"
        /\ e.sm.beCurState = c.sm.beCurState
    BY <1>4, <1>7 DEF ToForceAuth, WithEap, Shaped, NewSm
  <2>2. BackendUnlessForced(DoPae(c, in), in) = e
    BY <1>2, <2>1 DEF BackendUnlessForced
  <2> QED
    BY <2>1, <2>2 DEF RepeatStep, Untimed, Asked
<1>8. CASE Onward(c, e)
  <2>1. PICK d : d = BackendRun(e, in)
    OBVIOUS
  <2>2. BackendUnlessForced(DoPae(c, in), in) = d
    BY <1>2, <1>4, <1>8, <2>1 DEF BackendUnlessForced, Forced, Onward
  <2>3. Untimed(d)
    BY <1>4, <1>8, <2>1, BackendUntimed DEF Onward
  <2>4. ASSUME Asked(c, d) PROVE Retransmits(c, d)
    <3>1. ~c.sm.suppSuccess /\ ~c.sm.suppTimeout
      BY <2>4 DEF Asked, CtxOk, SuccessHolds, BackendQuiet, Untimed
    <3>2. CASE c.sm.suppFail
      <4>1. e = ToHeld(c)
        BY <1>2, <2>4, <3>1, <3>2 DEF DoPae, DoAuthenticating, Asked
      <4>2. ~e.sm.eapolEap /\ e.sm.beCurState = "RECEIVE"
        BY <1>4, <2>4, <4>1 DEF ToHeld, Asked, WithEap, Shaped, NewSm
      <4> QED
        BY <1>4, <2>1, <2>4, <4>2, ReceiveAsks DEF Asked
    <3>3. CASE ~c.sm.suppFail
      <4>1. e = c
        BY <1>2, <2>4, <3>1, <3>3 DEF DoPae, DoAuthenticating, Asked
      <4> QED
        BY <1>4, <2>1, <2>4, <4>1, ReceiveAsks DEF Asked
    <3> QED
      BY <3>2, <3>3
  <2> QED
    BY <2>2, <2>3, <2>4 DEF RepeatStep
<1> QED
  BY <1>6, <1>7, <1>8

\* A second touches neither the frame nor the state of the backend.
LEMMA TickKeeps ==
  ASSUME NEW c, Shaped(c), ~c.sm.userLogoff,
         c.sm.portControl # "FORCE_UNAUTHORIZED"
  PROVE  LET t == TickedOn(c)
         IN  /\ t.sm.beCurState = c.sm.beCurState
             /\ t.recvframe = c.recvframe
<1> USE DEF Shaped, NewSm
<1> DEFINE S(d) == /\ Shaped(d) /\ d.sm.beCurState = c.sm.beCurState
                   /\ d.recvframe = c.recvframe /\ ~d.sm.userLogoff
                   /\ d.sm.portControl # "FORCE_UNAUTHORIZED"
<1>1. S(TimerTick(c))
  BY DEF TimerTick
<1>2. ASSUME NEW d, S(d) PROVE S(ToForceAuth(d)) /\ S(ToDisconnected(d))
  BY <1>2 DEF ToForceAuth, ToDisconnected
<1>3. ASSUME NEW d, S(d)
      PROVE  UserLogsOff(d) = d /\ ForcedShut(d) = d
  BY <1>3 DEF UserLogsOff, ForcedShut
<1>4. S(c)
  OBVIOUS
<1> HIDE DEF S
<1>5. ASSUME NEW d, S(d) PROVE S(GlobalTransition(d))
  BY <1>2, <1>3, <1>5 DEF GlobalTransition, ForcedOpen, BackToAuto
<1>6. S(TickedOn(c))
  BY <1>1, <1>4, <1>5 DEF TickedOn
<1> QED
  BY <1>6 DEF S

LEMMA RunRepeats ==
  ASSUME NEW c, CtxOk(c), PortInv(c), Untimed(c), c.conn # "NONE",
         NEW in \in Inputs
  PROVE  RepeatStep(c, StatemachineRun(c, in))
<1>1. PICK t : t = TickedOn(c)
  OBVIOUS
<1>2. /\ CtxOk(t) /\ t.conn # "NONE" /\ t.eap = c.eap /\ PortInv(t)
      /\ TickStep(c, t) /\ WithEap(t) /\ WithEap(c)
  BY <1>1, TickPort, ContextsShaped DEF CtxOk
<1>3. t.sm.beCurState = c.sm.beCurState /\ t.recvframe = c.recvframe
  BY <1>1, <1>2, TickKeeps DEF WithEap, CtxOk, Unreached
<1>4. Untimed(t) /\ (Unmoved(c, t) => t.sm.curState = c.sm.curState)
  BY <1>2 DEF TickStep, Untimed, Unmoved, Forced
<1>5. CASE ~in.link
  <2>1. PICK d : d = LinkDown(t)
    OBVIOUS
  <2>2. Unmoved(t, d)
    BY <1>2, <2>1, LinkDownPort
  <2>3. StatemachineRun(c, in) = d
    BY <1>1, <1>5, <2>1 DEF StatemachineRun
  <2> QED
    BY <1>3, <1>4, <2>2, <2>3 DEF Unmoved, RepeatStep, Untimed, Asked
<1>6. CASE in.link
  <2>1. PICK p : p = LinkUp(t)
    OBVIOUS
  <2>2. StatemachineRun(c, in) = BackendUnlessForced(DoPae(p, in), in)
    BY <1>1, <1>6, <2>1 DEF StatemachineRun
  <2>3. /\ WithEap(p) /\ p.eap = c.eap /\ Unmoved(t, p)
        /\ p.sm.portEnabled /\ p.sm.initialize = t.sm.initialize
        /\ p.recvframe = c.recvframe
    <3>1. p.recvframe = t.recvframe
      BY <1>2, <2>1 DEF LinkUp, WithEap, Shaped
    <3> QED
      BY <1>2, <1>3, <2>1, <3>1, LinkUpPort
  <2>4. CtxOk(p) /\ p.conn # "NONE"
    BY <1>2, <2>1, PortEnabledOk DEF LinkUp
  <2>5. PortInv(p) /\ Untimed(p) /\ p.sm.beCurState = c.sm.beCurState
    BY <1>2, <1>3, <1>4, <2>3, UnmovedInv DEF Unmoved, Untimed
  <2>6. CASE Forced(p)
    <3>1. BackendUnlessForced(DoPae(p, in), in) = p
      BY <2>6 DEF Forced, DoPae, BackendUnlessForced
    <3> QED
      BY <2>2, <2>5, <3>1 DEF RepeatStep, Asked
  <2>7. CASE ~Forced(p) /\ Unmoved(c, t)
    <3>1. PICK d : d = BackendUnlessForced(DoPae(p, in), in)
      OBVIOUS
    <3>2. RepeatStep(p, d)
      BY <2>3, <2>4, <2>5, <2>7, <3>1, MachinesRepeat
    <3>3. p.sm.curState = c.sm.curState
      BY <1>4, <2>3, <2>7 DEF Unmoved
    <3>4. RepeatStep(c, d)
      BY <2>3, <2>5, <3>2, <3>3
         DEF RepeatStep, Asked, Repeats, Retransmits
    <3> QED
      BY <2>2, <3>1, <3>4
  <2>8. CASE /\ t.sm.initialize /\ t.sm.suppAbort
             /\ t.sm.curState = "DISCONNECTED"
    <3>1. /\ p.sm.curState = "DISCONNECTED" /\ p.sm.initialize
          /\ p.sm.suppAbort
      BY <2>3, <2>8 DEF Unmoved
    <3>2. DoPae(p, in) = p
      BY <3>1 DEF DoPae, DoDisconnected
    <3>3. PICK d : d = BackendRun(p, in)
      OBVIOUS
    <3>4. StatemachineRun(c, in) = d
      BY <2>2, <3>1, <3>2, <3>3 DEF BackendUnlessForced
    <3>5. d.sm.beCurState = "IDLE"
      BY <2>3, <2>4, <3>1, <3>3, AbortAsksNothing DEF CtxOk, Unreached
    <3> QED
      BY <3>4, <3>5 DEF RepeatStep, Untimed, Asked
  <2>9. Forced(t) => Forced(p)
    BY <2>3 DEF Unmoved, Forced
  <2> QED
    BY <1>2, <2>6, <2>7, <2>8, <2>9 DEF TickStep
<1> QED
  BY <1>5, <1>6

(***************************************************************************)
(* The steps of the daemon.                                                *)
(***************************************************************************)
LEMMA SameTimeRepeats ==
  ASSUME NEW c, NEW d, Untimed(c), SameTime(c, d)
  PROVE  RepeatStep(c, d)
  BY DEF RepeatStep, Untimed, Asked, SameTime, Untold, SameReport

\* The requests that open or close the port leave the backend where it is.
LEMMA RequestRepeats ==
  ASSUME CtxOk(ctx),
         \/ \E conn \in Conns : ChangeConnection(conn)
         \/ RequestLogoff \/ DisconnectConnection
  PROVE  RepeatStep(ctx, ctx')
<1> DEFINE Calm(x) ==
             Shaped(x) /\ x.sm.beCurState = ctx.sm.beCurState
<1>1. Shaped(ctx)
  BY ContextsShaped DEF CtxOk, WithEap
<1>2. PICK a : a = Fresh(ctx)
  OBVIOUS
<1>3. Calm(a)
  BY <1>1, <1>2 DEF Fresh, Shaped
<1>4. ASSUME NEW x, Calm(x), NEW n, NEW p, NEW e
      PROVE  /\ Calm([x EXCEPT !.conn = n]) /\ Calm([x EXCEPT !.eap = e])
             /\ Calm([x EXCEPT !.conn = n, !.prof = p])
             /\ Calm([x EXCEPT !.conn = n, !.eap = e])
             /\ LET d == TxLogoff(x)
                IN  Calm(d) /\ d.sm.curState = x.sm.curState
             /\ LET d == ToForceAuth(x)
                IN  Calm(d) /\ d.sm.curState = "S_FORCE_AUTH"
  BY <1>4 DEF TxLogoff, Transmit, ToForceAuth, Shaped, NewSm
<1>5. ASSUME NEW x, Calm(x)
      PROVE  LET d == ToLogoff(x)
             IN  Calm(d) /\ d.sm.curState = "LOGOFF"
  <2>1. PICK t : t = TxLogoff(x)
    OBVIOUS
  <2>2. Calm(t)
    BY <1>4, <1>5, <2>1
  <2>3. PICK e : e = EapForceInit(t.eap)
    OBVIOUS
  <2>4. PICK d : d = [t EXCEPT !.sm.logoffSent = TRUE,
                               !.sm.suppPortStatus = "UNAUTHORIZED",
                               !.sm.curState = "LOGOFF", !.eap = e]
    OBVIOUS
  <2>5. ToLogoff(x) = d
    BY <2>1, <2>2, <2>3, <2>4 DEF ToLogoff, Shaped
  <2>6. Calm(d) /\ d.sm.curState = "LOGOFF"
    BY <2>2, <2>4 DEF Shaped, NewSm
  <2> QED
    BY <2>5, <2>6
<1>6. ASSUME NEW x, Calm(x), x.sm.curState \in {"LOGOFF", "S_FORCE_AUTH"}
      PROVE  RepeatStep(ctx, x)
  BY <1>6 DEF RepeatStep, Untimed, Asked
<1>7. ASSUME NEW conn \in Conns, ChangeConnection(conn)
      PROVE  RepeatStep(ctx, ctx')
  <2> HIDE DEF Calm
  <2>1. PICK p : p = ProfOf(conn)
    OBVIOUS
  <2>2. PICK b : b = [a EXCEPT !.conn = conn, !.prof = p]
    OBVIOUS
  <2>3. Calm(b)
    BY <1>3, <1>4, <2>2
  <2>4. PICK n : n = [b EXCEPT !.eap = ReinitEap(@)]
    OBVIOUS
  <2>5. PICK e : e = ReinitEap(b.eap)
    OBVIOUS
  <2>6. n = [b EXCEPT !.eap = e]
    BY <2>4, <2>5
  <2>7. Calm(n)
    BY <1>4, <2>3, <2>6
  <2>8. ctx' \in {ToForceAuth(b), ToForceAuth(n), ToLogoff(n)}
    BY <1>2, <1>7, <2>1, <2>2, <2>4 DEF ChangeConnection, Request
  <2> QED
    BY <1>4, <1>5, <1>6, <2>3, <2>7, <2>8
<1>8. PICK g : g = ToLogoff(a)
  OBVIOUS
<1>9. Calm(g) /\ g.sm.curState = "LOGOFF"
  BY <1>3, <1>5, <1>8
<1>10. PICK e : e = ReinitEap(g.eap)
  OBVIOUS
<1>11. CASE RequestLogoff
  <2>1. ctx' = [g EXCEPT !.conn = "NONE", !.eap = e]
    BY <1>2, <1>8, <1>9, <1>10, <1>11
       DEF RequestLogoff, Request, Shaped
  <2>2. Calm(ctx') /\ ctx'.sm.curState = "LOGOFF"
    BY <1>4, <1>9, <2>1 DEF Shaped
  <2> QED
    BY <1>6, <2>2
<1>12. CASE DisconnectConnection
  <2>1. PICK o : o = [g EXCEPT !.eap = e]
    OBVIOUS
  <2>2. Calm(o) /\ o.sm.curState = "LOGOFF"
    BY <1>4, <1>9, <2>1 DEF Shaped
  <2>3. PICK t : t = TxLogoff(TxLogoff(o))
    OBVIOUS
  <2>4. Calm(t) /\ t.sm.curState = "LOGOFF"
    BY <1>4, <2>2, <2>3
  <2>5. ctx' = [t EXCEPT !.conn = "NONE", !.prof = "NONE"]
    BY <1>2, <1>8, <1>9, <1>10, <1>12, <2>1, <2>3
       DEF DisconnectConnection, Request, Shaped
  <2>6. Calm(ctx') /\ ctx'.sm.curState = "LOGOFF"
    BY <1>4, <2>4, <2>5 DEF Shaped
  <2> QED
    BY <1>6, <2>6
<1> QED
  BY <1>7, <1>11, <1>12

LEMMA RunIfBoundRepeats ==
  ASSUME NEW c, CtxOk(c), PortInv(c), Untimed(c), RunIfBound(c)
  PROVE  RepeatStep(c, ctx')
<1>1. RunInputs(c) \subseteq Inputs
  BY RunInputsOk DEF CtxOk
<1>2. c.conn = "NONE" => RepeatStep(c, ctx')
  BY DEF RunIfBound, RepeatStep, Asked, Untimed
<1> QED
  BY <1>1, <1>2, RunRepeats DEF RunIfBound

\* One case per action.
LEMMA RepeatStepOk ==
  ASSUME IInv, PortInv(ctx), Untimed(ctx), [Next]_vars
  PROVE  RepeatStep(ctx, ctx')
<1>1. CtxOk(ctx) /\ WithEap(ctx) /\ LinkOk(ctx)
  BY ContextsShaped DEF IInv, CtxOk, PortInv
<1>2. ASSUME SameTime(ctx, ctx') PROVE RepeatStep(ctx, ctx')
  BY <1>2, SameTimeRepeats
<1> DEFINE Same(x) == /\ CtxOk(x) /\ PortInv(x) /\ Untimed(x)
                      /\ x.eap = ctx.eap /\ x.recvframe = ctx.recvframe
                      /\ x.sm.curState = ctx.sm.curState
                      /\ x.sm.beCurState = ctx.sm.beCurState
<1>3. ASSUME NEW x, Same(x), NEW d, RepeatStep(x, d)
      PROVE  RepeatStep(ctx, d)
  <2>1. Repeats(ctx) => Repeats(x)
    BY <1>3 DEF Repeats
  <2>2. Retransmits(x, d) => Retransmits(ctx, d)
    BY <1>3 DEF Retransmits, Progress
  <2> QED
    BY <1>3, <2>1, <2>2 DEF RepeatStep, Asked
<1>4. PICK a : a = Fresh(ctx)
  OBVIOUS
<1>5. Same(a) /\ a.conn = ctx.conn
  <2>1. CtxOk(a) /\ a.conn = ctx.conn
    BY <1>1, <1>4, FreshOk
  <2>2. PortInv(a)
    BY <1>1, <1>4, MovesPort, UnmovedInv
  <2>3. a.sm = ctx.sm /\ a.eap = ctx.eap /\ a.recvframe = ctx.recvframe
    BY <1>1, <1>4 DEF Fresh, WithEap, Shaped
  <2> QED
    BY <2>1, <2>2, <2>3 DEF Untimed
<1>6. PICK b : b = Ticked(a)
  OBVIOUS
<1>7. Same(b)
  <2>1. CtxOk(b)
    BY <1>5, <1>6, TickedOk
  <2>2. PortInv(b)
    BY <1>1, <1>4, <1>6, MovesPort, UnmovedInv
  <2>3. /\ b.eap = a.eap /\ b.recvframe = a.recvframe
        /\ b.sm.curState = a.sm.curState
        /\ b.sm.beCurState = a.sm.beCurState
        /\ b.sm.suppTimeout = a.sm.suppTimeout
    BY <1>5, <1>6, ContextsShaped
       DEF Ticked, CtxOk, WithEap, Shaped, NewSm
  <2> QED
    BY <1>5, <2>1, <2>2, <2>3 DEF Untimed
<1> HIDE DEF Same
<1>8. CASE IgnoredFrame
  <2>1. PICK f : ctx' = [Fresh(ReleaseFrame(ctx)) EXCEPT !.recvframe = f]
    BY <1>8 DEF IgnoredFrame
  <2> QED
    BY <1>1, <1>2, <2>1, MovesTold
<1>9. ASSUME NEW f \in AirFrames, EapFrame(f) PROVE RepeatStep(ctx, ctx')
  BY <1>1, <1>2, <1>9, MovesTold DEF EapFrame
<1>10. CASE ExecuteEnd
  BY <1>1, <1>2, <1>10, MovesTold DEF ExecuteEnd
<1>11. CASE UnbindConnection
  BY <1>1, <1>2, <1>11, MovesTold DEF UnbindConnection, Request
<1>12. CASE SetPassword
  <2>1. CASE ctx' = [Fresh(ctx) EXCEPT !.eap.pwdCallback = FALSE]
    BY <1>1, <1>2, <2>1, MovesTold
  <2>2. CASE ctx' = [Fresh(ctx) EXCEPT
                        !.eap.pwdCallback = FALSE,
                        !.eap.pwdFrame = NullFrame,
                        !.eap.lastId = (@ + IdSpace - 1) % IdSpace,
                        !.recvframe = ctx.eap.pwdFrame,
                        !.sm.eapolEap = TRUE]
    BY <1>1, <1>2, <2>2, MovesTold
  <2> QED
    BY <1>12, <2>1, <2>2 DEF SetPassword
<1>13. CASE (\E conn \in Conns : ChangeConnection(conn)) \/ RequestLogoff
            \/ DisconnectConnection
  BY <1>1, <1>13, RequestRepeats
<1>14. CASE ExecuteRun
  <2>1. PICK in \in RunInputs(ctx) : ctx' = StatemachineRun(a, in)
    BY <1>4, <1>14 DEF ExecuteRun
  <2>2. in \in Inputs /\ a.conn # "NONE"
    BY <1>1, <1>5, <1>14, <2>1, RunInputsOk DEF ExecuteRun, CtxOk
  <2>3. RepeatStep(a, ctx')
    BY <1>5, <2>1, <2>2, RunRepeats DEF Same
  <2> QED
    BY <1>3, <1>5, <2>3
<1>15. CASE Tick
  <2>1. RepeatStep(b, ctx')
    BY <1>4, <1>6, <1>7, <1>15, RunIfBoundRepeats DEF Tick, Same
  <2> QED
    BY <1>3, <1>7, <2>1
<1>16. CASE Poll
  <2>1. RepeatStep(a, ctx')
    BY <1>4, <1>5, <1>16, RunIfBoundRepeats DEF Poll, Same
  <2> QED
    BY <1>3, <1>5, <2>1
<1>17. CASE UNCHANGED vars
  BY <1>17 DEF vars, RepeatStep, Asked
<1> QED
  BY <1>8, <1>9, <1>10, <1>11, <1>12, <1>13, <1>14, <1>15, <1>16, <1>17
     DEF Next

\* A request with the identifier of the last one answered gets the stored
\* response (eap_sm.c:1712) and leaves the conversation where it was, for all
\* methods but EAP-TNC (an option of the build, whose request makes the EAP
\* machine forget the method before it looks at the identifier), for all
\* connections, frames, links and requests of the user, whatever happened
\* between the two copies of the request.
THEOREM DuplicateTheorem ==
    "TNC" \notin Methods => (Spec => DuplicateChangesNothing)
<1> SUFFICES ASSUME "TNC" \notin Methods
             PROVE  Spec => DuplicateChangesNothing
  OBVIOUS
<1> DEFINE A == (/\ ctx.sm.curState = "AUTHENTICATING" /\ ctx.sm.eapolEap
                 /\ ctx.sm.beCurState = "RECEIVE"
                 /\ ctx.recvframe.code = "REQUEST"
                 /\ ctx.recvframe.type # "IDENTITY"
                 /\ ctx.recvframe.id = ctx.eap.lastId
                 /\ ctx.eap.lastRespData # NullResp
                 /\ ctx'.sm.beCurState = "REQUEST")
                => /\ Progress(ctx'.eap) = Progress(ctx.eap)
                   /\ ctx'.eap.respData = ctx.eap.lastRespData
<1>1. Init => Untimed(ctx)
  <2> SUFFICES ASSUME Init PROVE Untimed(ctx)
    OBVIOUS
  <2>1. PICK link : ctx.sm = NewSm(link)
    BY DEF Init
  <2> QED
    BY <2>1 DEF Untimed, NewSm
<1>2. IInv /\ PortInv(ctx) /\ Untimed(ctx) /\ [Next]_vars => Untimed(ctx)'
  BY RepeatStepOk DEF RepeatStep
<1>3. IInv /\ PortInv(ctx) /\ Untimed(ctx) /\ [Next]_vars => A
  <2> SUFFICES ASSUME IInv, PortInv(ctx), Untimed(ctx), [Next]_vars
               PROVE  A
    OBVIOUS
  <2>1. RepeatStep(ctx, ctx')
    BY RepeatStepOk
  <2>2. ctx.recvframe.type # "TNC"
    BY DEF IInv, CtxOk, Contexts, Frames
  <2> QED
    BY <2>1, <2>2 DEF RepeatStep, Asked, Repeats, Retransmits
<1>4. DuplicateChangesNothing <=> [][A]_vars
  BY DEF DuplicateChangesNothing
<1> HIDE DEF A
<1> QED
  BY <1>1, <1>2, <1>3, <1>4, Inductive, PortInductive, PTL DEF Spec

(***************************************************************************)
(* A response answers the request in the buffer, and nothing stale is      *)
(* read.                                                                   *)
(***************************************************************************)
\* What is kept of a response is the answer to the last request, unless the
\* conversation failed or is yet to begin.
LastOk(e) ==
    \/ e.lastRespData = NullResp \/ e.lastId = InitialId
    \/ e.eapFail \/ e.lastRespData.id = e.lastId

\* A response that waits to be sent, or is about to, answers the frame p.
AnswerTo(r, p) == r = NullResp \/ (p.code = "REQUEST" /\ r.id = p.id)

\* The EAP machine, which has not failed it, has read p and nothing stale;
\* EAP-LEAP, which answers a success, is left out.
Loyal(e, p) ==
    /\ DOMAIN e = DOMAIN NewEap
    /\ e.eapResp => AnswerTo(e.respData, p)
    /\ ~e.wild
    /\ e.selectedMethod # "LEAP" /\ "LEAP" \notin e.curMethods

Faithful(e, p) == Loyal(e, p) /\ LastOk(e)

\* A conversation that no method can have ended with a success yet.
Unwon(e) == ~e.eapSuccess /\ ~e.altAccept

\* f comes from e, and is faithful; nothing was won if nothing could be.
Serves(e, f, p) == Faithful(f, p) /\ (Unwon(e) => Unwon(f))

LEMMA QuietServes ==
  ASSUME NEW e, NEW p, Loyal(e, p)
  PROVE  /\ Serves(e, EapFailure(e), p)
         /\ Faithful(e, p) => /\ Serves(e, EapIdleQuiet(e), p)
                              /\ Faithful(EapSuccess(e), p)
<1>1. Serves(e, EapFailure(e), p)
  BY DEF Serves, Faithful, Loyal, LastOk, Unwon, EapFailure, NewEap
<1>2. ASSUME Faithful(e, p) PROVE Faithful(EapSuccess(e), p)
  BY <1>2 DEF Faithful, Loyal, LastOk, EapSuccess, NewEap
<1>3. ASSUME Faithful(e, p) PROVE Serves(e, EapIdleQuiet(e), p)
  BY <1>1, <1>2, <1>3 DEF EapIdleQuiet, AcceptedByMethod, Serves, Unwon
<1> QED
  BY <1>1, <1>2, <1>3

LEMMA DiscardServes ==
  ASSUME NEW e, NEW p, Loyal(e, p)
  PROVE  Serves(e, EapDiscard(e), p)
<1>1. PICK f : f = [e EXCEPT !.eapReq = FALSE, !.eapNoResp = TRUE,
                             !.lastRespData = NullResp]
  OBVIOUS
<1>2. Faithful(f, p) /\ (Unwon(e) => Unwon(f))
  BY <1>1 DEF Faithful, Loyal, LastOk, Unwon, NewEap
<1>3. EapDiscard(e) = EapIdleQuiet(f)
  BY <1>1 DEF EapDiscard
<1> QED
  BY <1>2, <1>3, QuietServes DEF Serves, Faithful

LEMMA SendServes ==
  ASSUME NEW e, NEW p, Loyal(e, p), AnswerTo(e.respData, p)
  PROVE  Serves(e, EapSendResponse(e, p.id), p)
<1>1. PICK i : i = p.id
  OBVIOUS
<1>2. PICK f : f = [e EXCEPT !.lastId = i, !.lastRespData = NullResp]
  OBVIOUS
<1>3. /\ Loyal(f, p) /\ (Unwon(e) => Unwon(f))
      /\ f.respData = e.respData /\ f.lastId = i
  BY <1>2 DEF Loyal, Unwon, NewEap
<1>4. PICK r : r = f.respData
  OBVIOUS
<1>5. PICK g : g = [f EXCEPT !.lastRespData = r,
                             !.eapReq = FALSE, !.eapResp = TRUE]
  OBVIOUS
<1>6. CASE r = NullResp
  <2>1. EapSendResponse(e, p.id) = EapDiscard(f)
    BY <1>1, <1>2, <1>4, <1>6 DEF EapSendResponse
  <2> QED
    BY <1>3, <2>1, DiscardServes DEF Serves
<1>7. CASE r # NullResp
  <2>1. EapSendResponse(e, p.id) = EapIdleQuiet(g)
    BY <1>1, <1>2, <1>4, <1>5, <1>7 DEF EapSendResponse
  <2>2. p.code = "REQUEST" /\ r.id = p.id
    BY <1>3, <1>4, <1>7 DEF AnswerTo
  <2>3. Faithful(g, p) /\ (Unwon(e) => Unwon(g))
    BY <1>1, <1>3, <1>4, <1>5, <2>2
       DEF Faithful, Loyal, LastOk, Unwon, AnswerTo, NewEap
  <2> QED
    BY <2>1, <2>3, QuietServes DEF Serves, Faithful
<1> QED
  BY <1>6, <1>7

\* A method answers the request it was given.  Nothing is won by the first.
LEMMA MethodServes ==
  ASSUME NEW e, NEW p, Faithful(e, p), p.code = "REQUEST", NEW m
  PROVE  LET f == EapMethod(e, p, m)
         IN  /\ Faithful(f, p)
             /\ Unwon(e) /\ (\/ e.methodState = "INIT"
                             \/ e.selectedMethod = "NONE") => Unwon(f)
<1>1. CASE e.selectedMethod = "NONE"
  BY <1>1 DEF EapMethod
<1>2. CASE e.selectedMethod # "NONE"
  <2>1. PICK a : a = (m.altAccept /\ e.methodState # "INIT")
    OBVIOUS
  <2>2. PICK s : s = e.selectedMethod
    OBVIOUS
  <2>3. PICK r : r = [e EXCEPT !.methodState = m.methodState,
                       !.decision = m.decision, !.altReject = m.altReject,
                       !.altAccept = a, !.by = s]
    OBVIOUS
  <2> DEFINE Still(x) == Unwon(e) /\ e.methodState = "INIT" => Unwon(x)
             Ok(x) == Loyal(x, p) /\ Still(x)
  <2>4. Ok(r)
    BY <2>1, <2>3 DEF Faithful, Loyal, Unwon, NewEap
  <2>5. Ok(AskPassword(r, p))
    BY <2>4 DEF AskPassword, Loyal, Unwon, NewEap
  <2>6. PICK f : f = MethodResult(e, p, m)
    OBVIOUS
  <2>7. Ok(f)
    BY <2>1, <2>2, <2>3, <2>4, <2>5, <2>6 DEF MethodResult
  <2>8. PICK x : x = IF m.resp THEN [id |-> p.id, body |-> e.selectedMethod]
                               ELSE NullResp
    OBVIOUS
  <2>9. AnswerTo(x, p)
    BY <2>8 DEF AnswerTo
  <2>10. PICK g : g = [f EXCEPT !.respData = x]
    OBVIOUS
  <2>11. Ok(g) /\ AnswerTo(g.respData, p)
    BY <2>7, <2>9, <2>10 DEF Loyal, Unwon, NewEap
  <2>12. EapMethod(e, p, m) \in
           {EapDiscard(f), EapFailure(g), EapSendResponse(g, p.id)}
    BY <1>2, <2>6, <2>8, <2>10 DEF EapMethod
  <2> QED
    BY <1>2, <2>7, <2>11, <2>12, DiscardServes, QuietServes, SendServes
       DEF Serves
<1> QED
  BY <1>1, <1>2

LEMMA DeinitServes ==
  ASSUME NEW e, NEW p, Faithful(e, p)
  PROVE  /\ Serves(e, DeinitMethod(e), p)
         /\ DeinitMethod(e) = [e EXCEPT !.pwdFrame = NullFrame]
  BY DEF DeinitMethod, Serves, Faithful, Loyal, LastOk, Unwon, NewEap

\* GET_METHOD: a method that is selected begins, so that it wins nothing.
LEMMA GetMethodServes ==
  ASSUME NEW e, NEW p, Faithful(e, p), p.code = "REQUEST", NEW m,
         e.selectedMethod = "NONE"
  PROVE  Serves(e, EapGetMethod(e, p, m), p)
<1>1. PICK old : old = IF e.lastMethod \notin {p.type, "NONE"}
                       THEN DeinitMethod(e) ELSE e
  OBVIOUS
<1>2. Faithful(old, p) /\ old.curMethods = e.curMethods
      /\ (Unwon(e) => Unwon(old))
  BY <1>1, DeinitServes DEF Serves, Faithful, Loyal, NewEap
<1>3. PICK t : t = p.type
  OBVIOUS
<1>4. PICK new : new = [old EXCEPT !.lastMethod = t, !.selectedMethod = t,
                                   !.methodState = "INIT"]
  OBVIOUS
<1>5. CASE t \in e.curMethods
  <2>1. t # "LEAP"
    BY <1>5 DEF Faithful, Loyal
  <2>2. /\ Faithful(new, p) /\ new.methodState = "INIT"
        /\ Unwon(e) => Unwon(new)
    BY <1>2, <1>4, <2>1 DEF Faithful, Loyal, LastOk, Unwon, NewEap
  <2>3. EapGetMethod(e, p, m) = EapMethod(new, p, m)
    BY <1>1, <1>3, <1>4, <1>5 DEF EapGetMethod
  <2> QED
    BY <2>2, <2>3, MethodServes DEF Serves
<1>6. CASE t \notin e.curMethods
  <2>1. PICK r : r = [id |-> p.id, body |-> "NAK"]
    OBVIOUS
  <2>2. PICK nak : nak = [e EXCEPT !.respData = r]
    OBVIOUS
  <2>3. /\ Faithful(nak, p) /\ AnswerTo(nak.respData, p)
        /\ nak.selectedMethod = "NONE" /\ (Unwon(e) => Unwon(nak))
    BY <2>1, <2>2 DEF Faithful, Loyal, LastOk, Unwon, AnswerTo, NewEap
  <2>4. PICK none : none = [e EXCEPT !.respData = NullResp,
                                     !.eapResp = FALSE]
    OBVIOUS
  <2>5. Loyal(none, p) /\ (Unwon(e) => Unwon(none))
    BY <2>4 DEF Faithful, Loyal, Unwon, NewEap
  <2>6. EapGetMethod(e, p, m) \in {EapDiscard(none), EapMethod(nak, p, m),
                                   EapSendResponse(nak, p.id)}
    BY <1>1, <1>3, <1>4, <1>6, <2>1, <2>2, <2>4 DEF EapGetMethod
  <2> QED
    BY <2>3, <2>5, <2>6, DiscardServes, MethodServes, SendServes
       DEF Serves, Faithful
<1> QED
  BY <1>5, <1>6

\* A repeated request is given the response that answered it.
LEMMA RetransmitServes ==
  ASSUME NEW e, NEW p, Faithful(e, p), p.code = "REQUEST", p.id = e.lastId,
         p.id # InitialId, ~e.eapFail
  PROVE  Serves(e, EapRetransmit(e, p), p)
<1>1. AnswerTo(e.lastRespData, p)
  BY DEF Faithful, LastOk, AnswerTo
<1>2. PICK f : f = [e EXCEPT !.respData = NullResp]
  OBVIOUS
<1>3. Loyal(f, p) /\ (Unwon(e) => Unwon(f))
  BY <1>2 DEF Faithful, Loyal, Unwon, AnswerTo, NewEap
<1>4. PICK r : r = e.lastRespData
  OBVIOUS
<1>5. PICK g : g = [f EXCEPT !.respData = r, !.eapResp = TRUE]
  OBVIOUS
<1>6. /\ Loyal(g, p) /\ AnswerTo(g.respData, p) /\ (Unwon(e) => Unwon(g))
  BY <1>1, <1>3, <1>4, <1>5 DEF Loyal, Unwon, NewEap
<1>7. EapRetransmit(e, p) \in
        {EapSendResponse(g, p.id), EapDiscard(f), EapFailure(f)}
  BY <1>2, <1>4, <1>5 DEF EapRetransmit, EapFailure
<1> QED
  BY <1>3, <1>6, <1>7, SendServes, DiscardServes, QuietServes DEF Serves

LEMMA IdentityServes ==
  ASSUME NEW e, NEW p, Faithful(e, p), p.code = "REQUEST", NEW m
  PROVE  Serves(e, EapIdentity(e, p, m), p)
<1>1. PICK f : f = [e EXCEPT !.selectedMethod = "NONE", !.respData = NullResp]
  OBVIOUS
<1>2. Loyal(f, p) /\ (Unwon(e) => Unwon(f))
  BY <1>1 DEF Faithful, Loyal, Unwon, AnswerTo, NewEap
<1>3. PICK r : r = [id |-> p.id, body |-> "IDENTITY"]
  OBVIOUS
<1>4. PICK g : g = [f EXCEPT !.respData = r, !.eapResp = TRUE,
                             !.eapNoResp = FALSE, !.methodState = "INIT"]
  OBVIOUS
<1>5. Loyal(g, p) /\ AnswerTo(g.respData, p) /\ (Unwon(e) => Unwon(g))
  BY <1>2, <1>3, <1>4 DEF Loyal, Unwon, AnswerTo, NewEap
<1>6. EapIdentity(e, p, m) \in {EapSendResponse(g, p.id), EapDiscard(f)}
  BY <1>1, <1>3, <1>4 DEF EapIdentity
<1> QED
  BY <1>2, <1>5, <1>6, SendServes, DiscardServes DEF Serves

\* A frame the authenticator may send, for which what is read is known.
Fair(p) ==
    /\ p.code \in {"REQUEST", "RESPONSE", "SUCCESS", "FAILURE"}
    /\ p.code = "REQUEST" => p.id # InitialId

\* Nothing was decided and no method runs: a conversation that has begun.
Beginning(e) ==
    /\ e.decision = "EAP_FAIL" /\ e.selectedMethod = "NONE"
    /\ Unwon(e) /\ ~e.eapFail

\* RECEIVED: whatever the order of the tests.
LEMMA DispatchServes ==
  ASSUME NEW e, NEW p, Faithful(e, p), Fair(p), ~e.eapFail, NEW m
  PROVE  LET f == EapDispatch(e, p, m)
         IN  Faithful(f, p) /\ (Beginning(e) => Unwon(f))
<1> DEFINE Ok(x) == Faithful(x, p) /\ (Beginning(e) => Unwon(x))
<1>1. MeansSuccess(e, p) => Ok(EapSuccess(e))
  BY QuietServes DEF Beginning, MeansSuccess, Faithful
<1>2. Ok(EapFailure(e))
  BY QuietServes DEF Beginning, Serves, Faithful
<1>3. Ok(EapDiscard(e))
  BY DiscardServes DEF Beginning, Serves, Faithful
<1>4. e.selectedMethod # "LEAP"
  BY DEF Faithful, Loyal
<1>5. CASE p.code = "REQUEST"
  <2>1. PICK n : n = [e EXCEPT !.respData = NullResp]
    OBVIOUS
  <2>2. /\ Loyal(n, p) /\ AnswerTo(n.respData, p) /\ (Unwon(e) => Unwon(n))
    BY <2>1 DEF Faithful, Loyal, Unwon, AnswerTo, NewEap
  <2>3. EapNotification(e, p) = EapSendResponse(n, p.id)
    BY <2>1 DEF EapNotification
  <2>4. Ok(EapNotification(e, p))
    BY <2>2, <2>3, SendServes DEF Serves, Beginning
  <2>5. PICK o : o = IF e.selectedMethod # "NONE" THEN DeinitMethod(e) ELSE e
    OBVIOUS
  <2>6. Faithful(o, p) /\ (Beginning(e) => Unwon(o))
    BY <2>5, DeinitServes DEF Serves, Beginning
  <2>7. Ok(EapIdentity(o, p, m))
    BY <1>5, <2>6, IdentityServes DEF Serves
  <2>8. Ok(EapRequest(e, p, m))
    <3>1. e.selectedMethod = "NONE" => Ok(EapGetMethod(e, p, m))
      BY <1>5, GetMethodServes DEF Serves, Beginning
    <3>2. Ok(EapMethod(e, p, m))
      BY <1>5, MethodServes DEF Beginning
    <3>3. p.id = e.lastId => Ok(EapRetransmit(e, p))
      BY <1>5, RetransmitServes DEF Serves, Beginning, Fair
    <3> HIDE DEF Ok
    <3> QED
      BY <1>3, <3>1, <3>2, <3>3 DEF EapRequest
  <2> HIDE DEF Ok
  <2>9. EapDispatch(e, p, m) \in
          {EapFailure(e), EapNotification(e, p), EapIdentity(o, p, m),
           EapRequest(e, p, m)}
    BY <1>5, <2>5 DEF EapDispatch, MeansSuccess
  <2>10. Ok(EapDispatch(e, p, m))
    BY <1>2, <2>4, <2>7, <2>8, <2>9
  <2> QED
    BY <2>10 DEF Ok
<1>6. CASE p.code # "REQUEST"
  <2> HIDE DEF Ok
  <2>1. EapRequest(e, p, m) = EapDiscard(e)
    BY <1>4, <1>6 DEF EapRequest, IsFresh
  <2>2. Ok(EapDispatch(e, p, m))
    BY <1>1, <1>2, <1>3, <1>4, <1>6, <2>1 DEF EapDispatch, IsFresh
  <2> QED
    BY <2>2 DEF Ok
<1> QED
  BY <1>5, <1>6

\* INITIALIZE begins a conversation, whatever became of the last one.
LEMMA InitServes ==
  ASSUME NEW e, NEW p, Faithful(e, p)
  PROVE  LET f == InitEapVars(e)
         IN  /\ Faithful(f, p) /\ Beginning(f) /\ ~f.altReject
             /\ e.eapReq = FALSE => f.eapReq = FALSE
<1>1. PICK q : q = (e.eapReq /\ e.reqData # NullFrame)
  OBVIOUS
<1>2. PICK f : f = ForgetResult(e)
  OBVIOUS
<1>3. Loyal(f, p)
  BY <1>2 DEF ForgetResult, Faithful, Loyal, NewEap
<1>4. ~f.eapSuccess /\ ~f.eapFail
  BY <1>2 DEF ForgetResult, Faithful, Loyal, NewEap
<1>5. PICK g : g = [f EXCEPT
                  !.selectedMethod = "NONE", !.methodState = "NONE",
                  !.allowNotifications = TRUE, !.decision = "EAP_FAIL",
                  !.lastId = InitialId, !.altAccept = FALSE,
                  !.altReject = FALSE, !.eapRestart = FALSE,
                  !.eapReq = q, !.won = FALSE, !.by = "NONE"]
  OBVIOUS
<1>6. InitEapVars(e) = g
  BY <1>1, <1>2, <1>5 DEF InitEapVars
<1>7. Faithful(g, p) /\ Beginning(g) /\ ~g.altReject /\ g.eapReq = q
  BY <1>3, <1>4, <1>5
     DEF Faithful, Loyal, LastOk, Beginning, Unwon, NewEap
<1> QED
  BY <1>1, <1>6, <1>7

\* eap_sm_run, for a frame the authenticator may send.
LEMMA RunServes ==
  ASSUME NEW e, NEW p, Faithful(e, p), Fair(p), e.portEnabled,
         ~e.eapRestart, e.eapReq, e.reqData = p, p \notin Garbage,
         ~e.eapFail, e.decision # "UNSET", NEW m, NEW ub
  PROVE  LET f == EapRun(e, m, ub)
         IN  Faithful(f, p) /\ (Beginning(e) => Unwon(f))
<1>1. PICK w : w = (e.wild \/ e.reqData \in Garbage
                           \/ e.decision = "UNSET")
  OBVIOUS
<1>2. PICK f : f = [e EXCEPT !.wild = w]
  OBVIOUS
<1>3. ~w
  BY <1>1 DEF Faithful, Loyal
<1>4. /\ Faithful(f, p) /\ ~f.eapFail /\ (Beginning(e) => Beginning(f))
      /\ f.selectedMethod = e.selectedMethod
  BY <1>2, <1>3 DEF Faithful, Loyal, LastOk, Beginning, Unwon, NewEap
<1>5. PICK g : g = InitEapVars(DeinitMethod(f))
  OBVIOUS
<1>6. Faithful(g, p) /\ Beginning(g)
  BY <1>4, <1>5, DeinitServes, InitServes DEF Serves
<1>7. EapRun(e, m, ub) = EapReceived(e, m, ub)
  BY DEF EapRun, EapIdle
<1>8. EapReceived(e, m, ub) \in {EapDispatch(f, p, m), EapDispatch(g, p, m)}
  BY <1>1, <1>2, <1>5 DEF EapReceived
<1>9. EapRun(e, m, ub) \in {EapDispatch(f, p, m), EapDispatch(g, p, m)}
  BY <1>7, <1>8
<1>10. ASSUME NEW x \in {f, g}
       PROVE  LET d == EapDispatch(x, p, m)
              IN  Faithful(d, p) /\ (Beginning(x) => Unwon(d))
  BY <1>4, <1>6, DispatchServes DEF Beginning
<1> QED
  BY <1>4, <1>6, <1>9, <1>10

\* Asked to restart with no request, it begins.
LEMMA RestartServes ==
  ASSUME NEW e, NEW p, Faithful(e, p), e.portEnabled, e.eapRestart,
         e.eapReq = FALSE, NEW m, NEW ub
  PROVE  LET f == EapRun(e, m, ub) IN Faithful(f, p) /\ Beginning(f)
<1>1. PICK f : f = InitEapVars(e)
  OBVIOUS
<1>2. Faithful(f, p) /\ Beginning(f) /\ ~f.altReject /\ f.eapReq = FALSE
  BY <1>1, InitServes
<1>3. EapRun(e, m, ub) = EapIdleQuiet(f)
  BY <1>1, <1>2 DEF EapRun, EapIdle
<1>4. EapIdleQuiet(f) = f
  BY <1>2 DEF EapIdleQuiet, RejectedByMethod, AcceptedByMethod, Beginning,
              Unwon
<1> QED
  BY <1>2, <1>3, <1>4

(***************************************************************************)
(* The backend machine.                                                    *)
(***************************************************************************)
\* The environment for which a response is known to answer its request: the
\* link stays up; the user neither changes the connection nor answers late; a
\* frame takes no more runs than there are; frames are EAP packets, and a
\* request does not have the identifier that stands for none.
Orderly ==
    /\ Steady /\ UserRequests \cap {"connect", "password"} = {}
    /\ MaxRuns >= 4 /\ "LEAP" \notin Methods
    /\ \A f \in AirFrames : Fair(f)

\* The EAP machine of a context, for the frame in its buffer.
Serving(c) ==
    /\ Shaped(c) /\ c.prof \in Conns \cup {"NONE"}
    /\ Faithful(c.eap, c.recvframe)
    /\ c.sm.eapolEap => c.recvframe \in AirFrames

\* A success of the EAP machine is about to be told, was told, or is to be
\* forgotten.
Won(c) ==
    c.eap.eapSuccess =>
        \/ c.sm.suppAbort \/ c.sm.initialize
        \/ c.sm.curState = "AUTHENTICATED"
        \/ /\ c.sm.curState = "AUTHENTICATING"
           /\ c.sm.beCurState = "REQUEST" \/ c.sm.suppSuccess

\* Between two runs: a response waits only in REQUEST, with its request.
Honest(c) ==
    /\ Serving(c) /\ Won(c)
    /\ c.eap.eapResp => /\ c.sm.curState = "AUTHENTICATING"
                        /\ c.sm.beCurState = "REQUEST" /\ c.sm.eapolEap

\* What was sent in this step.
Mute(c) == \A i \in DOMAIN c.out : c.out[i].kind # "RESPONSE"

Replies(c) ==
    \A i \in DOMAIN c.out : c.out[i].kind = "RESPONSE" =>
        /\ c.recvframe.code = "REQUEST"
        /\ c.out[i].resp.id = c.recvframe.id

\* A step of the backend that leaves the frame and what was sent alone.
Tends(c, d) ==
    /\ Serving(d) /\ d.out = c.out /\ d.recvframe = c.recvframe
    /\ d.sm.initialize => c.sm.initialize
    /\ d.sm.suppAbort => c.sm.suppAbort

LEMMA OpsServe ==
  ASSUME NEW c, Serving(c)
  PROVE  /\ Tends(c, BeIdle(c)) /\ Tends(c, BeFail(c))
         /\ Tends(c, BeTimeout(c)) /\ Tends(c, BeSuccess(c))
         /\ Tends(c, BeReceive(c)) /\ Tends(c, BeInitialize(c))
         /\ BeIdle(c).eap = c.eap /\ BeFail(c).eap = c.eap
         /\ BeTimeout(c).eap = c.eap /\ BeSuccess(c).eap = c.eap
         /\ BeSuccess(c).sm.suppSuccess
         /\ \A d \in {BeIdle(c), BeFail(c), BeTimeout(c), BeSuccess(c)} :
               ~d.sm.suppStart /\ d.sm.beCurState = "IDLE"
         /\ BeReceive(c).sm.beCurState = "RECEIVE"
         /\ BeReceive(c).eap.eapResp = c.eap.eapResp
         /\ BeReceive(c).eap.respData = c.eap.respData
         /\ BeReceive(c).eap.eapSuccess = c.eap.eapSuccess
         /\ LET i == BeInitialize(c)
            IN  /\ ~i.eap.eapSuccess /\ i.eap.eapResp = c.eap.eapResp
                /\ ~i.sm.suppStart /\ i.sm.beCurState = "IDLE"
<1> USE DEF Tends, Serving, Shaped, NewSm
<1>1. /\ Tends(c, BeIdle(c)) /\ Tends(c, BeFail(c))
      /\ Tends(c, BeTimeout(c)) /\ Tends(c, BeSuccess(c))
      /\ BeIdle(c).eap = c.eap /\ BeFail(c).eap = c.eap
      /\ BeTimeout(c).eap = c.eap /\ BeSuccess(c).eap = c.eap
      /\ BeSuccess(c).sm.suppSuccess
      /\ \A d \in {BeIdle(c), BeFail(c), BeTimeout(c), BeSuccess(c)} :
            ~d.sm.suppStart /\ d.sm.beCurState = "IDLE"
  <2>1. /\ Tends(c, BeIdle(c)) /\ BeIdle(c).eap = c.eap
        /\ ~BeIdle(c).sm.suppStart /\ BeIdle(c).sm.beCurState = "IDLE"
    BY DEF BeIdle
  <2>2. /\ Tends(c, BeFail(c)) /\ BeFail(c).eap = c.eap
        /\ ~BeFail(c).sm.suppStart /\ BeFail(c).sm.beCurState = "IDLE"
    BY DEF BeFail, BeIdle
  <2>3. /\ Tends(c, BeTimeout(c)) /\ BeTimeout(c).eap = c.eap
        /\ ~BeTimeout(c).sm.suppStart /\ BeTimeout(c).sm.beCurState = "IDLE"
    BY DEF BeTimeout, BeIdle
  <2>4. /\ Tends(c, BeSuccess(c)) /\ BeSuccess(c).eap = c.eap
        /\ ~BeSuccess(c).sm.suppStart /\ BeSuccess(c).sm.beCurState = "IDLE"
        /\ BeSuccess(c).sm.suppSuccess
    BY DEF BeSuccess, BeIdle
  <2> HIDE DEF Tends, Serving, Shaped, NewSm
  <2> QED
    BY <2>1, <2>2, <2>3, <2>4
<1>2. /\ Tends(c, BeReceive(c)) /\ BeReceive(c).sm.beCurState = "RECEIVE"
      /\ BeReceive(c).eap.eapResp = c.eap.eapResp
      /\ BeReceive(c).eap.respData = c.eap.respData
      /\ BeReceive(c).eap.eapSuccess = c.eap.eapSuccess
  <2>1. PICK e : e = [c.eap EXCEPT !.eapNoResp = FALSE]
    OBVIOUS
  <2>2. /\ Faithful(e, c.recvframe) /\ e.eapResp = c.eap.eapResp
        /\ e.respData = c.eap.respData /\ e.eapSuccess = c.eap.eapSuccess
    BY <2>1 DEF Faithful, Loyal, LastOk, NewEap
  <2>3. BeReceive(c).eap = e
    BY <2>1 DEF BeReceive
  <2> QED
    BY <2>2, <2>3 DEF BeReceive
<1>3. LET i == BeInitialize(c)
      IN  /\ Tends(c, i)
          /\ ~i.eap.eapSuccess /\ i.eap.eapResp = c.eap.eapResp
          /\ ~i.sm.suppStart /\ i.sm.beCurState = "IDLE"
  <2>1. PICK e : e = [c.eap EXCEPT !.eapSuccess = FALSE]
    OBVIOUS
  <2>2. /\ Faithful(e, c.recvframe) /\ e.eapResp = c.eap.eapResp
        /\ ~e.eapSuccess
    BY <2>1 DEF Faithful, Loyal, LastOk, NewEap
  <2>3. BeInitialize(c).eap = e
    BY <2>1 DEF BeInitialize, AbortSupp, BeIdle
  <2> QED
    BY <2>2, <2>3 DEF BeInitialize, AbortSupp, BeIdle
<1> QED
  BY <1>1, <1>2, <1>3

\* RESPONSE sends what was answered, and nothing is left to be sent.
LEMMA ResponseServes ==
  ASSUME NEW c, Serving(c), c.out \in Seq(Sent), Mute(c), c.eap.eapResp
  PROVE  LET d == BeResponse(c)
         IN  /\ Serving(d) /\ Replies(d) /\ ~d.eap.eapResp
             /\ d.sm.initialize = c.sm.initialize
             /\ d.sm.suppAbort = c.sm.suppAbort
<1>1. PICK r : r = c.eap.respData
  OBVIOUS
<1>2. AnswerTo(r, c.recvframe)
  BY <1>1 DEF Serving, Faithful, Loyal
<1>3. PICK t : t = TxSuppRsp(c)
  OBVIOUS
<1>4. /\ Shaped(t) /\ t.eap = [c.eap EXCEPT !.eapResp = FALSE]
      /\ t.recvframe = c.recvframe /\ t.prof = c.prof
      /\ t.sm = [c.sm EXCEPT !.eapolEap = FALSE]
      /\ t.out = IF r = NullResp THEN c.out
                 ELSE Append(c.out, [kind |-> "RESPONSE", resp |-> r])
  BY <1>1, <1>3 DEF TxSuppRsp, Transmit, Serving, Shaped, NewSm
<1>5. Replies(t)
  BY <1>2, <1>4 DEF Replies, Mute, AnswerTo
<1>6. PICK x : x = [t EXCEPT !.eap.respData = NullResp]
  OBVIOUS
<1>7. /\ Shaped(x) /\ x.recvframe = c.recvframe /\ x.out = t.out
      /\ x.prof = c.prof /\ x.sm = t.sm
      /\ x.eap = [t.eap EXCEPT !.respData = NullResp]
  BY <1>4, <1>6 DEF Shaped
<1>8. Faithful(x.eap, c.recvframe) /\ ~x.eap.eapResp
  BY <1>4, <1>7 DEF Serving, Faithful, Loyal, LastOk, NewEap
<1>9. ~x.sm.eapolEap
  BY <1>4, <1>7 DEF Serving, Shaped, NewSm
<1>10. Serving(x)
  BY <1>7, <1>8, <1>9 DEF Serving
<1>11. BeResponse(c) = BeReceive(x)
  BY <1>3, <1>6 DEF BeResponse
<1>12. Replies(x)
  BY <1>4, <1>5, <1>7 DEF Replies
<1>13. PICK d : d = BeReceive(x)
  OBVIOUS
<1>14. /\ Serving(d) /\ Replies(d) /\ ~d.eap.eapResp
  BY <1>8, <1>10, <1>12, <1>13, OpsServe DEF Tends, Replies
<1>15. d.sm.initialize = c.sm.initialize /\ d.sm.suppAbort = c.sm.suppAbort
  <2>1. x.sm = [c.sm EXCEPT !.eapolEap = FALSE]
    BY <1>4, <1>7
  <2>2. /\ x.sm.initialize = c.sm.initialize
        /\ x.sm.suppAbort = c.sm.suppAbort
    BY <2>1 DEF Serving, Shaped, NewSm
  <2>3. /\ d.sm.initialize = x.sm.initialize
        /\ d.sm.suppAbort = x.sm.suppAbort
    BY <1>7, <1>13 DEF BeReceive, Shaped, NewSm
  <2> QED
    BY <2>2, <2>3
<1> QED
  BY <1>11, <1>13, <1>14, <1>15

\* The EAP machine is called to begin, or with a frame.
LEMMA RunEapServes ==
  ASSUME "LEAP" \notin Methods, NEW c, Serving(c), c.sm.portEnabled, NEW in
  PROVE  LET d == RunEap(c, in)
             p == c.recvframe
         IN  /\ Shaped(d) /\ d.out = c.out /\ d.recvframe = p
             /\ d.prof = c.prof
             /\ d.sm = [c.sm EXCEPT !.eapRestart = d.sm.eapRestart]
             /\ c.sm.eapRestart /\ c.sm.eapReq = FALSE
                => Faithful(d.eap, p) /\ Beginning(d.eap)
             /\ /\ ~c.sm.eapRestart /\ c.sm.eapReq /\ Fair(p)
                /\ c.eap.reqData = p /\ p \notin Garbage
                /\ ~c.eap.eapFail /\ c.eap.decision # "UNSET"
                => /\ Faithful(d.eap, p)
                   /\ Beginning(c.eap) => Unwon(d.eap)
<1>1. PICK x : x = IF c.prof # "NONE" THEN ProfileOf[c.prof]
                                      ELSE c.eap.curMethods
  OBVIOUS
<1>2. "LEAP" \notin x
  BY <1>1, ConnsAssumption DEF Serving, Faithful, Loyal
<1>3. PICK q : q = c.sm.eapReq
  OBVIOUS
<1>4. PICK r : r = c.sm.eapRestart
  OBVIOUS
<1>5. PICK e : e = [c.eap EXCEPT !.eapReq = q,
                                 !.portEnabled = c.sm.portEnabled,
                                 !.eapRestart = r, !.curMethods = x]
  OBVIOUS
<1>6. /\ Faithful(e, c.recvframe) /\ e.eapReq = q /\ e.portEnabled
      /\ e.eapRestart = r /\ e.reqData = c.eap.reqData
      /\ e.eapFail = c.eap.eapFail /\ e.decision = c.eap.decision
      /\ Beginning(c.eap) => Beginning(e)
  BY <1>2, <1>5
     DEF Serving, Faithful, Loyal, LastOk, Beginning, Unwon, NewEap
<1>7. PICK s : s = SyncLowerToPeer(c)
  OBVIOUS
<1>8. s = [c EXCEPT !.eap = e]
  BY <1>1, <1>3, <1>4, <1>5, <1>7
     DEF SyncLowerToPeer, Serving, Shaped, Faithful, Loyal, NewEap
<1>9. PICK f : f = EapRun(e, in.m, in.ub)
  OBVIOUS
<1>10. RunEap(c, in) = [s EXCEPT !.eap = f, !.sm.eapRestart = f.eapRestart]
  BY <1>7, <1>8, <1>9 DEF RunEap, SyncPeerToLower, Serving, Shaped
<1>11. PICK d : d = RunEap(c, in)
  OBVIOUS
<1>12. /\ d.eap = f /\ Shaped(d) /\ d.prof = c.prof /\ d.out = c.out
       /\ d.recvframe = c.recvframe
       /\ d.sm = [c.sm EXCEPT !.eapRestart = f.eapRestart]
  BY <1>8, <1>10, <1>11 DEF Serving, Shaped, NewSm
<1>13. d.sm = [c.sm EXCEPT !.eapRestart = d.sm.eapRestart]
  BY <1>12 DEF Serving, Shaped, NewSm
<1>14. ASSUME r, q = FALSE
       PROVE  Faithful(f, c.recvframe) /\ Beginning(f)
  BY <1>6, <1>9, <1>14, RestartServes
<1>15. ASSUME ~r, q, Fair(c.recvframe), c.eap.reqData = c.recvframe,
              c.recvframe \notin Garbage, ~c.eap.eapFail,
              c.eap.decision # "UNSET"
       PROVE  Faithful(f, c.recvframe) /\ (Beginning(c.eap) => Unwon(f))
  BY <1>6, <1>9, <1>15, RunServes
<1> QED
  BY <1>3, <1>4, <1>11, <1>12, <1>13, <1>14, <1>15

\* REQUEST: the frame in the buffer is read.
LEMMA RequestServes ==
  ASSUME Orderly, NEW c, Serving(c), c.sm.portEnabled, ~c.sm.eapRestart,
         c.sm.eapolEap, ~c.eap.eapFail, c.eap.decision # "UNSET", NEW in
  PROVE  LET d == BeRequest(c, in)
         IN  /\ Tends(c, d) /\ d.sm.beCurState = "REQUEST"
             /\ d.sm.eapolEap /\ d.sm.suppStart = c.sm.suppStart
             /\ Beginning(c.eap) => Unwon(d.eap)
<1>1. PICK p : p = c.recvframe
  OBVIOUS
<1>2. p \in AirFrames /\ Fair(p) /\ p # NullFrame /\ p \notin Garbage
  BY <1>1, EnvironmentAssumption DEF Serving, Orderly, Garbage
<1>3. PICK r : r = [c EXCEPT !.sm.authWhile = 0, !.sm.eapReq = TRUE,
                             !.sm.beCurState = "REQUEST"]
  OBVIOUS
<1>4. /\ Shaped(r) /\ r.eap = c.eap /\ r.recvframe = p /\ r.out = c.out
      /\ r.prof = c.prof
      /\ r.sm = [c.sm EXCEPT !.authWhile = 0, !.eapReq = TRUE,
                             !.beCurState = "REQUEST"]
  BY <1>1, <1>3 DEF Serving, Shaped, NewSm
<1>5. PICK t : t = [r EXCEPT !.eap.reqData = p]
  OBVIOUS
<1>6. TakeFrame(r) = t
  BY <1>2, <1>4, <1>5 DEF TakeFrame
<1>7. /\ Shaped(t) /\ t.sm = r.sm /\ t.recvframe = p /\ t.out = c.out
      /\ t.prof = c.prof /\ t.eap = [c.eap EXCEPT !.reqData = p]
  BY <1>4, <1>5 DEF Shaped
<1>8. /\ Faithful(t.eap, p) /\ t.eap.reqData = p /\ ~t.eap.eapFail
      /\ t.eap.decision # "UNSET" /\ (Beginning(c.eap) => Beginning(t.eap))
  BY <1>1, <1>7
     DEF Serving, Faithful, Loyal, LastOk, Beginning, Unwon, NewEap
<1>9. /\ t.sm.portEnabled /\ ~t.sm.eapRestart /\ t.sm.eapReq
      /\ t.sm.beCurState = "REQUEST" /\ t.sm.eapolEap
      /\ t.sm.suppStart = c.sm.suppStart
      /\ t.sm.initialize = c.sm.initialize
      /\ t.sm.suppAbort = c.sm.suppAbort
  BY <1>4, <1>7 DEF Serving, Shaped, NewSm
<1>10. Serving(t)
  BY <1>2, <1>7, <1>8 DEF Serving
<1>11. PICK d : d = RunEap(t, in)
  OBVIOUS
<1>12. BeRequest(c, in) = d
  BY <1>3, <1>6, <1>11 DEF BeRequest, GetSuppRsp
<1>13. /\ Shaped(d) /\ d.out = c.out /\ d.recvframe = p /\ d.prof = c.prof
       /\ d.sm = [t.sm EXCEPT !.eapRestart = d.sm.eapRestart]
       /\ Faithful(d.eap, p)
       /\ Beginning(c.eap) => Unwon(d.eap)
  <2>1. t.recvframe = p /\ "LEAP" \notin Methods
    BY <1>7 DEF Orderly
  <2>2. /\ Shaped(d) /\ d.out = t.out /\ d.recvframe = p /\ d.prof = t.prof
        /\ d.sm = [t.sm EXCEPT !.eapRestart = d.sm.eapRestart]
    BY <1>9, <1>10, <1>11, <2>1, RunEapServes
  <2>3. Faithful(d.eap, p) /\ (Beginning(t.eap) => Unwon(d.eap))
    BY <1>2, <1>8, <1>9, <1>10, <1>11, <2>1, RunEapServes
  <2> QED
    BY <1>7, <1>8, <2>2, <2>3
<1>14. /\ d.sm.beCurState = "REQUEST" /\ d.sm.eapolEap
       /\ d.sm.suppStart = c.sm.suppStart
       /\ d.sm.initialize = c.sm.initialize
       /\ d.sm.suppAbort = c.sm.suppAbort
  BY <1>7, <1>9, <1>13 DEF Shaped, NewSm
<1>15. Serving(d)
  BY <1>2, <1>10, <1>13 DEF Serving
<1> QED
  BY <1>1, <1>12, <1>13, <1>14, <1>15 DEF Tends

(***************************************************************************)
(* One run of the backend.                                                 *)
(***************************************************************************)
\* Nothing waits to be sent, and the backend is quiet or to be made so.
Rested(e) ==
    /\ ~e.eap.eapResp /\ Won(e)
    /\ BackendQuiet(e) \/ e.sm.suppAbort \/ e.sm.initialize

\* Held with a failure the backend has yet to take note of.
Failing(e) ==
    /\ e.sm.curState = "HELD" /\ e.sm.beCurState = "RECEIVE"
    /\ e.eap.eapFail /\ ~e.eap.eapSuccess /\ ~e.eap.eapResp
    /\ ~e.sm.eapolEap

\* A conversation that goes on.
Talks(e) ==
    /\ e.sm.curState = "AUTHENTICATING" /\ Honest(e)
    /\ e.sm.beCurState \in {"RECEIVE", "REQUEST"}
    /\ ~e.sm.initialize /\ ~e.sm.suppAbort
    /\ e.sm.beCurState = "RECEIVE" => ~e.eap.eapFail

\* A conversation that starts: with a failure, or with a frame.
Opens(e) ==
    /\ e.sm.curState = "AUTHENTICATING" /\ e.sm.beCurState = "IDLE"
    /\ e.sm.suppStart
    /\ \/ e.eap.eapFail /\ ~e.eap.eapSuccess /\ ~e.eap.eapResp
       \/ /\ e.sm.eapolEap /\ Beginning(e.eap)
          /\ ~e.sm.initialize /\ ~e.sm.suppAbort

\* What the port access entity leaves to the backend.
Mid(e) ==
    /\ Serving(e) /\ Mute(e)
    /\ Rested(e) \/ Failing(e) \/ Talks(e) \/ Opens(e)

LEMMA MuteReplies ==
  ASSUME NEW c, Mute(c), NEW d, d.out = c.out
  PROVE  Mute(d) /\ Replies(d)
  BY DEF Mute, Replies

\* Aborted, the backend forgets a success.
LEMMA AbortServes ==
  ASSUME NEW e, Serving(e), Mute(e), ~e.eap.eapResp, ~e.sm.eapRestart,
         e.sm.initialize \/ e.sm.suppAbort, NEW in
  PROVE  Honest(BackendRun(e, in)) /\ Replies(BackendRun(e, in))
<1>1. PICK i : i = BeInitialize(e)
  OBVIOUS
<1>2. /\ Tends(e, i) /\ ~i.eap.eapSuccess /\ ~i.eap.eapResp
      /\ ~i.sm.suppStart /\ i.sm.beCurState = "IDLE"
  BY <1>1, OpsServe
<1>3. BeGlobals(e, in) = i
  BY <1>1, GlobalsWithoutRestart DEF Serving
<1>4. BackendRun(e, in) = i
  BY <1>2, <1>3, BeDoIdleQuiet DEF BackendRun, BeDo
<1> QED
  BY <1>2, <1>4, MuteReplies DEF Honest, Won, Tends

LEMMA RestedServes ==
  ASSUME NEW e, Serving(e), Mute(e), Rested(e), ~e.sm.eapRestart, NEW in
  PROVE  Honest(BackendRun(e, in)) /\ Replies(BackendRun(e, in))
<1>1. CASE e.sm.initialize \/ e.sm.suppAbort
  BY <1>1, AbortServes DEF Rested
<1>2. CASE ~e.sm.initialize /\ ~e.sm.suppAbort
  <2>1. BeGlobals(e, in) = e
    BY <1>2, GlobalsWithoutRestart DEF Serving
  <2>2. ~e.sm.suppStart /\ e.sm.beCurState \in {"UNKNOWN", "IDLE"}
    BY <1>2 DEF Rested, BackendQuiet
  <2>3. BackendRun(e, in) = e
    BY <2>1, <2>2, BeDoIdleQuiet DEF BackendRun, BeDo
  <2> QED
    BY <2>3, MuteReplies DEF Rested, Honest
<1> QED
  BY <1>1, <1>2

LEMMA FailingServes ==
  ASSUME NEW e, Serving(e), Mute(e), Failing(e), ~e.sm.eapRestart, NEW in
  PROVE  Honest(BackendRun(e, in)) /\ Replies(BackendRun(e, in))
<1>1. CASE e.sm.initialize \/ e.sm.suppAbort
  BY <1>1, AbortServes DEF Failing
<1>2. CASE ~e.sm.initialize /\ ~e.sm.suppAbort
  <2>1. BeGlobals(e, in) = e
    BY <1>2, GlobalsWithoutRestart DEF Serving
  <2>2. BackendRun(e, in) = BeDoReceive(e, in)
    BY <2>1 DEF BackendRun, BeDo, Failing
  <2>3. PICK f : f = BeFail(e)
    OBVIOUS
  <2>4. Tends(e, f) /\ f.eap = e.eap /\ ~f.sm.eapolEap
    <3>1. ~f.sm.eapolEap
      BY <2>3 DEF BeFail, BeIdle, Serving, Shaped, NewSm, Failing
    <3> QED
      BY <2>3, <3>1, OpsServe
  <2>5. PICK t : t = TimedOut(f)
    OBVIOUS
  <2>6. Tends(e, t) /\ t.eap = e.eap /\ ~t.sm.eapolEap
    <3>1. PICK b : b = BeTimeout(f)
      OBVIOUS
    <3>2. Tends(f, b) /\ b.eap = f.eap
      BY <2>4, <3>1, OpsServe DEF Tends
    <3>3. ~b.sm.eapolEap
      BY <2>4, <3>1
         DEF BeTimeout, BeIdle, Tends, Serving, Shaped, NewSm
    <3> QED
      BY <2>4, <2>5, <3>1, <3>2, <3>3 DEF TimedOut, Tends
  <2>7. BeDoReceive(e, in) = t
    BY <2>3, <2>5, <2>6
       DEF BeDoReceive, Failed, Succeeded, Heard, Failing
  <2> QED
    BY <2>2, <2>6, <2>7, MuteReplies DEF Honest, Won, Tends, Failing
<1> QED
  BY <1>1, <1>2

\* A frame is read: its answer waits in REQUEST.
LEMMA AskedServes ==
  ASSUME Orderly, NEW c, Serving(c), Mute(c),
         c.sm.curState = "AUTHENTICATING", c.sm.portEnabled,
         ~c.sm.eapRestart, c.sm.eapolEap,
         ~c.eap.eapFail, c.eap.decision # "UNSET", NEW in
  PROVE  Honest(BeRequest(c, in)) /\ Replies(BeRequest(c, in))
<1>1. PICK d : d = BeRequest(c, in)
  OBVIOUS
<1>2. Tends(c, d) /\ d.sm.beCurState = "REQUEST" /\ d.sm.eapolEap
  BY <1>1, RequestServes
<1>3. d.sm.curState = "AUTHENTICATING"
  BY <1>1, OpsPort DEF KeepsPort, Serving
<1> QED
  BY <1>1, <1>2, <1>3, MuteReplies DEF Honest, Won, Tends

LEMMA OpensServes ==
  ASSUME Orderly, NEW e, Serving(e), Mute(e), Opens(e), ~e.sm.eapRestart,
         e.sm.portEnabled, NEW in
  PROVE  Honest(BackendRun(e, in)) /\ Replies(BackendRun(e, in))
<1>1. CASE e.sm.initialize \/ e.sm.suppAbort
  BY <1>1, AbortServes DEF Opens
<1>2. CASE ~e.sm.initialize /\ ~e.sm.suppAbort
  <2>1. BeGlobals(e, in) = e
    BY <1>2, GlobalsWithoutRestart DEF Serving
  <2>2. BackendRun(e, in) = BeDoIdle(e, in)
    BY <2>1 DEF BackendRun, BeDo, Opens
  <2>3. CASE e.eap.eapFail /\ ~e.eap.eapSuccess /\ ~e.eap.eapResp
    <3>1. PICK f : f = BeFail(e)
      OBVIOUS
    <3>2. Tends(e, f) /\ f.eap = e.eap /\ ~f.sm.suppStart
      BY <3>1, OpsServe
    <3>3. BeDoIdle(e, in) = f
      BY <2>3, <3>1, <3>2 DEF BeDoIdle, FailedIfAsked, Failed,
         HeardIfAsked, SucceededIfAsked, Opens
    <3> QED
      BY <2>2, <2>3, <3>2, <3>3, MuteReplies
         DEF Honest, Won, Tends, Opens
  <2>4. CASE e.sm.eapolEap /\ Beginning(e.eap)
    <3>1. /\ ~e.eap.eapFail /\ e.eap.decision # "UNSET"
          /\ e.sm.curState = "AUTHENTICATING" /\ e.sm.suppStart
      BY <2>4 DEF Beginning, Opens
    <3>2. PICK r : r = BeRequest(e, in)
      OBVIOUS
    <3>3. Honest(r) /\ Replies(r)
      BY <2>4, <3>1, <3>2, AskedServes
    <3>4. ~r.eap.eapSuccess
      BY <2>4, <3>1, <3>2, RequestServes DEF Unwon
    <3>5. BeDoIdle(e, in) = r
      BY <2>4, <3>1, <3>2, <3>4 DEF BeDoIdle, FailedIfAsked, Failed,
         HeardIfAsked, Heard, SucceededIfAsked, Succeeded
    <3> QED
      BY <2>2, <3>3, <3>5
  <2> QED
    BY <2>3, <2>4 DEF Opens
<1> QED
  BY <1>1, <1>2

LEMMA TalksServes ==
  ASSUME Orderly, NEW e, Serving(e), Mute(e), Talks(e), ~e.sm.eapRestart,
         e.sm.portEnabled, e.out \in Seq(Sent), ReceiveWaits(e),
         e.eap.decision = "UNSET" => BackendQuiet(e), NEW in
  PROVE  Honest(BackendRun(e, in)) /\ Replies(BackendRun(e, in))
<1>1. /\ ~e.sm.initialize /\ ~e.sm.suppAbort
      /\ e.sm.curState = "AUTHENTICATING" /\ Honest(e)
      /\ e.eap.decision # "UNSET"
  BY DEF Talks, BackendQuiet
<1>2. BeGlobals(e, in) = e
  BY <1>1, GlobalsWithoutRestart DEF Serving
<1>3. CASE e.sm.beCurState = "RECEIVE"
  <2>1. BackendRun(e, in) = BeDoReceive(e, in)
    BY <1>2, <1>3 DEF BackendRun, BeDo
  <2>2. ~e.eap.eapFail /\ ~e.eap.eapSuccess /\ ~e.eap.eapResp
    BY <1>1, <1>3 DEF Talks, ReceiveWaits, Honest
  <2>3. PICK t : t = TimedOut(e)
    OBVIOUS
  <2>4. /\ Tends(e, t) /\ t.eap = e.eap
        /\ t.sm.eapolEap = e.sm.eapolEap
        /\ t.sm.eapRestart = e.sm.eapRestart
        /\ t.sm.portEnabled = e.sm.portEnabled
        /\ t.sm.curState = "AUTHENTICATING"
    <3>1. PICK b : b = BeTimeout(e)
      OBVIOUS
    <3>2. /\ Tends(e, b) /\ b.eap = e.eap
          /\ b.sm.eapolEap = e.sm.eapolEap
          /\ b.sm.eapRestart = e.sm.eapRestart
          /\ b.sm.portEnabled = e.sm.portEnabled
      <4>1. Tends(e, b) /\ b.eap = e.eap
        BY <3>1, OpsServe
      <4>2. /\ b.sm.eapolEap = e.sm.eapolEap
            /\ b.sm.eapRestart = e.sm.eapRestart
            /\ b.sm.portEnabled = e.sm.portEnabled
        BY <3>1 DEF BeTimeout, BeIdle, Serving, Shaped, NewSm
      <4> QED
        BY <4>1, <4>2
    <3>3. b.sm.curState = "AUTHENTICATING"
      BY <1>1, <3>1, OpsPort DEF KeepsPort, Serving
    <3>4. Tends(e, e)
      BY DEF Tends
    <3> QED
      BY <1>1, <2>3, <3>1, <3>2, <3>3, <3>4 DEF TimedOut
  <2>5. BeDoReceive(e, in) = Heard(t, in)
    BY <2>2, <2>3, <2>4 DEF BeDoReceive, Failed, Succeeded
  <2>6. Mute(t) /\ Replies(t)
    BY <2>4, MuteReplies DEF Tends
  <2>7. CASE t.sm.eapolEap
    <3>1. Honest(BeRequest(t, in)) /\ Replies(BeRequest(t, in))
      BY <1>1, <2>2, <2>4, <2>6, <2>7, AskedServes DEF Tends
    <3> QED
      BY <2>1, <2>5, <2>7, <3>1 DEF Heard
  <2>8. CASE ~t.sm.eapolEap
    BY <2>1, <2>2, <2>4, <2>5, <2>6, <2>8 DEF Heard, Honest, Won, Tends
  <2> QED
    BY <2>7, <2>8
<1>4. CASE e.sm.beCurState = "REQUEST"
  <2>1. BackendRun(e, in) = BeDoRequest(e)
    BY <1>2, <1>4 DEF BackendRun, BeDo
  <2>2. PICK f : f = Failed(e)
    OBVIOUS
  <2>3. Tends(e, f)
    BY <2>2, OpsServe DEF Failed, Tends
  <2>4. PICK s : s = Silent(f)
    OBVIOUS
  <2>5. Serving(s) /\ s.out = e.out /\ Mute(s) /\ Replies(s)
    BY <2>3, <2>4, OpsServe, MuteReplies DEF Silent, Tends
  <2>6. PICK a : a = Answered(s)
    OBVIOUS
  <2>7. Serving(a) /\ Replies(a) /\ ~a.eap.eapResp
    BY <2>5, <2>6, ResponseServes DEF Answered
  <2>8. PICK d : d = Succeeded(a)
    OBVIOUS
  <2>9. /\ Serving(d) /\ Replies(d) /\ ~d.eap.eapResp
        /\ d.eap.eapSuccess => d.sm.suppSuccess
    BY <2>7, <2>8, OpsServe DEF Succeeded, Tends, Replies
  <2>10. BackendRun(e, in) = d
    BY <2>1, <2>2, <2>4, <2>6, <2>8 DEF BeDoRequest
  <2>11. d.sm.curState = "AUTHENTICATING"
    BY <1>1, <2>10, BackendPort DEF KeepsPort, Serving
  <2> QED
    BY <2>9, <2>10, <2>11 DEF Honest, Won
<1> QED
  BY <1>3, <1>4 DEF Talks

\* The backend answers the frame it has, and nothing else.
LEMMA BackendServes ==
  ASSUME Orderly, NEW e, Mid(e), ~e.sm.eapRestart, e.sm.portEnabled,
         e.out \in Seq(Sent), ReceiveWaits(e),
         e.eap.decision = "UNSET" => BackendQuiet(e), NEW in
  PROVE  Honest(BackendRun(e, in)) /\ Replies(BackendRun(e, in))
<1>1. CASE Rested(e)
  BY <1>1, RestedServes DEF Mid
<1>2. CASE Failing(e)
  BY <1>2, FailingServes DEF Mid
<1>3. CASE Talks(e)
  BY <1>3, TalksServes DEF Mid
<1>4. CASE Opens(e)
  BY <1>4, OpensServes DEF Mid
<1> QED
  BY <1>1, <1>2, <1>3, <1>4 DEF Mid

(***************************************************************************)
(* The port access entity.                                                 *)
(***************************************************************************)
\* A change of state that leaves the EAP machine and the frame alone.
Alters(c, d) ==
    /\ Shaped(d) /\ d.eap = c.eap /\ d.recvframe = c.recvframe
    /\ d.prof = c.prof
    /\ Mute(c) => Mute(d)
    /\ d.sm.eapolEap => c.sm.eapolEap
    /\ d.sm.beCurState = c.sm.beCurState
    /\ d.sm.suppAbort = c.sm.suppAbort
    /\ d.sm.initialize = c.sm.initialize

LEMMA AltersServes ==
  ASSUME NEW c, Serving(c), Mute(c), NEW d, Alters(c, d)
  PROVE  Serving(d) /\ Mute(d)
  BY DEF Alters, Serving

LEMMA ChangesAlter ==
  ASSUME NEW c, Shaped(c), c.out \in Seq(Sent)
  PROVE  /\ LET d == ToAuthenticated(c)
            IN  /\ Alters(c, d) /\ d.sm.curState = "AUTHENTICATED"
                /\ d.sm.suppStart = c.sm.suppStart
         /\ c.sm.curState = "AUTHENTICATING" =>
               LET d == ToHeld(c)
               IN  /\ Alters(c, d) /\ d.sm.curState = "HELD"
                   /\ ~d.sm.eapolEap /\ d.sm.suppStart = c.sm.suppStart
         /\ c.sm.curState \in {"CONNECTING", "RESTART"} =>
               LET d == ToAuthenticating(c)
               IN  /\ Alters(c, d) /\ d.sm.curState = "AUTHENTICATING"
                   /\ d.sm.suppStart /\ d.sm.eapolEap = c.sm.eapolEap
         /\ LET d == TxStart(c) IN Alters(c, d) /\ d.sm = c.sm
<1> USE DEF Shaped, NewSm
<1>1. ASSUME NEW d, d.out = c.out PROVE Mute(c) => Mute(d)
  BY <1>1 DEF Mute
<1>2. LET d == ToAuthenticated(c)
      IN  /\ Alters(c, d) /\ d.sm.curState = "AUTHENTICATED"
          /\ d.sm.suppStart = c.sm.suppStart
  BY <1>1 DEF ToAuthenticated, Alters
<1>3. ASSUME c.sm.curState = "AUTHENTICATING"
      PROVE  LET d == ToHeld(c)
             IN  /\ Alters(c, d) /\ d.sm.curState = "HELD"
                 /\ ~d.sm.eapolEap /\ d.sm.suppStart = c.sm.suppStart
  BY <1>1, <1>3 DEF ToHeld, Alters
<1>4. ASSUME c.sm.curState \in {"CONNECTING", "RESTART"}
      PROVE  LET d == ToAuthenticating(c)
             IN  /\ Alters(c, d) /\ d.sm.curState = "AUTHENTICATING"
                 /\ d.sm.suppStart /\ d.sm.eapolEap = c.sm.eapolEap
  <2>1. PICK v : v = ForgetVerdict(c)
    OBVIOUS
  <2>2. Alters(c, v) /\ v.sm.eapolEap = c.sm.eapolEap
    BY <1>1, <2>1 DEF ForgetVerdict, Alters
  <2>3. PICK d : d = [v EXCEPT !.sm.startCount = 0, !.sm.suppStart = TRUE,
                               !.sm.curState = "AUTHENTICATING"]
    OBVIOUS
  <2>4. d.out = v.out
    BY <2>2, <2>3 DEF Alters
  <2>5. Mute(v) => Mute(d)
    BY <2>4 DEF Mute
  <2>6. /\ Alters(c, d) /\ d.sm.curState = "AUTHENTICATING"
        /\ d.sm.suppStart /\ d.sm.eapolEap = c.sm.eapolEap
    BY <2>2, <2>3, <2>5 DEF Alters
  <2>7. ToAuthenticating(c) = d
    BY <1>4, <2>1, <2>3 DEF ToAuthenticating
  <2> QED
    BY <2>6, <2>7
<1>5. LET d == TxStart(c) IN Alters(c, d) /\ d.sm = c.sm
  <2>1. PICK d : d = TxStart(c)
    OBVIOUS
  <2>2. /\ Shaped(d) /\ d.eap = c.eap /\ d.recvframe = c.recvframe
        /\ d.prof = c.prof /\ d.sm = c.sm
        /\ d.out = Append(c.out, [kind |-> "START", resp |-> NullResp])
    BY <2>1 DEF TxStart, Transmit
  <2>3. Mute(c) => Mute(d)
    BY <2>2 DEF Mute
  <2> QED
    BY <2>1, <2>2, <2>3 DEF Alters
<1> QED
  BY <1>2, <1>3, <1>4, <1>5

\* Disconnected, the backend is to be aborted.
LEMMA DisconnectedRests ==
  ASSUME NEW c, Serving(c), Mute(c), ~c.eap.eapResp
  PROVE  Mid(ToDisconnected(c))
<1>1. PICK e : e = [c EXCEPT !.sm.sPortMode = "AUTO", !.sm.startCount = 0,
                             !.sm.logoffSent = FALSE]
  OBVIOUS
<1>2. /\ Shaped(e) /\ e.eap = c.eap /\ e.recvframe = c.recvframe
      /\ e.prof = c.prof /\ e.out = c.out
      /\ e.sm.eapolEap = c.sm.eapolEap
  BY <1>1 DEF Serving, Shaped, NewSm
<1>3. PICK d : d = [e EXCEPT !.sm.suppPortStatus = "UNAUTHORIZED",
                             !.sm.suppAbort = TRUE,
                             !.sm.curState = "DISCONNECTED"]
  OBVIOUS
<1>4. /\ Shaped(d) /\ d.eap = c.eap /\ d.recvframe = c.recvframe
      /\ d.prof = c.prof /\ d.out = c.out
      /\ d.sm.eapolEap = c.sm.eapolEap /\ d.sm.suppAbort
  BY <1>2, <1>3 DEF Shaped, NewSm
<1>5. ToDisconnected(c) = d
  BY <1>1, <1>3 DEF ToDisconnected, Serving, Shaped, NewSm
<1> QED
  BY <1>4, <1>5, MuteReplies DEF Mid, Rested, Won, Serving

\* RESTART: the EAP machine begins, and the frame is kept for it.
LEMMA RestartBegins ==
  ASSUME Orderly, NEW c, Serving(c), Mute(c), c.out \in Seq(Sent),
         c.sm.portEnabled, c.sm.eapolEap,
         c.sm.curState \in {"AUTHENTICATED", "CONNECTING", "HELD"},
         NEW in, Entered(ToRestart(c, in))
  PROVE  Mid(ToRestart(c, in))
<1>1. PICK m : m = [c EXCEPT !.sm.eapRestart = TRUE,
                             !.sm.curState = "RESTART",
                             !.sm.portControl = "AUTO", !.sm.eapReq = FALSE]
  OBVIOUS
<1> DEFINE S(x) == /\ Serving(x) /\ x.out = c.out
                   /\ x.sm.portEnabled /\ x.sm.eapolEap /\ x.sm.eapRestart
                   /\ x.sm.eapReq = FALSE
<1>2. S(m)
  BY <1>1 DEF Serving, Shaped, NewSm
<1>3. ASSUME NEW x, S(x)
      PROVE  LET i == BeInitialize(x)
             IN  /\ S(i) /\ i.sm.beCurState = "IDLE" /\ ~i.sm.suppStart
                 /\ ~i.sm.initialize /\ ~i.sm.suppAbort
  <2>1. PICK i : i = BeInitialize(x)
    OBVIOUS
  <2>2. Tends(x, i) /\ ~i.sm.suppStart /\ i.sm.beCurState = "IDLE"
    BY <1>3, <2>1, OpsServe
  <2>3. /\ i.sm.portEnabled /\ i.sm.eapolEap /\ i.sm.eapRestart
        /\ i.sm.eapReq = FALSE /\ ~i.sm.initialize /\ ~i.sm.suppAbort
    BY <1>3, <2>1
       DEF BeInitialize, AbortSupp, BeIdle, Serving, Shaped, NewSm
  <2> QED
    BY <1>3, <2>1, <2>2, <2>3 DEF Tends
<1> HIDE DEF S
<1>4. PICK a : a = Aborted(m)
  OBVIOUS
<1>5. S(a)
  BY <1>2, <1>3, <1>4 DEF Aborted
<1>6. PICK i : i = BeInitialize(a)
  OBVIOUS
<1>7. /\ S(i) /\ i.sm.beCurState = "IDLE" /\ ~i.sm.suppStart
      /\ ~i.sm.initialize /\ ~i.sm.suppAbort
  BY <1>3, <1>5, <1>6
<1>8. PICK g : g = RunEap(i, in)
  OBVIOUS
<1>9. /\ Shaped(g) /\ g.out = c.out /\ g.recvframe = i.recvframe
      /\ g.prof = i.prof
      /\ g.sm = [i.sm EXCEPT !.eapRestart = g.sm.eapRestart]
      /\ Faithful(g.eap, g.recvframe) /\ Beginning(g.eap)
  <2>1. /\ Serving(i) /\ i.out = c.out /\ i.sm.portEnabled
        /\ i.sm.eapRestart /\ i.sm.eapReq = FALSE
    BY <1>7 DEF S
  <2> QED
    BY <1>8, <2>1, RunEapServes DEF Orderly
<1>10. /\ g.sm.beCurState = "IDLE" /\ ~g.sm.suppStart /\ g.sm.eapolEap
       /\ ~g.sm.initialize /\ ~g.sm.suppAbort
  BY <1>7, <1>9 DEF S, Serving, Shaped, NewSm
<1>11. Serving(g)
  BY <1>7, <1>9 DEF S, Serving
<1>12. BackendRun(m, in) = g
  <2>1. a.sm.eapRestart
    BY <1>5 DEF S
  <2>2. BeGlobals(m, in) = g
    BY <1>4, <1>6, <1>8, <2>1 DEF BeGlobals, Restarted
  <2> QED
    BY <1>10, <2>2, BeDoIdleQuiet DEF BackendRun, BeDo
<1>13. g.sm.curState = "RESTART"
  <2>1. KeepsPort(m, g)
    BY <1>2, <1>12, BackendPort DEF S, Serving
  <2>2. m.sm.curState = "RESTART"
    BY <1>1 DEF Serving, Shaped, NewSm
  <2> QED
    BY <2>1, <2>2 DEF KeepsPort
<1>14. PICK q : q = c.sm.eapReq
  OBVIOUS
<1>15. PICK r : r = [g EXCEPT !.sm.eapReq = q]
  OBVIOUS
<1>16. /\ Serving(r) /\ Mute(r) /\ r.out \in Seq(Sent)
       /\ r.eap = g.eap /\ r.sm.curState = "RESTART"
       /\ r.sm.beCurState = "IDLE" /\ r.sm.eapolEap
       /\ ~r.sm.initialize /\ ~r.sm.suppAbort
  BY <1>9, <1>10, <1>11, <1>13, <1>15 DEF Serving, Shaped, NewSm, Mute
<1>17. ToRestart(c, in) = DoRestart(r)
  BY <1>1, <1>12, <1>14, <1>15 DEF ToRestart
<1>18. PICK d : d = ToAuthenticating(r)
  OBVIOUS
<1>19. DoRestart(r) = d
  BY <1>16, <1>17, <1>18 DEF DoRestart, Entered
<1>20. /\ Alters(r, d) /\ d.sm.curState = "AUTHENTICATING"
       /\ d.sm.suppStart /\ d.sm.eapolEap
  BY <1>16, <1>18, ChangesAlter DEF Serving
<1>21. Serving(d) /\ Mute(d) /\ Opens(d)
  BY <1>9, <1>16, <1>20, AltersServes DEF Alters, Opens
<1> QED
  BY <1>17, <1>19, <1>21 DEF Mid

\* CONNECTING: with a frame a conversation starts, without one none is on.
LEMMA ConnectingBegins ==
  ASSUME Orderly, NEW c, Serving(c), Mute(c), c.out \in Seq(Sent),
         c.sm.portEnabled,
         c.sm.curState \in {"CONNECTING", "HELD", "DISCONNECTED",
                            "AUTHENTICATING"},
         \/ c.sm.eapolEap
         \/ /\ ~c.eap.eapResp
            /\ BackendQuiet(c) \/ c.sm.suppAbort \/ c.sm.initialize
            /\ c.eap.eapSuccess => c.sm.suppAbort \/ c.sm.initialize,
         NEW in, Entered(ToConnecting(c, in))
  PROVE  Mid(ToConnecting(c, in))
<1>1. PICK d : d = [c EXCEPT !.sm.curState = "CONNECTING"]
  OBVIOUS
<1> DEFINE S(x) == /\ Serving(x) /\ Mute(x) /\ x.out \in Seq(Sent)
                   /\ x.sm.portEnabled /\ x.eap = c.eap
                   /\ x.sm.curState = "CONNECTING"
                   /\ x.sm.eapolEap = c.sm.eapolEap
                   /\ x.sm.beCurState = c.sm.beCurState
                   /\ x.sm.suppStart = c.sm.suppStart
                   /\ x.sm.suppAbort = c.sm.suppAbort
                   /\ x.sm.initialize = c.sm.initialize
<1>2. S(d)
  BY <1>1 DEF Serving, Shaped, NewSm, Mute
<1>3. PICK w : w = [d EXCEPT !.sm.startWhen = StartPeriod]
  OBVIOUS
<1>4. S(w)
  BY <1>2, <1>3 DEF Serving, Shaped, NewSm, Mute
<1>5. PICK s : s = TxStart(w)
  OBVIOUS
<1>6. S(s)
  <2>1. Alters(w, s) /\ s.sm = w.sm
    BY <1>4, <1>5, ChangesAlter DEF Serving
  <2>2. s.out \in Seq(Sent)
    <3>1. s.out = Append(w.out, [kind |-> "START", resp |-> NullResp])
      BY <1>4, <1>5 DEF TxStart, Transmit, Serving, Shaped
    <3>2. [kind |-> "START", resp |-> NullResp] \in Sent
      BY ConstantTypes DEF Sent
    <3> QED
      BY <1>4, <3>1, <3>2
  <2>3. Serving(s) /\ Mute(s)
    BY <1>4, <2>1, AltersServes
  <2> QED
    BY <1>4, <2>1, <2>2, <2>3 DEF Alters
<1>7. PICK z : z = [s EXCEPT !.sm.startCount = (@ + 1) % 256]
  OBVIOUS
<1>8. S(z)
  BY <1>6, <1>7 DEF Serving, Shaped, NewSm, Mute
<1>9. ToConnecting(c, in) = IF d.sm.eapolEap THEN ToRestart(d, in)
                            ELSE IF d.conn = "NONE" THEN w ELSE z
  BY <1>1, <1>3, <1>5, <1>7 DEF ToConnecting
<1>10. CASE c.sm.eapolEap
  BY <1>2, <1>9, <1>10, RestartBegins
<1>11. CASE ~c.sm.eapolEap
  <2>1. ASSUME NEW x, S(x) PROVE Mid(x)
    BY <1>11, <2>1 DEF Mid, Rested, Won, BackendQuiet
  <2> QED
    BY <1>2, <1>4, <1>8, <1>9, <1>11, <2>1
<1> QED
  BY <1>10, <1>11

\* A port access entity in no conversation has nothing that waits.
LEMMA ElsewhereRests ==
  ASSUME NEW c, Honest(c), Prompt(c), Follow(c),
         c.sm.curState \in {"DISCONNECTED", "CONNECTING", "HELD"}
  PROVE  /\ ~c.eap.eapResp
         /\ BackendQuiet(c) \/ c.sm.suppAbort
         /\ c.eap.eapSuccess => c.sm.suppAbort \/ c.sm.initialize
         /\ c.sm.curState # "DISCONNECTED" =>
               /\ BackendQuiet(c) /\ c.sm.beCurState = "IDLE"
               /\ ~c.eap.eapSuccess
               /\ ~c.sm.initialize /\ ~c.sm.suppAbort
<1>1. ~c.eap.eapResp
  BY DEF Honest
<1>2. BackendQuiet(c) \/ c.sm.suppAbort
  BY DEF Follow, Follows
<1>3. c.eap.eapSuccess => c.sm.suppAbort \/ c.sm.initialize
  BY DEF Honest, Won
<1>4. c.sm.curState # "DISCONNECTED" =>
         /\ ~c.sm.initialize /\ ~c.sm.suppAbort
         /\ c.sm.beCurState # "UNKNOWN"
  BY DEF Prompt
<1> QED
  BY <1>1, <1>2, <1>3, <1>4 DEF BackendQuiet

LEMMA ConnectingServes ==
  ASSUME Orderly, NEW c, Honest(c), Mute(c), c.out \in Seq(Sent),
         Prompt(c), Follow(c), c.sm.curState = "CONNECTING",
         NEW in, Entered(DoConnecting(c, in))
  PROVE  \/ Mid(DoConnecting(c, in))
         \/ DoConnecting(c, in) = ToForceAuth(c)
<1>1. /\ ~c.eap.eapResp /\ BackendQuiet(c) /\ c.sm.beCurState = "IDLE"
      /\ ~c.eap.eapSuccess /\ ~c.sm.initialize /\ ~c.sm.suppAbort
      /\ c.sm.portEnabled /\ Serving(c)
  BY ElsewhereRests DEF Prompt, Honest
<1>2. PICK s : s = TxStart(c)
  OBVIOUS
<1>3. /\ Serving(s) /\ Mute(s) /\ s.sm = c.sm /\ s.eap = c.eap
      /\ s.out \in Seq(Sent)
  <2>1. Alters(c, s) /\ s.sm = c.sm
    BY <1>1, <1>2, ChangesAlter DEF Serving
  <2>2. s.out = Append(c.out, [kind |-> "START", resp |-> NullResp])
    BY <1>1, <1>2 DEF TxStart, Transmit, Serving, Shaped
  <2>3. [kind |-> "START", resp |-> NullResp] \in Sent
    BY ConstantTypes DEF Sent
  <2>4. s.out \in Seq(Sent)
    BY <2>2, <2>3
  <2> QED
    BY <1>1, <2>1, <2>4, AltersServes DEF Alters
<1>4. CASE DoConnecting(c, in) = ToConnecting(s, in)
  <2>1. BackendQuiet(s)
    BY <1>1, <1>3 DEF BackendQuiet
  <2> QED
    BY <1>1, <1>3, <1>4, <2>1, ConnectingBegins
<1>5. CASE /\ DoConnecting(c, in) = ToAuthenticating(c)
           /\ c.eap.eapSuccess \/ c.eap.eapFail
  <2>1. PICK d : d = ToAuthenticating(c)
    OBVIOUS
  <2>2. /\ Alters(c, d) /\ d.sm.curState = "AUTHENTICATING"
        /\ d.sm.suppStart
    BY <1>1, <2>1, ChangesAlter DEF Serving
  <2>3. Serving(d) /\ Mute(d)
    BY <1>1, <2>2, AltersServes
  <2>4. Opens(d)
    BY <1>1, <1>5, <2>2 DEF Opens, Alters
  <2> QED
    BY <1>5, <2>1, <2>3, <2>4 DEF Mid
<1>6. CASE DoConnecting(c, in) = ToRestart(c, in) /\ c.sm.eapolEap
  BY <1>1, <1>6, RestartBegins
<1>7. CASE DoConnecting(c, in) = c
  BY <1>1, <1>7 DEF Mid, Rested, Honest
<1> QED
  BY <1>2, <1>4, <1>5, <1>6, <1>7 DEF DoConnecting

LEMMA WaitingServes ==
  ASSUME Orderly, NEW c, Honest(c), Mute(c), c.out \in Seq(Sent),
         Prompt(c), Follow(c),
         c.sm.curState \in {"DISCONNECTED", "HELD"},
         NEW in, Entered(DoPae(c, in))
  PROVE  Mid(DoPae(c, in))
<1>1. /\ ~c.eap.eapResp /\ (BackendQuiet(c) \/ c.sm.suppAbort)
      /\ c.eap.eapSuccess => c.sm.suppAbort \/ c.sm.initialize
      /\ c.sm.portEnabled /\ Serving(c)
  BY ElsewhereRests DEF Prompt, Honest
<1>2. CASE DoPae(c, in) = ToConnecting(c, in)
  BY <1>1, <1>2, ConnectingBegins
<1>3. CASE DoPae(c, in) = c
  BY <1>1, <1>3 DEF Mid, Rested, Honest
<1>4. CASE /\ c.sm.curState = "HELD" /\ c.sm.eapolEap
           /\ DoPae(c, in) = ToRestart(c, in)
  BY <1>1, <1>4, RestartBegins
<1> QED
  BY <1>2, <1>3, <1>4 DEF DoPae, DoDisconnected, DoHeld

LEMMA AuthenticatingServes ==
  ASSUME Orderly, NEW c, Honest(c), Mute(c), c.out \in Seq(Sent),
         Prompt(c), Follow(c), SuccessHolds(c),
         c.sm.curState = "AUTHENTICATING",
         NEW in, Entered(DoAuthenticating(c, in))
  PROVE  Mid(DoAuthenticating(c, in))
<1>1. /\ ~c.sm.initialize /\ ~c.sm.suppAbort /\ c.sm.portEnabled
      /\ Serving(c) /\ Shaped(c) /\ VerdictQuiets(c)
  BY DEF Prompt, Honest, Serving, Follow
<1>2. /\ c.eap.eapResp => c.sm.beCurState = "REQUEST"
      /\ c.eap.eapSuccess => \/ c.sm.beCurState = "REQUEST"
                             \/ c.sm.suppSuccess
  BY <1>1 DEF Honest, Won
<1>3. CASE c.sm.suppSuccess
  <2>1. BackendQuiet(c)
    BY <1>3 DEF SuccessHolds
  <2>2. ~c.eap.eapResp
    BY <1>2, <2>1 DEF BackendQuiet
  <2>3. PICK d : d = ToAuthenticated(c)
    OBVIOUS
  <2>4. /\ Alters(c, d) /\ d.sm.curState = "AUTHENTICATED"
        /\ d.sm.suppStart = c.sm.suppStart
    BY <1>1, <2>3, ChangesAlter
  <2>5. Serving(d) /\ Mute(d)
    BY <1>1, <2>4, AltersServes
  <2>6. Rested(d)
    BY <2>1, <2>2, <2>4 DEF Rested, Won, BackendQuiet, Alters
  <2> QED
    BY <1>3, <2>3, <2>5, <2>6 DEF DoAuthenticating, Mid
<1>4. CASE ~c.sm.suppSuccess /\ c.sm.suppFail
  <2>1. BackendQuiet(c) \/ (c.sm.beCurState = "RECEIVE" /\ c.eap.eapFail)
    BY <1>1, <1>4 DEF VerdictQuiets
  <2>2. ~c.eap.eapResp /\ ~c.eap.eapSuccess
    BY <1>2, <1>4, <2>1 DEF BackendQuiet
  <2>3. PICK d : d = ToHeld(c)
    OBVIOUS
  <2>4. /\ Alters(c, d) /\ d.sm.curState = "HELD" /\ ~d.sm.eapolEap
        /\ d.sm.suppStart = c.sm.suppStart
    BY <1>1, <2>3, ChangesAlter
  <2>5. Serving(d) /\ Mute(d)
    BY <1>1, <2>4, AltersServes
  <2>6. Rested(d) \/ Failing(d)
    BY <2>1, <2>2, <2>4
       DEF Rested, Failing, Won, BackendQuiet, Alters
  <2> QED
    BY <1>4, <2>3, <2>5, <2>6 DEF DoAuthenticating, Mid
<1>5. CASE ~c.sm.suppSuccess /\ ~c.sm.suppFail /\ c.sm.suppTimeout
  <2>1. BackendQuiet(c) \/ c.sm.eapolEap
    BY <1>1, <1>5 DEF VerdictQuiets
  <2>2. \/ c.sm.eapolEap
        \/ ~c.eap.eapResp /\ BackendQuiet(c) /\ ~c.eap.eapSuccess
    BY <1>2, <1>5, <2>1 DEF BackendQuiet
  <2>3. DoAuthenticating(c, in) = ToConnecting(c, in)
    BY <1>5 DEF DoAuthenticating
  <2> QED
    BY <1>1, <2>2, <2>3, ConnectingBegins
<1>6. CASE ~Verdict(c)
  <2>1. c.sm.beCurState \in {"RECEIVE", "REQUEST"}
    BY <1>6 DEF Prompt, Waits
  <2>2. c.sm.beCurState = "RECEIVE" => ~c.eap.eapFail
    BY <1>1, <1>6 DEF VerdictQuiets, Verdict
  <2>3. DoAuthenticating(c, in) = c
    BY <1>6 DEF DoAuthenticating, Verdict
  <2> QED
    BY <1>1, <2>1, <2>2, <2>3 DEF Mid, Talks
<1> QED
  BY <1>3, <1>4, <1>5, <1>6 DEF Verdict

LEMMA AuthenticatedServes ==
  ASSUME Orderly, NEW c, Honest(c), Mute(c), c.out \in Seq(Sent),
         Prompt(c), SuccessHolds(c),
         c.sm.curState = "AUTHENTICATED",
         NEW in, Entered(DoAuthenticated(c, in))
  PROVE  Mid(DoAuthenticated(c, in))
<1>1. /\ BackendQuiet(c) /\ ~c.eap.eapResp /\ c.sm.portEnabled
      /\ Serving(c) /\ DOMAIN c.eap = DOMAIN NewEap
  BY DEF Prompt, Honest, SuccessHolds, Serving, Faithful, Loyal
<1>2. CASE ~c.sm.eapolEap
  BY <1>1, <1>2 DEF DoAuthenticated, Mid, Rested, Honest
<1>3. CASE c.sm.eapolEap /\ c.recvframe.code = "SUCCESS"
  <2>1. PICK k : k = [c EXCEPT !.sm.eapolEap = FALSE]
    OBVIOUS
  <2>2. /\ Shaped(k) /\ k.eap = c.eap /\ k.recvframe = c.recvframe
        /\ k.prof = c.prof /\ k.out = c.out /\ ~k.sm.eapolEap
        /\ k.sm.curState = "AUTHENTICATED"
        /\ k.sm.beCurState = c.sm.beCurState
        /\ k.sm.suppStart = c.sm.suppStart
    BY <1>1, <2>1 DEF Serving, Shaped, NewSm
  <2>3. PICK f : f = IF k.recvframe = NullFrame \/ k.eap.reqData = NullFrame
                     THEN k.eap.reqData ELSE FreedFrame
    OBVIOUS
  <2>4. PICK d : d = [k EXCEPT !.recvframe = NullFrame, !.eap.reqData = f]
    OBVIOUS
  <2>5. /\ Shaped(d) /\ d.sm = k.sm /\ d.prof = k.prof /\ d.out = c.out
        /\ d.eap = [c.eap EXCEPT !.reqData = f]
    BY <2>2, <2>4 DEF Shaped
  <2>6. DoAuthenticated(c, in) = d
    BY <1>3, <2>1, <2>2, <2>3, <2>4
       DEF DoAuthenticated, ReleaseFrame, Shaped
  <2>7. Faithful(d.eap, d.recvframe) /\ ~d.eap.eapResp
    BY <1>1, <2>5 DEF Serving, Faithful, Loyal, LastOk, NewEap
  <2>8. Serving(d) /\ Rested(d)
    BY <1>1, <2>2, <2>5, <2>7 DEF Serving, Rested, Won, BackendQuiet
  <2> QED
    BY <2>5, <2>6, <2>8, MuteReplies DEF Mid
<1>4. CASE c.sm.eapolEap /\ c.recvframe.code # "SUCCESS"
  <2>1. c.recvframe.code \notin {"NULL", "OTHER"}
    BY <1>1, <1>4 DEF Serving, Orderly, Fair
  <2>2. DoAuthenticated(c, in) = ToRestart(c, in)
    BY <1>4, <2>1 DEF DoAuthenticated
  <2> QED
    BY <1>1, <1>4, <2>2, RestartBegins
<1> QED
  BY <1>2, <1>3, <1>4

\* What the port access entity leaves to the backend.
LEMMA PaeServes ==
  ASSUME Orderly, NEW c, Honest(c), Mute(c), c.out \in Seq(Sent),
         Prompt(c), Follow(c), SuccessHolds(c), ~Forced(c),
         ~c.sm.userLogoff,
         c.sm.curState \in PaeStateNames \ {"RESTART", "S_FORCE_UNAUTH"},
         NEW in, Entered(DoPae(c, in))
  PROVE  Mid(DoPae(c, in)) \/ DoPae(c, in) = ToForceAuth(c)
<1>1. CASE c.sm.curState = "LOGOFF"
  <2>1. DoPae(c, in) = ToDisconnected(c)
    BY <1>1 DEF DoPae, DoLogoff
  <2>2. Serving(c) /\ ~c.eap.eapResp
    BY <1>1 DEF Honest
  <2> QED
    BY <2>1, <2>2, DisconnectedRests
<1>2. CASE c.sm.curState = "CONNECTING"
  BY <1>2, ConnectingServes DEF DoPae
<1>3. CASE c.sm.curState = "AUTHENTICATED"
  BY <1>3, AuthenticatedServes DEF DoPae
<1>4. CASE c.sm.curState \in {"HELD", "DISCONNECTED"}
  BY <1>4, WaitingServes
<1>5. CASE c.sm.curState = "AUTHENTICATING"
  BY <1>5, AuthenticatingServes DEF DoPae
<1> QED
  BY <1>1, <1>2, <1>3, <1>4, <1>5 DEF PaeStateNames, Forced

(***************************************************************************)
(* One run of the machines.                                                *)
(***************************************************************************)
\* A second changes neither the EAP machine nor the frame.
LEMMA TickLeaves ==
  ASSUME NEW c, Shaped(c), ~c.sm.userLogoff,
         c.sm.portControl # "FORCE_UNAUTHORIZED"
  PROVE  LET t == TickedOn(c)
         IN  /\ Shaped(t) /\ t.eap = c.eap /\ t.out = c.out
             /\ t.recvframe = c.recvframe /\ t.prof = c.prof
             /\ t.sm.beCurState = c.sm.beCurState
             /\ t.sm.initialize = c.sm.initialize
             /\ t.sm.suppSuccess = c.sm.suppSuccess
             /\ t.sm.eapolEap = c.sm.eapolEap
<1> USE DEF Shaped, NewSm
<1> DEFINE S(d) == /\ Shaped(d) /\ d.eap = c.eap /\ d.out = c.out
                   /\ d.recvframe = c.recvframe /\ d.prof = c.prof
                   /\ d.sm.beCurState = c.sm.beCurState
                   /\ d.sm.initialize = c.sm.initialize
                   /\ d.sm.suppSuccess = c.sm.suppSuccess
                   /\ d.sm.eapolEap = c.sm.eapolEap
                   /\ ~d.sm.userLogoff
                   /\ d.sm.portControl # "FORCE_UNAUTHORIZED"
<1>1. S(TimerTick(c))
  <2>1. PICK x : x = DecIfNz(c.sm.authWhile)
    OBVIOUS
  <2>2. PICK y : y = DecIfNz(c.sm.heldWhile)
    OBVIOUS
  <2>3. PICK z : z = DecIfNz(c.sm.startWhen)
    OBVIOUS
  <2>4. PICK k : k = [c EXCEPT !.sm.authWhile = x, !.sm.heldWhile = y]
    OBVIOUS
  <2>5. S(k)
    BY <2>4
  <2>6. PICK d : d = [k EXCEPT !.sm.startWhen = z, !.sm.tick = FALSE]
    OBVIOUS
  <2>7. S(d)
    BY <2>5, <2>6
  <2>8. TimerTick(c) = d
    BY <2>1, <2>2, <2>3, <2>4, <2>6 DEF TimerTick
  <2> HIDE DEF S
  <2> QED
    BY <2>7, <2>8
<1>2. ASSUME NEW d, S(d) PROVE S(ToForceAuth(d))
  BY <1>2 DEF ToForceAuth
<1>3. ASSUME NEW d, S(d) PROVE S(ToDisconnected(d))
  <2>1. PICK e : e = [d EXCEPT !.sm.sPortMode = "AUTO",
                               !.sm.startCount = 0,
                               !.sm.logoffSent = FALSE]
    OBVIOUS
  <2>2. S(e)
    BY <1>3, <2>1
  <2>3. ToDisconnected(d) = [e EXCEPT !.sm.suppPortStatus = "UNAUTHORIZED",
                                      !.sm.suppAbort = TRUE,
                                      !.sm.curState = "DISCONNECTED"]
    BY <1>3, <2>1 DEF ToDisconnected
  <2>4. PICK x : x = [e EXCEPT !.sm.suppPortStatus = "UNAUTHORIZED",
                               !.sm.suppAbort = TRUE,
                               !.sm.curState = "DISCONNECTED"]
    OBVIOUS
  <2>5. S(x)
    BY <2>2, <2>4
  <2> HIDE DEF S
  <2> QED
    BY <2>3, <2>4, <2>5
<1>4. ASSUME NEW d, S(d)
      PROVE  UserLogsOff(d) = d /\ ForcedShut(d) = d
  BY <1>4 DEF UserLogsOff, ForcedShut
<1>5. S(c)
  OBVIOUS
<1> HIDE DEF S
<1>6. ASSUME NEW d, S(d) PROVE S(GlobalTransition(d))
  BY <1>2, <1>3, <1>4, <1>6 DEF GlobalTransition, ForcedOpen, BackToAuto
<1>7. S(TickedOn(c))
  BY <1>1, <1>5, <1>6 DEF TickedOn
<1> QED
  BY <1>7 DEF S

LEMMA TickServes ==
  ASSUME NEW c, CtxOk(c), PortInv(c), Prompt(c), Honest(c),
         c.conn # "NONE"
  PROVE  Forced(TickedOn(c)) \/ Honest(TickedOn(c))
<1>1. PICK t : t = TickedOn(c)
  OBVIOUS
<1>2. TickStep(c, t)
  BY <1>1, TickPort
<1>3. Shaped(c) /\ ~c.sm.userLogoff
      /\ c.sm.portControl # "FORCE_UNAUTHORIZED"
  BY DEF Honest, Serving, CtxOk, Unreached
<1>4. /\ Shaped(t) /\ t.eap = c.eap /\ t.out = c.out
      /\ t.recvframe = c.recvframe /\ t.prof = c.prof
      /\ t.sm.beCurState = c.sm.beCurState
      /\ t.sm.initialize = c.sm.initialize
      /\ t.sm.suppSuccess = c.sm.suppSuccess
  BY <1>1, <1>3, TickLeaves
<1>5. t.sm.eapolEap = c.sm.eapolEap
  BY <1>1, <1>3, TickLeaves
<1>6. Serving(t)
  BY <1>4, <1>5 DEF Honest, Serving
<1>7. CASE Unmoved(c, t)
  <2>1. /\ t.sm.curState = c.sm.curState /\ t.sm.suppAbort = c.sm.suppAbort
    BY <1>7 DEF Unmoved
  <2> QED
    BY <1>1, <1>4, <1>5, <1>6, <2>1 DEF Honest, Won
<1>8. CASE t.sm.initialize /\ t.sm.curState = "DISCONNECTED"
  <2>1. ~t.eap.eapResp
    BY <1>4, <1>8 DEF Honest, Prompt
  <2> QED
    BY <1>1, <1>6, <1>8, <2>1 DEF Honest, Won
<1> QED
  BY <1>1, <1>2, <1>7, <1>8 DEF TickStep

\* Without a frame, none turns up in a run of the port access entity.
LEMMA PaeWithoutFrame ==
  ASSUME NEW c, Shaped(c), ~c.sm.eapolEap, NEW in
  PROVE  ~DoPae(c, in).sm.eapolEap
<1> DEFINE S(x) == Shaped(x) /\ ~x.sm.eapolEap
<1>1. ASSUME NEW x, S(x)
      PROVE  /\ S(ToDisconnected(x)) /\ S(ToForceAuth(x))
             /\ S(ToAuthenticated(x)) /\ S(TxStart(x))
             /\ S([x EXCEPT !.sm.curState = "CONNECTING"])
             /\ S([x EXCEPT !.sm.startWhen = StartPeriod])
             /\ S([x EXCEPT !.sm.startCount = (@ + 1) % 256])
             /\ S(ForgetVerdict(x))
  <2> USE <1>1 DEF Shaped, NewSm
  <2>1. S(ToForceAuth(x)) /\ S(ToAuthenticated(x)) /\ S(TxStart(x))
    BY DEF ToForceAuth, ToAuthenticated, TxStart, Transmit
  <2>2. S(ToDisconnected(x))
    BY DEF ToDisconnected
  <2>3. /\ S([x EXCEPT !.sm.curState = "CONNECTING"])
        /\ S([x EXCEPT !.sm.startWhen = StartPeriod])
        /\ S([x EXCEPT !.sm.startCount = (@ + 1) % 256])
    OBVIOUS
  <2>4. S(ForgetVerdict(x))
    BY DEF ForgetVerdict
  <2> QED
    BY <2>1, <2>2, <2>3, <2>4
<1>2. ASSUME NEW x, S(x) PROVE S(ToHeld(x))
  BY <1>1, <1>2 DEF ToHeld, Shaped, NewSm
<1>3. ASSUME NEW x, S(x) PROVE S(ToAuthenticating(x))
  <2>1. PICK v : v = ForgetVerdict(x)
    OBVIOUS
  <2>2. S(v)
    BY <1>1, <1>3, <2>1
  <2>3. PICK w : w = [v EXCEPT !.sm.startCount = 0, !.sm.suppStart = TRUE,
                               !.sm.curState = "AUTHENTICATING"]
    OBVIOUS
  <2>4. S(w)
    BY <2>2, <2>3 DEF Shaped, NewSm
  <2> QED
    BY <1>1, <1>3, <2>1, <2>3, <2>4 DEF ToAuthenticating
<1>4. S(c)
  OBVIOUS
<1>5. ASSUME NEW x, S(x) PROVE ~x.sm.eapolEap
  BY <1>5
<1> HIDE DEF S
<1>6. ASSUME NEW x, S(x) PROVE S(ToConnecting(x, in))
  BY <1>1, <1>5, <1>6 DEF ToConnecting
<1>7. S(DoPae(c, in))
  <2>1. S(DoLogoff(c)) /\ S(DoDisconnected(c, in)) /\ S(DoRestart(c))
    BY <1>1, <1>3, <1>4, <1>6 DEF DoLogoff, DoDisconnected, DoRestart
  <2>2. S(DoHeld(c, in)) /\ S(DoAuthenticated(c, in))
    BY <1>4, <1>5, <1>6 DEF DoHeld, DoAuthenticated
  <2>3. S(DoConnecting(c, in))
    BY <1>1, <1>3, <1>4, <1>5, <1>6 DEF DoConnecting
  <2>4. S(DoAuthenticating(c, in))
    BY <1>1, <1>2, <1>4, <1>6 DEF DoAuthenticating
  <2> QED
    BY <1>4, <2>1, <2>2, <2>3, <2>4 DEF DoPae
<1> QED
  BY <1>5, <1>7

\* statemachine_run answers the frame it has, and reads nothing stale.
LEMMA RunServesFrame ==
  ASSUME Orderly, NEW c, CtxOk(c), PortInv(c), Poised(c), c.conn # "NONE",
         ~c.eap.wild, c.out = <<>>, Forced(c) \/ Honest(c),
         NEW in \in RunInputs(c)
  PROVE  LET d == StatemachineRun(c, in)
         IN  /\ ~d.eap.wild /\ Replies(d)
             /\ \/ Forced(d)
                \/ Honest(d) /\ (~c.sm.eapolEap => ~d.sm.eapolEap)
<1>1. PICK t : t = TickedOn(c)
  OBVIOUS
<1>2. CtxOk(t) /\ t.conn # "NONE" /\ PortInv(t)
  BY <1>1, TickPort
<1>3. FramesOk(t) /\ Prompt(t) /\ (Forced(t) \/ ~Forced(c))
  BY <1>1, TickPrompt DEF CtxOk, Unreached, PortInv, Poised
<1>4. /\ Shaped(t) /\ t.eap = c.eap /\ t.out = <<>>
      /\ t.sm.eapolEap = c.sm.eapolEap
  BY <1>1, TickLeaves DEF CtxOk, Unreached, Poised, FramesOk
<1>5. Forced(t) \/ Honest(t)
  BY <1>1, <1>3, TickServes DEF Poised
<1>6. PICK p : p = LinkUp(t)
  OBVIOUS
<1>7. p.sm.portEnabled /\ CtxOk(p) /\ p.conn # "NONE"
  BY <1>2, <1>6, PortEnabledOk DEF LinkUp
<1>8. /\ Shaped(p) /\ p.eap = t.eap /\ p.out = <<>>
      /\ p.recvframe = t.recvframe /\ p.prof = t.prof
      /\ p.sm = [t.sm EXCEPT !.portEnabled = TRUE]
  BY <1>4, <1>6 DEF LinkUp, Shaped, NewSm
<1>9. PortInv(p)
  BY <1>2, <1>6, LinkUpPort, UnmovedInv, ContextsShaped DEF CtxOk
<1>10. Prompt(p) /\ (Forced(p) <=> Forced(t))
       /\ p.sm.eapolEap = c.sm.eapolEap
  BY <1>3, <1>4, <1>8 DEF Prompt, Verdict, Waits, Forced, Shaped, NewSm
<1>11. Honest(t) => Honest(p)
  BY <1>4, <1>8 DEF Honest, Serving, Won, Shaped, NewSm
<1>12. Mute(p) /\ Replies(p)
  BY <1>8 DEF Mute, Replies
<1>13. PICK e : e = DoPae(p, in)
  OBVIOUS
<1>14. in.link /\ in \in Inputs
  BY SteadyInputs, RunInputsOk DEF CtxOk, Orderly
<1>15. StatemachineRun(c, in) = BackendUnlessForced(e, in)
  BY <1>1, <1>6, <1>13, <1>14 DEF StatemachineRun
<1>16. CASE Forced(p)
  <2>1. StatemachineRun(c, in) = p
    BY <1>13, <1>15, <1>16 DEF Forced, DoPae, BackendUnlessForced
  <2> QED
    BY <1>4, <1>8, <1>12, <1>16, <2>1
<1>17. CASE ~Forced(p)
  <2>1. Begun(p)
    BY <1>7, <1>17
       DEF Begun, Base, Enabled, CtxOk, Unreached, UnsetIsUnused, Forced
  <2>2. Entered(e)
    BY <1>13, <1>14, <2>1, DoPaeOk
  <2>3. p.sm.curState \in PaeStateNames \ {"RESTART", "S_FORCE_UNAUTH"}
    BY <1>7, AllowedMethods DEF CtxOk, Unreached, SmStates
  <2>4. Honest(p)
    BY <1>5, <1>10, <1>11, <1>17
  <2>5. p.out \in Seq(Sent)
    BY <1>8
  <2>6. Mid(e) \/ e = ToForceAuth(p)
    BY <1>7, <1>9, <1>10, <1>12, <1>13, <1>17, <2>2, <2>3, <2>4, <2>5,
       PaeServes DEF CtxOk, Unreached, PortInv
  <2>7. CASE Forced(e)
    <3>1. StatemachineRun(c, in) = e
      BY <1>15, <2>7 DEF Forced, BackendUnlessForced
    <3>2. ~e.eap.wild /\ Mute(e)
      <4>1. CASE e = ToForceAuth(p)
        <5>1. e.eap = p.eap /\ e.out = p.out
          BY <1>8, <4>1 DEF ToForceAuth, Shaped
        <5> QED
          BY <1>4, <1>8, <1>12, <5>1, MuteReplies
      <4>2. CASE Mid(e)
        BY <4>2 DEF Mid, Serving, Faithful, Loyal
      <4> QED
        BY <2>6, <4>1, <4>2
    <3> QED
      BY <2>7, <3>1, <3>2, MuteReplies
  <2>8. CASE ~Forced(e)
    <3>1. Mid(e)
      <4>1. e # ToForceAuth(p)
        BY <1>8, <2>8, ForcedPort
      <4> QED
        BY <2>6, <4>1
    <3>2. /\ ~e.sm.eapRestart /\ e.sm.portEnabled /\ ReceiveWaits(e)
          /\ e.eap.decision = "UNSET" => BackendQuiet(e)
          /\ e.sm.curState \notin {"S_FORCE_AUTH", "S_FORCE_UNAUTH"}
          /\ e.out \in Seq(Sent)
      BY <2>2, <2>8 DEF Entered, Base, Enabled, Contexts, Forced
    <3>3. PICK d : d = BackendRun(e, in)
      OBVIOUS
    <3>4. StatemachineRun(c, in) = d
      BY <1>15, <3>2, <3>3 DEF BackendUnlessForced
    <3>5. Honest(d) /\ Replies(d)
      BY <3>1, <3>2, <3>3, BackendServes
    <3>6. ~c.sm.eapolEap => ~d.sm.eapolEap
      <4>1. ~c.sm.eapolEap => ~e.sm.eapolEap
        BY <1>8, <1>10, <1>13, PaeWithoutFrame
      <4>2. WithEap(e)
        BY <3>1 DEF Mid, Serving, Faithful, Loyal, WithEap
      <4> QED
        BY <3>2, <3>3, <4>1, <4>2, BackendWithoutFrame
    <3> QED
      BY <3>4, <3>5, <3>6 DEF Honest, Serving, Faithful, Loyal
  <2> QED
    BY <2>7, <2>8
<1> QED
  BY <1>16, <1>17

(***************************************************************************)
(* Every step of the daemon.                                               *)
(***************************************************************************)
\* A context whose machines wait for a frame, if they wait for anything.
Idles(c) ==
    c.conn = "NONE" \/ Forced(c) \/ (Honest(c) /\ ~c.sm.eapolEap)

AnsInv ==
    /\ ~ctx.eap.wild /\ Replies(ctx) /\ pc # "reprocess"
    /\ (ctx.conn = "NONE" \/ Forced(ctx) \/ Honest(ctx))
    /\ (pc = "select" => Idles(ctx))

\* A frame that arrives does not answer: nobody waits for it yet.
LEMMA ArrivesServes ==
  ASSUME NEW c, WithEap(c), ~c.eap.wild, NEW f
  PROVE  LET d == [Fresh(ReleaseFrame(c)) EXCEPT !.recvframe = f]
             g == [Fresh(ReleaseFrame(c)) EXCEPT
                      !.recvframe = f, !.sm.eapolEap = TRUE]
         IN  /\ ~d.eap.wild /\ Replies(d) /\ (Idles(c) => Idles(d))
             /\ ~g.eap.wild /\ Replies(g)
             /\ Idles(c) /\ f \in AirFrames =>
                   g.conn = "NONE" \/ Forced(g) \/ Honest(g)
<1>1. Shaped(c) /\ DOMAIN c.eap = DOMAIN NewEap
  BY DEF WithEap
<1>2. PICK q : q = IF c.recvframe = NullFrame \/ c.eap.reqData = NullFrame
                   THEN c.eap.reqData ELSE FreedFrame
  OBVIOUS
<1>3. PICK r : r = [c EXCEPT !.recvframe = NullFrame]
  OBVIOUS
<1>4. PICK s : s = [r EXCEPT !.eap.reqData = q]
  OBVIOUS
<1>5. ReleaseFrame(c) = s
  BY <1>1, <1>2, <1>3, <1>4 DEF ReleaseFrame, Shaped
<1>6. /\ Shaped(s) /\ s.sm = c.sm /\ s.conn = c.conn /\ s.prof = c.prof
      /\ s.eap = [c.eap EXCEPT !.reqData = q]
  BY <1>1, <1>3, <1>4 DEF Shaped
<1>7. PICK d : d = [Fresh(s) EXCEPT !.recvframe = f]
  OBVIOUS
<1>8. /\ Shaped(d) /\ d.sm = c.sm /\ d.conn = c.conn /\ d.prof = c.prof
      /\ d.eap = s.eap /\ d.out = <<>> /\ d.recvframe = f
  BY <1>6, <1>7 DEF Fresh, Shaped
<1>9. PICK g : g = [d EXCEPT !.sm.eapolEap = TRUE]
  OBVIOUS
<1>10. [Fresh(s) EXCEPT !.recvframe = f, !.sm.eapolEap = TRUE] = g
  BY <1>6, <1>7, <1>9 DEF Fresh, Shaped
<1>11. /\ Shaped(g) /\ g.sm = [c.sm EXCEPT !.eapolEap = TRUE]
       /\ g.conn = c.conn /\ g.prof = c.prof /\ g.eap = s.eap
       /\ g.out = <<>> /\ g.recvframe = f
  BY <1>8, <1>9 DEF Shaped, NewSm
<1>12. ~s.eap.wild
  BY <1>1, <1>6 DEF NewEap
<1>13. ASSUME Honest(c), ~c.sm.eapolEap
       PROVE  Faithful(s.eap, f) /\ ~s.eap.eapResp
              /\ s.eap.eapSuccess = c.eap.eapSuccess
  BY <1>1, <1>6, <1>13
     DEF Honest, Serving, Faithful, Loyal, LastOk, NewEap
<1>14. ASSUME Honest(c), ~c.sm.eapolEap PROVE Honest(d)
  BY <1>8, <1>13, <1>14 DEF Honest, Serving, Won
<1>15. ASSUME Honest(c), ~c.sm.eapolEap, f \in AirFrames PROVE Honest(g)
  BY <1>1, <1>11, <1>13, <1>15 DEF Honest, Serving, Won, Shaped, NewSm
<1>16. /\ Forced(c) => Forced(d) /\ Forced(g)
       /\ ~d.sm.eapolEap \/ c.sm.eapolEap
       /\ Replies(d) /\ Replies(g)
  BY <1>1, <1>8, <1>11 DEF Forced, Replies, Shaped, NewSm
<1> QED
  BY <1>5, <1>7, <1>8, <1>10, <1>11, <1>12, <1>14, <1>15, <1>16 DEF Idles

\* A logoff sends no response and forgets the conversation.
LEMMA LogoffServes ==
  ASSUME NEW c, WithEap(c), c.out = <<>>
  PROVE  LET g == ToLogoff(c)
             o == [g EXCEPT !.eap = ReinitEap(@)]
             d == [TxLogoff(TxLogoff(o)) EXCEPT !.conn = "NONE",
                                                !.prof = "NONE"]
             r == [g EXCEPT !.conn = "NONE", !.eap = ReinitEap(@)]
         IN  /\ ~d.eap.wild /\ Replies(d) /\ d.conn = "NONE"
             /\ ~r.eap.wild /\ Replies(r) /\ r.conn = "NONE"
<1> DEFINE L == [kind |-> "LOGOFF", resp |-> NullResp]
           Said(x) == Shaped(x) /\ x.out \in Seq({L})
<1>1. ASSUME NEW x, Said(x)
      PROVE  Said(TxLogoff(x)) /\ TxLogoff(x).eap = x.eap
  <2>1. PICK y : y = [x EXCEPT !.out = Append(@, L)]
    OBVIOUS
  <2>2. Append(x.out, L) \in Seq({L})
    BY <1>1
  <2>3. Said(y) /\ y.eap = x.eap
    BY <1>1, <2>1, <2>2 DEF Shaped
  <2>4. TxLogoff(x) \in {x, y}
    BY <2>1 DEF TxLogoff, Transmit
  <2> QED
    BY <1>1, <2>3, <2>4
<1>2. Said(c)
  BY DEF WithEap
<1>3. PICK t : t = TxLogoff(c)
  OBVIOUS
<1>4. PICK u : u = EapForceInit(t.eap)
  OBVIOUS
<1>5. PICK g : g = [t EXCEPT !.sm.logoffSent = TRUE,
                             !.sm.suppPortStatus = "UNAUTHORIZED",
                             !.sm.curState = "LOGOFF", !.eap = u]
  OBVIOUS
<1>6. Said(t)
  BY <1>1, <1>2, <1>3
<1>7. g = ToLogoff(c)
  BY <1>3, <1>4, <1>5, <1>6 DEF ToLogoff, Shaped
<1>8. Said(g)
  BY <1>5, <1>6 DEF Shaped
<1>9. PICK w : w = ReinitEap(g.eap)
  OBVIOUS
<1>10. ~w.wild
  BY <1>9 DEF ReinitEap, NewEap
<1>11. PICK o : o = [g EXCEPT !.eap = ReinitEap(@)]
  OBVIOUS
<1>12. Said(o) /\ o.eap = w
  BY <1>8, <1>9, <1>11 DEF Shaped
<1>13. PICK v : v = TxLogoff(TxLogoff(o))
  OBVIOUS
<1>14. Said(v) /\ v.eap = w
  BY <1>1, <1>12, <1>13
<1>15. PICK d : d = [v EXCEPT !.conn = "NONE", !.prof = "NONE"]
  OBVIOUS
<1>16. d.eap = w /\ Mute(d) /\ d.conn = "NONE"
  BY <1>14, <1>15 DEF Shaped, Mute
<1>17. PICK r : r = [g EXCEPT !.conn = "NONE", !.eap = ReinitEap(@)]
  OBVIOUS
<1>18. r.eap = w /\ Mute(r) /\ r.conn = "NONE"
  BY <1>8, <1>9, <1>17 DEF Shaped, Mute
<1>19. Replies(d) /\ Replies(r)
  BY <1>16, <1>18, MuteReplies
<1> HIDE DEF Said
<1> QED
  BY <1>7, <1>10, <1>11, <1>13, <1>15, <1>16, <1>17, <1>18, <1>19

LEMMA RunIfBoundServes ==
  ASSUME Orderly, NEW c, CtxOk(c), PortInv(c), Poised(c), ~c.eap.wild,
         c.out = <<>>, Idles(c), RunIfBound(c)
  PROVE  ~ctx'.eap.wild /\ Replies(ctx') /\ Idles(ctx')
<1>1. CASE c.conn = "NONE"
  <2>1. ctx' = c
    BY <1>1 DEF RunIfBound
  <2> QED
    BY <2>1 DEF Replies
<1>2. CASE c.conn # "NONE"
  <2>1. PICK in \in RunInputs(c) : ctx' = StatemachineRun(c, in)
    BY <1>2 DEF RunIfBound
  <2>2. Forced(c) \/ (Honest(c) /\ ~c.sm.eapolEap)
    BY <1>2 DEF Idles
  <2>3. /\ ~ctx'.eap.wild /\ Replies(ctx')
        /\ \/ Forced(ctx')
           \/ /\ Honest(ctx')
              /\ ~c.sm.eapolEap => ~ctx'.sm.eapolEap
    BY <1>2, <2>1, <2>2, RunServesFrame
  <2>4. CASE Forced(ctx')
    BY <2>3, <2>4 DEF Idles
  <2>5. CASE ~Forced(ctx')
    <3>1. ~Forced(c)
      BY <1>2, <2>1, <2>5, RunPoised DEF Orderly
    <3> QED
      BY <2>2, <2>3, <2>5, <3>1 DEF Idles
  <2> QED
    BY <2>4, <2>5
<1> QED
  BY <1>1, <1>2

\* One case per action.
LEMMA AnsStepOk ==
  ASSUME Orderly, IInv, PortInv(ctx), FewInv, AnsInv, [Next]_vars
  PROVE  AnsInv'
<1>1. /\ CtxOk(ctx) /\ PortInv(ctx) /\ Poised(ctx) /\ WithEap(ctx)
      /\ ~ctx.eap.wild
  BY ContextsShaped DEF IInv, FewInv, AnsInv, CtxOk, PortInv
<1>2. PICK a : a = Fresh(ctx)
  OBVIOUS
<1>3. /\ CtxOk(a) /\ PortInv(a) /\ Poised(a) /\ Shaped(a)
      /\ a.sm = ctx.sm /\ a.conn = ctx.conn /\ a.eap = ctx.eap
      /\ a.prof = ctx.prof /\ a.recvframe = ctx.recvframe /\ a.out = <<>>
  <2>1. CtxOk(a) /\ PortInv(a) /\ Shaped(a) /\ a.recvframe = ctx.recvframe
    <3>1. CtxOk(a) /\ a.recvframe = ctx.recvframe
      BY <1>1, <1>2, FreshOk
    <3>2. PortInv(a)
      BY <1>1, <1>2, MovesPort, UnmovedInv DEF PortInv
    <3> QED
      BY <3>1, <3>2, ContextsShaped DEF CtxOk, WithEap
  <2>2. Typed(NullFrame)
    BY DEF Typed, NullFrame
  <2>3. Poised(a)
    BY <1>1, <1>2, <2>2, MovesPoised
  <2>4. /\ a.sm = ctx.sm /\ a.conn = ctx.conn /\ a.eap = ctx.eap
        /\ a.prof = ctx.prof /\ a.out = <<>>
    BY <1>1, <1>2 DEF Fresh, WithEap, Shaped
  <2> QED
    BY <2>1, <2>3, <2>4
<1>4. /\ Honest(ctx) => Honest(a)
      /\ Forced(ctx) => Forced(a)
      /\ Idles(ctx) => Idles(a)
  BY <1>3 DEF Honest, Serving, Won, Forced, Idles
<1>5. ASSUME ~ctx'.eap.wild, Replies(ctx'), Idles(ctx'), pc' # "reprocess"
      PROVE  AnsInv'
  BY <1>5 DEF AnsInv, Idles
<1>6. CASE IgnoredFrame
  <2>1. PICK f : ctx' = [Fresh(ReleaseFrame(ctx)) EXCEPT !.recvframe = f]
    BY <1>6 DEF IgnoredFrame
  <2>2. Idles(ctx) /\ pc' # "reprocess"
    BY <1>6 DEF AnsInv, IgnoredFrame, NextSource
  <2> QED
    BY <1>1, <1>5, <2>1, <2>2, ArrivesServes
<1>7. ASSUME NEW f \in AirFrames, EapFrame(f) PROVE AnsInv'
  <2>1. Idles(ctx) /\ pc' = "execute"
    BY <1>7 DEF AnsInv, EapFrame, NextSource
  <2>2. ctx' = [Fresh(ReleaseFrame(ctx)) EXCEPT
                   !.recvframe = f, !.sm.eapolEap = TRUE]
    BY <1>7 DEF EapFrame
  <2>3. /\ ~ctx'.eap.wild /\ Replies(ctx')
        /\ ctx'.conn = "NONE" \/ Forced(ctx') \/ Honest(ctx')
    BY <1>1, <2>1, <2>2, ArrivesServes
  <2> QED
    BY <2>1, <2>3 DEF AnsInv, Forced, Honest, Serving, Won
<1>8. CASE ExecuteRun
  <2>1. PICK in \in RunInputs(ctx) : ctx' = StatemachineRun(a, in)
    BY <1>2, <1>8 DEF ExecuteRun
  <2>2. in \in RunInputs(a) /\ a.conn # "NONE" /\ ~a.eap.wild
    BY <1>1, <1>3, <1>8, <2>1 DEF ExecuteRun, RunInputs
  <2>3. Forced(a) \/ Honest(a)
    BY <1>3, <1>4, <2>2 DEF AnsInv
  <2>4. ~ctx'.eap.wild /\ Replies(ctx') /\ (Forced(ctx') \/ Honest(ctx'))
    BY <1>3, <2>1, <2>2, <2>3, RunServesFrame
  <2>5. pc' = "execute"
    BY <1>8 DEF ExecuteRun, AnsInv
  <2> QED
    BY <2>4, <2>5 DEF AnsInv
<1>9. CASE ExecuteEnd
  <2>1. pc = "execute" /\ ctx' = a /\ pc' = "select"
    BY <1>2, <1>9 DEF ExecuteEnd, AnsInv
  <2>2. Idles(ctx)
    <3>1. ctx.conn = "NONE" \/ Forced(ctx) \/ Honest(ctx)
      BY DEF AnsInv
    <3>2. CASE ctx.conn = "NONE" \/ Forced(ctx)
      BY <3>2 DEF Idles
    <3>3. CASE ctx.conn # "NONE" /\ ~Forced(ctx)
      <4>1. runs + RunsLeft(ctx) <= 4
        BY <2>1, <3>3 DEF FewInv
      <4>2. runs = MaxRuns \/ ~ctx.sm.eapolEap
        BY <1>9, <3>3 DEF ExecuteEnd
      <4>3. MaxRuns \in Nat /\ MaxRuns >= 4 /\ RunsLeft(ctx) \in 0 .. 4
        BY RunsLeftBound, EnvironmentAssumption DEF Orderly
      <4>4. ctx.sm.eapolEap => RunsLeft(ctx) >= 1
        BY <3>3 DEF RunsLeft, Forced
      <4>5. runs \in Nat
        BY <4>3 DEF IInv, TypeOK
      <4>6. ~ctx.sm.eapolEap
        BY <4>1, <4>2, <4>3, <4>4, <4>5
      <4> QED
        BY <3>1, <3>3, <4>6 DEF Idles
    <3> QED
      BY <3>2, <3>3
  <2>3. Replies(a)
    BY <1>3 DEF Replies
  <2> QED
    BY <1>1, <1>3, <1>4, <1>5, <2>1, <2>2, <2>3
<1>10. CASE RequestLogoff \/ DisconnectConnection
  <2>1. WithEap(a)
    BY <1>1, <1>3 DEF WithEap
  <2>2. pc' # "reprocess"
    BY <1>10
       DEF RequestLogoff, DisconnectConnection, Request, NextSource, AnsInv
  <2>3. ~ctx'.eap.wild /\ Replies(ctx') /\ ctx'.conn = "NONE"
    <3> DEFINE g == ToLogoff(a)
               o == [g EXCEPT !.eap = ReinitEap(@)]
               d == [TxLogoff(TxLogoff(o)) EXCEPT !.conn = "NONE",
                                                  !.prof = "NONE"]
               r == [g EXCEPT !.conn = "NONE", !.eap = ReinitEap(@)]
    <3>1. ctx' = r \/ ctx' = d
      BY <1>2, <1>10 DEF RequestLogoff, DisconnectConnection, Request
    <3>2. /\ ~d.eap.wild /\ Replies(d) /\ d.conn = "NONE"
          /\ ~r.eap.wild /\ Replies(r) /\ r.conn = "NONE"
      BY <1>3, <2>1, LogoffServes
    <3> HIDE DEF d, r
    <3> QED
      BY <3>1, <3>2
  <2> QED
    BY <1>5, <2>2, <2>3 DEF Idles
<1>11. CASE UnbindConnection
  <2>1. ctx' = [a EXCEPT !.conn = "NONE", !.prof = "NONE"]
        /\ pc' # "reprocess"
    BY <1>2, <1>11 DEF UnbindConnection, Request, NextSource, AnsInv
  <2>2. ctx'.eap = a.eap /\ ctx'.out = <<>> /\ ctx'.conn = "NONE"
    BY <1>3, <2>1 DEF Shaped
  <2> QED
    BY <1>1, <1>3, <1>5, <2>1, <2>2 DEF Idles, Replies
<1>12. CASE (\E conn \in Conns : ChangeConnection(conn)) \/ SetPassword
  BY <1>12 DEF ChangeConnection, Request, SetPassword, Orderly
<1>13. CASE Tick
  <2>1. PICK b : b = Ticked(a)
    OBVIOUS
  <2>2. CtxOk(b) /\ PortInv(b) /\ Poised(b)
    <3>1. Unmoved(ctx, b)
      BY <1>1, <1>2, <2>1, MovesPort DEF PortInv
    <3>2. Typed(NullFrame)
      BY DEF Typed, NullFrame
    <3> QED
      BY <1>1, <1>3, <2>1, <3>1, <3>2, UnmovedInv, TickedOk, MovesPoised
  <2>3. /\ b.eap = a.eap /\ b.out = <<>> /\ b.conn = a.conn
        /\ b.recvframe = a.recvframe /\ b.prof = a.prof /\ Shaped(b)
        /\ b.sm = [a.sm EXCEPT !.tick = TRUE]
    BY <1>3, <2>1 DEF Ticked, Shaped, NewSm
  <2>4. Idles(a) => Idles(b)
    BY <1>3, <2>3
       DEF Honest, Serving, Won, Forced, Idles, Shaped, NewSm
  <2>5. Idles(ctx) /\ pc' # "reprocess"
    BY <1>13 DEF Tick, EndPass, AnsInv
  <2>6. RunIfBound(b)
    BY <1>2, <1>13, <2>1 DEF Tick
  <2> QED
    BY <1>1, <1>3, <1>4, <1>5, <2>2, <2>3, <2>4, <2>5, <2>6,
       RunIfBoundServes
<1>14. CASE Poll
  <2>1. Idles(ctx) /\ pc' # "reprocess" /\ RunIfBound(a)
    BY <1>2, <1>14 DEF Poll, EndPass, AnsInv
  <2> QED
    BY <1>1, <1>3, <1>4, <1>5, <2>1, RunIfBoundServes
<1>15. CASE UNCHANGED vars
  BY <1>15 DEF vars, AnsInv, Idles, Replies, Forced, Honest, Serving, Won,
               Shaped
<1> QED
  BY <1>6, <1>7, <1>8, <1>9, <1>10, <1>11, <1>12, <1>13, <1>14, <1>15
     DEF Next

LEMMA AnsInitOk ==
  ASSUME Init
  PROVE  AnsInv
<1>1. PICK conn \in InitialConns, link \in LinkAnswers :
             ctx = [sm |-> NewSm(link), eap |-> NewEap,
                    recvframe |-> NullFrame, conn |-> conn,
                    prof |-> ProfOf(conn), out |-> <<>>]
  BY DEF Init
<1>2. ProfOf(conn) \in Conns \cup {"NONE"}
  BY EnvironmentAssumption DEF ProfOf
<1>3. Shaped(ctx) /\ ctx.prof \in Conns \cup {"NONE"}
  BY <1>1, <1>2 DEF Shaped, NewSm
<1>4. Faithful(ctx.eap, ctx.recvframe) /\ ~ctx.eap.eapResp
      /\ ~ctx.eap.wild /\ ~ctx.eap.eapSuccess
  BY <1>1 DEF Faithful, Loyal, LastOk, NewEap
<1>5. ~ctx.sm.eapolEap
  BY <1>1 DEF NewSm
<1>6. Honest(ctx)
  BY <1>3, <1>4, <1>5 DEF Honest, Serving, Won
<1>7. Replies(ctx)
  BY <1>1 DEF Replies
<1>8. pc = "select"
  BY DEF Init
<1> QED
  BY <1>4, <1>5, <1>6, <1>7, <1>8 DEF AnsInv, Idles

\* What waits to be sent answers the frame in the buffer, between two runs of
\* the machines as well: an invariant of every reachable state, in an orderly
\* environment.
THEOREM AnsInductive == Orderly => (Spec => []AnsInv)
<1> SUFFICES ASSUME Orderly PROVE Spec => []AnsInv
  OBVIOUS
<1>1. Init => AnsInv
  BY AnsInitOk
<1>2. IInv /\ PortInv(ctx) /\ FewInv /\ AnsInv /\ [Next]_vars => AnsInv'
  BY AnsStepOk
<1>3. Steady
  BY DEF Orderly
<1> QED
  BY <1>1, <1>2, <1>3, Inductive, PortInductive, FewInductive, PTL DEF Spec

\* txSuppRsp (backend_sm.c:192) sends a response that answers the request in
\* the buffer and carries its identifier, in every reachable state, for all
\* methods but EAP-LEAP, all connections, frames and periods, in an orderly
\* environment.
THEOREM AnswersTheorem == Orderly => (Spec => []AnswersItsRequest)
<1> SUFFICES ASSUME Orderly PROVE Spec => []AnswersItsRequest
  OBVIOUS
<1>1. AnsInv => AnswersItsRequest
  BY DEF AnsInv, Replies, AnswersItsRequest, Responded
<1> QED
  BY <1>1, AnsInductive, PTL

\* The machines never read a frame that event_core has freed, nor one that is
\* no EAP packet, in every reachable state, under the same conditions.
THEOREM NoStaleReadTheorem == Orderly => (Spec => []NoStaleRead)
<1> SUFFICES ASSUME Orderly PROVE Spec => []NoStaleRead
  OBVIOUS
<1>1. AnsInv => NoStaleRead
  BY DEF AnsInv, NoStaleRead
<1> QED
  BY <1>1, AnsInductive, PTL
=============================================================================

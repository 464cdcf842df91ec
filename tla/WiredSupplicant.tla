-------------------------- MODULE WiredSupplicant --------------------------
(***************************************************************************)
(* The supplicant daemon driving one wired interface: the event loop       *)
(* (event_core.c), the reception of EAPOL frames (eapol.c), the requests   *)
(* of the user interface that touch the interface (ipc_callout.c) and the  *)
(* late password of the EAP methods that ask for one.                      *)
(*                                                                         *)
(* The daemon is single threaded.  One pass of event_core serves each      *)
(* ready source (the frame socket, the IPC socket) at most once, then, if  *)
(* a second has elapsed, sets tick, then runs the state machines.          *)
(***************************************************************************)
EXTENDS SuppPae, FiniteSets

CONSTANTS LinkAnswers,     \* what cardif_get_link_state may return
          AirFrames,       \* the EAP frames the authenticator may send
          MethodOutcomes,  \* what the EAP methods may do
          InitialConns,    \* connections config_build may bind at start
          UserRequests,    \* which requests the user interface makes
          MaxRuns          \* runs of the machines per frame: 0xff

ASSUME EnvironmentAssumption ==
    /\ LinkAnswers \subseteq BOOLEAN /\ LinkAnswers # {}
    /\ AirFrames # {}
    /\ AirFrames \subseteq Frames \ {NullFrame, FreedFrame, OtherFrame}
    /\ MethodOutcomes \subseteq Outcomes
    /\ InitialConns \subseteq Conns \cup {"NONE"}
    /\ UserRequests \subseteq {"connect", "logoff", "disconnect", "unbind",
                              "password"}
    /\ MaxRuns \in 1 .. 255

VARIABLES ctx,      \* struct context of the interface
          pc,       \* "select": in event_core; "execute": in the loop of
                    \* eapol_execute; "reprocess": in the same loop, called
                    \* from a password callback
          runs,     \* sm_runs of eapol_execute
          saved,    \* temp of the password callback: the displaced frame
          served    \* sources served in this pass of event_core

vars == <<ctx, pc, runs, saved, served>>

TypeOK ==
    /\ ctx \in Contexts
    /\ pc \in {"select", "execute", "reprocess"}
    /\ runs \in 0 .. MaxRuns
    /\ saved \in Frames
    /\ served \subseteq {"frame", "ipc"}

\* config_build: a default connection is bound with its profile, if any.
ProfOf(conn) ==
    IF conn # "NONE" /\ ProfileOf[conn] # {} THEN conn ELSE "NONE"

Init ==
    /\ \E conn \in InitialConns, link \in LinkAnswers :
          ctx = [sm |-> NewSm(link), eap |-> NewEap,
                 recvframe |-> NullFrame, conn |-> conn,
                 prof |-> ProfOf(conn), out |-> <<>>]
    /\ pc = "select" /\ runs = 0 /\ saved = NullFrame /\ served = {}

Fresh(c) == [c EXCEPT !.out = <<>>]

(***************************************************************************)
(* What the environment decides in one run of the machines.                *)
(***************************************************************************)
RunInputs(c) ==
    [link : LinkAnswers, m : MethodOutcomes,
     ub : IF {c.eap.reqData, c.recvframe} \cap Garbage # {}
          THEN AirFrames ELSE {NullFrame}]

(***************************************************************************)
(* The frame socket is ready.  event_core frees the previous frame before  *)
(* it calls eapol_withframe.                                               *)
(***************************************************************************)
NextSource(src) == pc = "select" /\ src \notin served
                   /\ served' = served \cup {src}

\* cardif_getframe found nothing for us; or the frame, not an EAP packet,
\* stays in the buffer.  Then eapol_execute returns early, or, when the frame
\* is no EAPOL frame or of a later version, goes on to its loop all the same.
IgnoredFrame ==
    /\ NextSource("frame")
    /\ \E f \in {NullFrame, OtherFrame} :
          ctx' = [Fresh(ReleaseFrame(ctx)) EXCEPT !.recvframe = f]
    /\ \/ pc' = pc
       \/ ctx'.recvframe = OtherFrame /\ pc' = "execute"
    /\ runs' = 0
    /\ UNCHANGED saved

\* An EAP packet: the loop of eapol_execute starts.
EapFrame(f) ==
    /\ NextSource("frame")
    /\ ctx' = [Fresh(ReleaseFrame(ctx)) EXCEPT
                  !.recvframe = f, !.sm.eapolEap = TRUE]
    /\ pc' = "execute" /\ runs' = 0
    /\ UNCHANGED saved

\* One more run of the machines for the frame in the buffer.
ExecuteRun ==
    /\ pc \in {"execute", "reprocess"}
    /\ runs < MaxRuns /\ ctx.sm.eapolEap /\ ctx.conn # "NONE"
    /\ \E in \in RunInputs(ctx) : ctx' = StatemachineRun(Fresh(ctx), in)
    /\ runs' = runs + 1
    /\ UNCHANGED <<pc, saved, served>>

\* The loop ends; a password callback puts the displaced frame back.
ExecuteEnd ==
    /\ pc \in {"execute", "reprocess"}
    /\ runs = MaxRuns \/ ~ctx.sm.eapolEap \/ ctx.conn = "NONE"
    /\ ctx' = IF pc = "reprocess"
              THEN [Fresh(ReleaseFrame(ctx)) EXCEPT !.recvframe = saved]
              ELSE Fresh(ctx)
    /\ pc' = "select" /\ runs' = 0 /\ saved' = NullFrame
    /\ UNCHANGED served

(***************************************************************************)
(* Requests of the user interface.                                         *)
(***************************************************************************)
\* eap_sm_deinit and eap_sm_init; the password callback is not theirs.
ReinitEap(e) ==
    [NewEap EXCEPT
        !.pwdCallback = e.pwdCallback,
        !.pwdFrame = IF e.selectedMethod # e.lastMethod
                        /\ e.lastMethod # "NONE"
                     THEN NullFrame ELSE e.pwdFrame]

Request(kind, c) ==
    /\ kind \in UserRequests
    /\ NextSource("ipc")
    /\ ctx' = c
    /\ UNCHANGED <<pc, runs, saved>>

\* ipc_callout_change_connection.  Without a profile, EAP starts afresh only
\* for a connection that asks for 802.1X but names no profile there is.
ChangeConnection(conn) ==
    LET bound  == [Fresh(ctx) EXCEPT !.conn = conn, !.prof = ProfOf(conn)]
        afresh == [bound EXCEPT !.eap = ReinitEap(@)]
    IN  IF bound.prof = "NONE"
        THEN \E c \in {bound, afresh} : Request("connect", ToForceAuth(c))
        ELSE Request("connect", ToLogoff(afresh))

\* ipc_callout_request_logoff.
RequestLogoff ==
    Request("logoff", [ToLogoff(Fresh(ctx)) EXCEPT !.conn = "NONE",
                                                   !.eap = ReinitEap(@)])

\* ipc_callout_disconnect_connection and context_disconnect: three logoffs.
DisconnectConnection ==
    LET off == [ToLogoff(Fresh(ctx)) EXCEPT !.eap = ReinitEap(@)]
    IN  Request("disconnect", [TxLogoff(TxLogoff(off)) EXCEPT
                                  !.conn = "NONE", !.prof = "NONE"])

\* ipc_callout_request_unbind_connection.
UnbindConnection ==
    Request("unbind", [Fresh(ctx) EXCEPT !.conn = "NONE", !.prof = "NONE"])

\* The user answered: the callback replays the frame that was put aside.
SetPassword ==
    /\ "password" \in UserRequests
    /\ NextSource("ipc")
    /\ ctx.conn # "NONE" /\ ctx.eap.pwdCallback
    /\ IF ctx.eap.pwdFrame = NullFrame
       THEN /\ ctx' = [Fresh(ctx) EXCEPT !.eap.pwdCallback = FALSE]
            /\ UNCHANGED <<pc, runs, saved>>
       ELSE /\ ctx' = [Fresh(ctx) EXCEPT
                          !.eap.pwdCallback = FALSE,
                          !.eap.pwdFrame = NullFrame,
                          !.eap.lastId = (@ + IdSpace - 1) % IdSpace,
                          !.recvframe = ctx.eap.pwdFrame,
                          !.sm.eapolEap = TRUE]
            /\ pc' = "reprocess" /\ runs' = 0 /\ saved' = ctx.recvframe

(***************************************************************************)
(* The end of a pass: the clock, then the machines.  When select times out *)
(* nothing was served and a second has passed.                             *)
(***************************************************************************)
Ticked(c) == [c EXCEPT !.sm.tick = TRUE]

RunIfBound(c) ==
    IF c.conn = "NONE" THEN ctx' = c
    ELSE \E in \in RunInputs(c) : ctx' = StatemachineRun(c, in)

EndPass ==
    /\ pc = "select"
    /\ served' = {}
    /\ UNCHANGED <<pc, runs, saved>>

\* A pass that lasted a second or more, or in which select timed out.
Tick == EndPass /\ RunIfBound(Ticked(Fresh(ctx)))

\* A pass shorter than a second, whatever was served in it.
Poll == EndPass /\ RunIfBound(Fresh(ctx))

Next ==
    \/ IgnoredFrame
    \/ \E f \in AirFrames : EapFrame(f)
    \/ ExecuteRun
    \/ ExecuteEnd
    \/ \E conn \in Conns : ChangeConnection(conn)
    \/ RequestLogoff
    \/ DisconnectConnection
    \/ UnbindConnection
    \/ SetPassword
    \/ Tick
    \/ Poll

Spec == Init /\ [][Next]_vars
=============================================================================

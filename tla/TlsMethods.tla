----------------------------- MODULE TlsMethods -----------------------------
(***************************************************************************)
(* EAP-TLS (eaptls.c), EAP-PEAP (eappeap.c, peap_phase2.c) and EAP-TTLS    *)
(* (eapttls.c, ttlsphase2.c) as the EAP machine calls them for each        *)
(* request, with a server that keeps to the protocol.  One request or      *)
(* response is on its way at a time; the EAP machine repeats what is lost  *)
(* (EapPeer).                                                              *)
(*                                                                         *)
(* What the inner method makes of an inner message is a reply; it goes on  *)
(* until the server is satisfied.                                          *)
(***************************************************************************)
EXTENDS TlsFuncs, FiniteSets

CONSTANTS
    Configs,     \* records of method, resume, always (does the server give
                 \* the length of a message in one piece, too?) and replies,
                 \* the lengths of what the inner method has to say
    Mtu,         \* data in a fragment of the server
    HelloLens, FlightLens, FinishedLens,  \* messages of the peer
    ServerLens, InnerLens,                \* and of the server
    Refusals,    \* how OpenSSL may refuse a message that is whole
    MidFlight,   \* may a conversation end before its end?
    MaxConvs, MaxInner, MaxRestarts    \* bounds

ASSUME TlsAssumption ==
    /\ Configs \subseteq [method : {"TLS", "PEAP", "TTLS"},
                          resume : BOOLEAN, always : BOOLEAN,
                          replies : SUBSET (Nat \ {0})]
    /\ Mtu \in Nat \ {0}
    /\ \A lens \in {HelloLens, FlightLens, FinishedLens, ServerLens,
                    InnerLens} :
           lens \subseteq Nat \ {0}
    /\ Refusals \subseteq {"wrong_name", "unexpected", "fails"}
    /\ MidFlight \in BOOLEAN
    /\ MaxConvs \in Nat /\ MaxInner \in Nat \ {0} /\ MaxRestarts \in Nat

VARIABLES cfg,       \* the method, the profile's wish, the server's habit
          peer,      \* the supplicant
          srv,       \* the server
          req, rsp,  \* the packet on its way to the peer, or from it
          restarts

vars == <<cfg, peer, srv, req, rsp, restarts>>

\* Of an EAP machine just made.
NewPeer ==
    [data |-> "none", ctx |-> FALSE, ssl |-> "none", session |-> FALSE,
     resumable |-> FALSE, phase2 |-> FALSE, done |-> FALSE, expected |-> 0,
     soFar |-> 0, sendAck |-> FALSE, outq |-> NULL, inq |-> NULL,
     bio |-> <<>>, methodState |-> "NONE", selected |-> FALSE,
     ignore |-> FALSE, failed |-> FALSE, reinit |-> FALSE,
     asked |-> FALSE, bound |-> TRUE, reply |-> <<>>, fed |-> <<>>,
     made |-> 0]

NewServer ==
    [conv |-> 0, stage |-> "none", flight |-> <<>>, off |-> 0, got |-> <<>>,
     total |-> 0, sent |-> 0, inner |-> 0, verdict |-> "none",
     taken |-> <<>>]

(***************************************************************************)
(* The methods: init, check and process, buildResp, deinit.                *)
(***************************************************************************)
\* eaptls_deinit frees the structure and leaves the pointer in the machine.
Deinit(p) ==
    IF p.data = "none" THEN p
    ELSE [tls_funcs_deinit(p) EXCEPT
            !.data = IF cfg.method = "TLS" THEN "freed" ELSE "none"]

eaptls_init(p) ==
    [tls_funcs_init(Allocated(p)) EXCEPT
       !.data = IF p.data = "freed" THEN "crashed" ELSE @]

\* A mutant of eappeap_init: the handshake stays done.
PeapInitKeepingDone(p) ==
    LET q == IF p.data = "none" THEN tls_funcs_init(Allocated(p)) ELSE p
    IN  [q EXCEPT !.phase2 = TRUE, !.ignore = FALSE,
                  !.methodState = "MAY_CONT"]

eappeap_init(p) ==
    LET q == IF p.data = "none" THEN tls_funcs_init(Allocated(p)) ELSE p
    IN  [q EXCEPT !.done = FALSE, !.phase2 = TRUE, !.ignore = FALSE,
                  !.methodState = "MAY_CONT"]

eapttls_init(p) ==
    [tls_funcs_init(IF p.data = "none" THEN Allocated(p) ELSE p) EXCEPT
       !.done = FALSE, !.ignore = FALSE]

\* PEAP looks at each packet with a clean slate, the others do not.
Checked(p) ==
    CASE cfg.method = "TLS" -> p
      [] cfg.method = "PEAP" ->
           IF p.methodState = "INIT" THEN eappeap_init(p)
           ELSE [p EXCEPT !.ignore = FALSE]
      [] cfg.method = "TTLS" ->
           IF p.methodState = "INIT" THEN eapttls_init(p) ELSE p

eap_type_common_fail(p) == [p EXCEPT !.ignore = TRUE]

\* An inner message, when all of it is there.  A record that OpenSSL cannot
\* read fails the method.
InnerProcessed(p, reply) ==
    LET d == tls_funcs_decrypt(p)
    IN  IF ~tls_funcs_decrypt_ready(p) THEN p
        ELSE IF d.read THEN [d.peer EXCEPT !.reply = reply]
        ELSE eap_type_common_fail(d.peer)

PhaseTwo(p, r, reply) ==
    LET q == tls_funcs_buffer(p, r)
    IN  IF Spoilt(InQueue(p, r)) THEN [q EXCEPT !.ignore = FALSE]
        ELSE InnerProcessed(q, reply)

eaptls_process(p, r, x) ==
    LET q == IF p.methodState = "INIT" THEN eaptls_init(p) ELSE p
    IN  [tls_funcs_process(q, r, cfg.resume, x.hello, x.ssl) EXCEPT
           !.ignore = FALSE]

eappeap_process(p, r, x) ==
    LET q == tls_funcs_process(p, r, cfg.resume, x.hello, x.ssl)
    IN  IF ~p.phase2 THEN eap_type_common_fail(p)
        ELSE IF ~r.start /\ p.done THEN PhaseTwo(p, r, x.reply)
        ELSE IF q.methodState = "EAP_FAIL" THEN eap_type_common_fail(q) ELSE q

\* When the handshake ends it is the peer's turn to begin with phase 2.
eapttls_process(p, r, x) ==
    LET q == tls_funcs_process(p, r, cfg.resume, x.hello, x.ssl)
    IN  IF ~r.start /\ p.done THEN PhaseTwo(p, r, x.reply)
        ELSE IF q.done /\ q.methodState # "DONE"
             THEN [q EXCEPT !.reply = x.reply] ELSE q

Processed(p, r, x) ==
    CASE cfg.method = "TLS" -> eaptls_process(p, r, x)
      [] cfg.method = "PEAP" -> eappeap_process(p, r, x)
      [] cfg.method = "TTLS" -> eapttls_process(p, r, x)

\* When the handshake is done EAP-TLS has nothing more to send.
eaptls_buildResp(p) ==
    LET g == tls_funcs_get_packet(p)
    IN  IF p.done THEN [peer |-> p, packet |-> Ack]
        ELSE IF g.packet = NULL
             THEN [g EXCEPT !.peer = eap_type_common_fail(@)] ELSE g

\* A reply of phase 2 is encrypted; without one there may still be fragments
\* in the queue, which only PEAP looks at.
TunnelBuildResp(p) ==
    LET q == IF p.reply = <<>> THEN p
             ELSE [tls_funcs_encrypt(p, p.reply) EXCEPT !.reply = <<>>]
        nothing == p.reply = <<>>
                   /\ (cfg.method = "TTLS" \/ p.outq = NULL)
    IN  IF p.done /\ nothing THEN [peer |-> p, packet |-> Ack]
        ELSE tls_funcs_get_packet(IF p.done THEN q ELSE p)

BuildResp(p) ==
    IF cfg.method = "TLS" THEN eaptls_buildResp(p) ELSE TunnelBuildResp(p)

(***************************************************************************)
(* The EAP machine around them (eap_sm.c).                                 *)
(***************************************************************************)
eap_sm_change_to_initialize(p) ==
    [p EXCEPT !.selected = FALSE, !.methodState = "NONE", !.failed = FALSE,
              !.reinit = FALSE]

eap_sm_change_to_identity(p) ==
    [(IF p.selected THEN Deinit(p) ELSE p) EXCEPT
       !.selected = FALSE, !.methodState = "INIT"]

\* The first request of a method selects it.
Selected(p) ==
    IF p.selected THEN p
    ELSE [p EXCEPT !.selected = TRUE, !.methodState = "INIT"]

\* What is left of a response the method built: an ignored request is
\* discarded, and a method that is done without success fails.  EAP-TLS
\* counts on success from the first request on (eaptls.c:285).
eap_sm_change_to_method(p, r, x) ==
    LET c == Checked(p)
        q == Processed(c, r, x)
        b == BuildResp(q)
        over == b.peer.methodState = "DONE" /\ cfg.method # "TLS"
    IN  IF c.ignore THEN [peer |-> c, packet |-> NULL]
        ELSE IF q.ignore THEN [peer |-> q, packet |-> NULL]
        ELSE IF b.peer.ignore THEN [b EXCEPT !.packet = NULL]
        ELSE IF over THEN [packet |-> NULL,
                           peer |-> [b.peer EXCEPT !.failed = TRUE]]
        ELSE b

\* The messages the peer may make of this request: a hello, the outcome in
\* OpenSSL, a reply.
Made(lens) ==
    {Message("peer", srv.conv, peer.made + 1, n) : n \in lens}

Replies(o) ==
    LET k == peer.made + (IF o.out = <<>> THEN 1 ELSE 2)
    IN  {Message("peer", srv.conv, k, n) : n \in cfg.replies}

Outcome(kind, out) == [kind |-> kind, out |-> out]

\* A flight OpenSSL can read is the one the server sends; the last one opens
\* the session, and in a resumed one it has an answer.  Of an open session
\* only the name is looked at.
SslOutcomes(given) ==
    LET last == srv.stage \in {"flight2", "resumed"}
        outs == CASE srv.stage = "flight2" -> {<<>>}
                  [] srv.stage = "resumed" -> Made(FinishedLens)
                  [] OTHER -> Made(FlightLens)
        good == {Outcome(IF last THEN "opens" ELSE "goes_on", out) :
                     out \in outs}
        bad == {Outcome(kind, <<>>) : kind \in Refusals}
        again == {"goes_on"} \cup (Refusals \cap {"wrong_name"})
    IN  IF peer.ssl = "open" THEN {Outcome(kind, <<>>) : kind \in again}
        ELSE IF given = srv.flight THEN good \cup bad
        ELSE {Outcome(kind, <<>>) : kind \in {"unexpected", "fails"}}

\* What OpenSSL has been given when the request has been written.
Given == (IF peer.ssl = "none" THEN <<>> ELSE peer.bio) \o req.data

\* What those outside of this code add to it.
Inputs ==
    UNION {[hello : Made(HelloLens), ssl : {o}, reply : Replies(o)] :
               o \in SslOutcomes(Given)}

PeerHandlesRequest ==
    /\ req # NULL /\ peer.data # "crashed"
    /\ req' = NULL
    /\ UNCHANGED <<cfg, srv, restarts>>
    /\ LET p == Selected(peer)
       IN  IF ~peer.bound \/ p.methodState = "DONE"
           THEN UNCHANGED peer /\ rsp' = NULL
           ELSE \E x \in Inputs :
                \E b \in {eap_sm_change_to_method(p, req, x)} :
                    peer' = b.peer /\ rsp' = b.packet

\* The port access entity restarts the EAP machine; the server need not know.
PeerRestarts ==
    /\ restarts < MaxRestarts /\ srv.conv > 0
    /\ MidFlight \/ srv.verdict # "open"
    /\ peer' = eap_sm_change_to_initialize(peer)
    /\ restarts' = restarts + 1
    /\ UNCHANGED <<cfg, srv, req, rsp>>

\* The user disconnects or takes another connection (ipc_callout.c:2179,
\* 3108).
MachineIsRebuilt ==
    /\ peer.data # "crashed" /\ peer # NewPeer
    /\ MidFlight \/ srv.verdict # "open"
    /\ peer' = [NewPeer EXCEPT !.made = peer.made] /\ rsp' = NULL
    /\ req' = NULL
    /\ srv' = [srv EXCEPT !.verdict = "failed"]
    /\ UNCHANGED <<cfg, restarts>>

(***************************************************************************)
(* The server, with the authenticator in front of it.                      *)
(***************************************************************************)
ServerFragment(s) ==
    LET f == Fragment(s.flight, s.off, Mtu)
    IN  IF cfg.always /\ s.off = 0 THEN [f EXCEPT !.len = Len(s.flight)] ELSE f

Sends(stage, n) ==
    LET s == [srv EXCEPT !.stage = stage, !.sent = @ + 1, !.off = 0,
                  !.flight = Message("server", srv.conv, srv.sent + 1, n),
                  !.got = <<>>, !.total = 0, !.taken = srv.got \o rsp.data,
                  !.inner = IF stage = "inner" THEN @ + 1 ELSE @]
        f == ServerFragment(s)
    IN  req' = f /\ srv' = [s EXCEPT !.off = Len(f.data)]

Ends(verdict) ==
    /\ req' = NULL
    /\ srv' = [srv EXCEPT !.verdict = verdict,
                  !.taken = IF verdict = "success" THEN srv.got \o rsp.data
                            ELSE @]

\* After the handshake.
SendsInner ==
    srv.inner < MaxInner /\ \E n \in InnerLens : Sends("inner", n)

Satisfied == srv.inner > 0 \/ cfg.method = "TTLS"

\* Has the complete message something in it when it should?
Expected ==
    (srv.got \o rsp.data = <<>>)
        <=> (srv.stage = "flight2" /\ cfg.method # "TTLS")

\* What is next when it is complete.
ServerGoesOn ==
    \/ /\ srv.stage = "start"
       /\ \E n \in ServerLens :
              Sends("flight1", n) \/ (peer.session /\ Sends("resumed", n))
    \/ /\ srv.stage = "flight1"
       /\ \E n \in ServerLens : Sends("flight2", n)
    \/ /\ srv.stage = "flight2" /\ cfg.method = "TLS"
       /\ Ends("success")
    \/ /\ srv.stage = "flight2" /\ cfg.method # "TLS"
       /\ SendsInner \/ (Satisfied /\ Ends("success"))
    \/ /\ srv.stage \in {"resumed", "inner"}
       /\ SendsInner \/ (Satisfied /\ Ends("success"))

\* A response: an ACK to a fragment, a fragment to acknowledge, or the last
\* one of a message.
ServerTakes ==
    /\ rsp # NULL /\ rsp' = NULL
    /\ UNCHANGED <<cfg, peer, restarts>>
    /\ LET f == ServerFragment(srv)
           got == srv.got \o rsp.data
           total == IF rsp.len > 0 THEN rsp.len ELSE srv.total
       IN  IF srv.off < Len(srv.flight)
           THEN IF rsp = Ack
                THEN /\ req' = f
                     /\ srv' = [srv EXCEPT !.off = @ + Len(f.data)]
                ELSE Ends("failed")
           ELSE IF rsp.more
           THEN /\ req' = Ack
                /\ srv' = [srv EXCEPT !.got = got, !.total = total]
           ELSE IF total \in {0, Len(got)} /\ Expected
           THEN ServerGoesOn
           ELSE Ends("failed")

\* A new conversation, after the last one, or instead of it: the peer says
\* nothing, or the link was gone.  The server asks for the identity first.
\* After a success or a failure, and after statemachine_reinit, the port
\* access entity has restarted the EAP machine by then.
ServerBegins ==
    /\ srv.conv < MaxConvs
    /\ \/ MidFlight \/ srv.verdict # "open"
       \/ req = NULL /\ rsp = NULL
    /\ peer.bound /\ peer.data # "crashed"
    /\ LET over == srv.verdict # "open" \/ peer.failed \/ peer.reinit
           p == IF over THEN eap_sm_change_to_initialize(peer) ELSE peer
       IN  peer' = [eap_sm_change_to_identity(p) EXCEPT
                      !.made = 0, !.fed = <<>>]
    /\ srv' = [NewServer EXCEPT !.conv = srv.conv + 1, !.stage = "start",
                                !.verdict = "open"]
    /\ req' = Start /\ rsp' = NULL
    /\ UNCHANGED <<cfg, restarts>>

Init ==
    /\ cfg \in Configs
    /\ peer = NewPeer /\ srv = NewServer
    /\ req = NULL /\ rsp = NULL /\ restarts = 0

Next ==
    \/ PeerHandlesRequest
    \/ PeerRestarts
    \/ MachineIsRebuilt
    \/ ServerTakes
    \/ ServerBegins

Spec == Init /\ [][Next]_vars

\* The peer handles what it receives, and the server answers.
FairSpec == Spec /\ WF_vars(PeerHandlesRequest) /\ WF_vars(ServerTakes)

(***************************************************************************)
(* The type invariant.                                                     *)
(***************************************************************************)
Units ==
    [of : {"peer", "server"} \X (0 .. MaxConvs) \X Nat, at : Nat, last : Nat]

IsPacket(k) ==
    \/ k = NULL
    \/ /\ k.start \in BOOLEAN /\ k.more \in BOOLEAN
       /\ k.len \in Nat /\ k.data \in Seq(Units)

TypeOK ==
    /\ cfg \in Configs
    /\ peer.data \in {"none", "live", "freed", "crashed"}
    /\ peer.ssl \in {"none", "shaking", "open"}
    /\ peer.outq = NULL \/ peer.outq.off < Len(peer.outq.buf)
    /\ peer.inq = NULL \/ peer.inq.buf \in Seq(Units)
    /\ peer.bio \in Seq(Units) /\ peer.soFar \in Nat /\ peer.expected \in Nat
    /\ srv.off <= Len(srv.flight) /\ srv.inner <= MaxInner
    /\ IsPacket(req) /\ IsPacket(rsp) /\ (req = NULL \/ rsp = NULL)
    /\ restarts <= MaxRestarts
=============================================================================

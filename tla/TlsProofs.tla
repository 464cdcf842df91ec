----------------------------- MODULE TlsProofs -----------------------------
(***************************************************************************)
(* Theorems of TlsMethods, for every size of a fragment, every server and  *)
(* any number of conversations.  A method that says its handshake is done  *)
(* has an open session to take the keys from; and when EAP-TTLS resumes    *)
(* its sessions, OpenSSL and the server each get what the other has sent.  *)
(***************************************************************************)
EXTENDS TlsProperties, TLAPS, SequenceTheorems

(***************************************************************************)
(* The peer is a record of these fields, whatever is in them.              *)
(***************************************************************************)
Fields ==
    {"data", "ctx", "ssl", "session", "resumable", "phase2", "done",
     "expected", "soFar", "sendAck", "outq", "inq", "bio", "methodState",
     "selected", "ignore", "failed", "reinit", "asked", "bound", "reply",
     "fed", "made"}

IsPeer(p) == p = [f \in Fields |-> p[f]]

\* The invariant of the peer on its own.
Sound(p) == IsPeer(p) /\ (p.data = "live" /\ p.done => p.ssl = "open")

\* What a function that touches neither the session nor the flag keeps.
Keeps(p, q) ==
    /\ IsPeer(q)
    /\ q.data = p.data /\ q.done = p.done /\ q.ssl = p.ssl

Kinds == {"goes_on", "opens", "wrong_name", "unexpected", "fails"}

Methods == {"TLS", "PEAP", "TTLS"}

LEMMA KeepsSound ==
    ASSUME NEW p, NEW q, Sound(p), Keeps(p, q) PROVE Sound(q)
BY DEF Sound, Keeps

(***************************************************************************)
(* The functions of ossl_tls_funcs.c.                                      *)
(***************************************************************************)
LEMMA QueuedKeeps ==
    ASSUME NEW p, IsPeer(p), NEW data PROVE Keeps(p, Queued(p, data))
<1> DEFINE out == IF p.outq = NULL THEN [buf |-> data, off |-> 0]
                  ELSE [buf |-> p.outq.buf \o data, off |-> p.outq.off]
<1>1. Queued(p, data) = [p EXCEPT !.outq = out]
    BY DEF Queued
<1> HIDE DEF out
<1> QED
    BY <1>1 DEF Keeps, IsPeer, Fields

\* struct tls_vars as it is allocated.
LEMMA AllocatedNotDone ==
    ASSUME NEW p, IsPeer(p)
    PROVE  IsPeer(Allocated(p)) /\ ~Allocated(p).done
BY ZenonT(60) DEF Allocated, IsPeer, Fields

LEMMA InitNotDone ==
    ASSUME NEW p, IsPeer(p)
    PROVE  /\ IsPeer(tls_funcs_init(p))
           /\ tls_funcs_init(p).done = p.done
           /\ tls_funcs_init(p).data = p.data
BY DEF tls_funcs_init, IsPeer, Fields

LEMMA TlsDeinit ==
    ASSUME NEW p, IsPeer(p)
    PROVE  /\ IsPeer(tls_funcs_deinit(p))
           /\ tls_funcs_deinit(p).done = p.done
           /\ tls_funcs_deinit(p).data = p.data
BY DEF tls_funcs_deinit, IsPeer, Fields

LEMMA StartedSessionNotDone ==
    ASSUME NEW p, IsPeer(p), ~p.done, NEW resume
    PROVE  IsPeer(StartedSession(p, resume)) /\ ~StartedSession(p, resume).done
<1>1. IsPeer(tls_funcs_build_new_session(p))
      /\ ~tls_funcs_build_new_session(p).done
    BY InitNotDone DEF tls_funcs_build_new_session, IsPeer, Fields
<1> QED
    BY <1>1 DEF StartedSession, IsPeer, Fields

\* A Start finds the handshake not done, and leaves it so.
LEMMA StartSound ==
    ASSUME NEW p, IsPeer(p), ~p.done, NEW resume, NEW hello
    PROVE  Sound(ossl_funcs_do_start(p, resume, hello))
<1> DEFINE q == StartedSession(p, resume)
<1>1. IsPeer(q) /\ ~q.done
    BY StartedSessionNotDone
<1> HIDE DEF q
<1>2. CASE q.ssl = "none"
    BY <1>1, <1>2 DEF ossl_funcs_do_start, q, Sound, IsPeer, Fields
<1>3. CASE q.ssl = "new"
    BY <1>1, <1>3, ZenonT(60)
       DEF ossl_funcs_do_start, q, Sound, IsPeer, Fields
<1>4. CASE q.ssl \notin {"none", "new"}
    BY <1>1, <1>4 DEF ossl_funcs_do_start, q, Sound, IsPeer, Fields
<1> QED
    BY <1>2, <1>3, <1>4

LEMMA NothingHandedSound ==
    ASSUME NEW p, Sound(p), NEW o PROVE Sound(NothingHanded(p, o))
BY DEF NothingHanded, Sound, IsPeer, Fields

\* Only a session that is not open is given data, so that the flag is not
\* set when the session is torn down.
LEMMA HandedSound ==
    ASSUME NEW p, Sound(p), p.ssl # "open", NEW o, o.kind \in Kinds
    PROVE  Sound(Handed(p, o))
<1> DEFINE q == [p EXCEPT !.bio = <<>>, !.fed = p.bio, !.made = @ + 1]
           r == IF o.out = <<>> THEN q ELSE Queued(q, o.out)
<1>1. Keeps(p, q)
    BY DEF Keeps, Sound, IsPeer, Fields
<1>2. Keeps(p, r)
    BY <1>1, QueuedKeeps DEF Keeps
<1> HIDE DEF q, r
<1>3. /\ IsPeer(q) /\ IsPeer(r)
      /\ ~(q.data = "live" /\ q.done) /\ ~(r.data = "live" /\ r.done)
    BY <1>1, <1>2 DEF Keeps, Sound
<1>4. Handed(p, o) =
        CASE o.kind = "goes_on" -> [r EXCEPT !.methodState = "MAY_CONT"]
          [] o.kind = "opens" ->
               [r EXCEPT !.ssl = "open", !.done = TRUE,
                         !.methodState = "MAY_CONT"]
          [] o.kind = "wrong_name" ->
               [r EXCEPT !.ssl = "open", !.outq = NULL, !.inq = NULL,
                         !.methodState = "DONE"]
          [] o.kind = "unexpected" ->
               [tls_funcs_deinit(q) EXCEPT !.methodState = "DONE",
                                           !.asked = TRUE]
          [] o.kind = "fails" ->
               [tls_funcs_deinit(q) EXCEPT !.methodState = "DONE",
                                           !.bound = FALSE]
    BY DEF Handed, q, r
<1>5. CASE o.kind = "goes_on"
    BY <1>3, <1>4, <1>5 DEF Sound, IsPeer, Fields
<1>6. CASE o.kind = "opens"
    BY <1>3, <1>4, <1>6 DEF Sound, IsPeer, Fields
<1>7. CASE o.kind = "wrong_name"
    BY <1>3, <1>4, <1>7 DEF Sound, IsPeer, Fields
<1> DEFINE d == tls_funcs_deinit(q)
<1>d. IsPeer(d) /\ ~(d.data = "live" /\ d.done)
    BY <1>3, TlsDeinit
<1> HIDE DEF d
<1>8. CASE o.kind = "unexpected"
    <2>1. Handed(p, o) = [d EXCEPT !.methodState = "DONE", !.asked = TRUE]
        BY <1>4, <1>8 DEF d
    <2> QED
        BY <1>d, <2>1, ZenonT(60) DEF Sound, IsPeer, Fields
<1>9. CASE o.kind = "fails"
    <2>1. Handed(p, o) = [d EXCEPT !.methodState = "DONE", !.bound = FALSE]
        BY <1>4, <1>9 DEF d
    <2>2. IsPeer([d EXCEPT !.methodState = "DONE", !.bound = FALSE])
        BY <1>d DEF IsPeer, Fields
    <2>3. Handed(p, o).data = d.data /\ Handed(p, o).done = d.done
        BY <1>d, <2>1 DEF IsPeer, Fields
    <2> QED
        BY <1>d, <2>1, <2>2, <2>3 DEF Sound
<1> QED
    BY <1>5, <1>6, <1>7, <1>8, <1>9 DEF Kinds

\* The packet that is no Start.
LEMMA OtherSound ==
    ASSUME NEW p, Sound(p), NEW r, NEW o, o.kind \in Kinds
    PROVE  Sound(ossl_funcs_process_other(p, r, o))
<1> DEFINE q == Written(p, r)
           cleared == [q EXCEPT !.soFar = 0, !.expected = 0]
<1>1. Keeps(p, q)
    BY DEF Keeps, Written, Sound, IsPeer, Fields
<1>2. Keeps(p, cleared)
    BY <1>1 DEF Keeps, IsPeer, Fields
<1>3. Sound(q) /\ Sound(cleared)
    BY <1>1, <1>2, KeepsSound
<1> HIDE DEF q, cleared
<1>4. ossl_funcs_process_other(p, r, o) =
        CASE p.ssl = "none" ->
               [p EXCEPT !.methodState = "DONE", !.reinit = TRUE]
          [] p.ssl # "none" /\ IsAck(r) ->
               [p EXCEPT !.sendAck = FALSE, !.methodState = "CONT"]
          [] p.ssl # "none" /\ ~IsAck(r) /\ r.more -> NothingHanded(q, o)
          [] OTHER ->
               IF q.soFar # q.expected
               THEN [cleared EXCEPT !.methodState = "DONE"]
               ELSE IF p.ssl = "open" THEN NothingHanded(cleared, o)
               ELSE Handed(cleared, o)
    BY DEF ossl_funcs_process_other, q, cleared
<1>5. Sound([p EXCEPT !.methodState = "DONE", !.reinit = TRUE])
    BY DEF Sound, IsPeer, Fields
<1>6. Sound([p EXCEPT !.sendAck = FALSE, !.methodState = "CONT"])
    BY DEF Sound, IsPeer, Fields
<1>7. Sound(NothingHanded(q, o)) /\ Sound(NothingHanded(cleared, o))
    BY <1>3, NothingHandedSound
<1>8. Sound([cleared EXCEPT !.methodState = "DONE"])
    BY <1>3 DEF Sound, IsPeer, Fields
<1>9. p.ssl # "open" => Sound(Handed(cleared, o))
    BY <1>2, <1>3, HandedSound DEF Keeps
<1>10. CASE p.ssl = "none"
    BY <1>4, <1>5, <1>10
<1>11. CASE p.ssl # "none" /\ IsAck(r)
    BY <1>4, <1>6, <1>11
<1>12. CASE p.ssl # "none" /\ ~IsAck(r) /\ r.more
    BY <1>4, <1>7, <1>12
<1>13. CASE p.ssl # "none" /\ ~IsAck(r) /\ ~r.more
    BY <1>4, <1>7, <1>8, <1>9, <1>13
<1> QED
    BY <1>10, <1>11, <1>12, <1>13

LEMMA TlsProcessSound ==
    ASSUME NEW p, Sound(p), NEW r, r.start => ~p.done,
           NEW resume, NEW hello, NEW o, o.kind \in Kinds
    PROVE  Sound(tls_funcs_process(p, r, resume, hello, o))
BY StartSound, OtherSound DEF tls_funcs_process, Sound

\* Fragments, and the data of phase 2.
LEMMA GetPacketKeeps ==
    ASSUME NEW p, IsPeer(p) PROVE Keeps(p, tls_funcs_get_packet(p).peer)
<1>1. CASE p.outq = NULL
    BY <1>1 DEF tls_funcs_get_packet, Keeps
<1>2. CASE p.outq # NULL
    BY <1>2 DEF tls_funcs_get_packet, Keeps, IsPeer, Fields
<1> QED
    BY <1>1, <1>2

LEMMA BufferKeeps ==
    ASSUME NEW p, IsPeer(p), NEW r PROVE Keeps(p, tls_funcs_buffer(p, r))
BY DEF tls_funcs_buffer, Keeps, IsPeer, Fields

LEMMA DecryptKeeps ==
    ASSUME NEW p, IsPeer(p) PROVE Keeps(p, tls_funcs_decrypt(p).peer)
BY DEF tls_funcs_decrypt, Keeps, IsPeer, Fields

LEMMA EncryptKeeps ==
    ASSUME NEW p, IsPeer(p), NEW reply
    PROVE  Keeps(p, tls_funcs_encrypt(p, reply))
<1> DEFINE q == [p EXCEPT !.bio = <<>>, !.made = @ + 1]
<1>1. Keeps(p, q)
    BY DEF Keeps, IsPeer, Fields
<1> HIDE DEF q
<1>2. tls_funcs_encrypt(p, reply) = Queued(q, reply)
    BY DEF tls_funcs_encrypt, q
<1> QED
    BY <1>1, <1>2, QueuedKeeps DEF Keeps

(***************************************************************************)
(* The methods.                                                            *)
(***************************************************************************)
LEMMA DeinitSound ==
    ASSUME NEW p, Sound(p) PROVE Sound(Deinit(p))
<1> DEFINE d == tls_funcs_deinit(p)
<1>1. IsPeer(d)
    BY TlsDeinit DEF Sound
<1> HIDE DEF d
<1>2. CASE p.data = "none"
    BY <1>2 DEF Deinit
<1>3. CASE p.data # "none"
    <2>1. Deinit(p) = [d EXCEPT !.data = IF cfg.method = "TLS" THEN "freed"
                                         ELSE "none"]
        BY <1>3 DEF Deinit, d
    <2> QED
        BY <1>1, <2>1 DEF Sound, IsPeer, Fields
<1> QED
    BY <1>2, <1>3

LEMMA EapTlsInit ==
    ASSUME NEW p, IsPeer(p)
    PROVE  IsPeer(eaptls_init(p)) /\ ~eaptls_init(p).done
<1> DEFINE q == tls_funcs_init(Allocated(p))
<1>1. IsPeer(q) /\ ~q.done
    BY AllocatedNotDone, InitNotDone
<1> HIDE DEF q
<1>2. eaptls_init(p) =
        [q EXCEPT !.data = IF p.data = "freed" THEN "crashed" ELSE @]
    BY DEF eaptls_init, q
<1> QED
    BY <1>1, <1>2 DEF IsPeer, Fields

LEMMA PeapInit ==
    ASSUME NEW p, IsPeer(p)
    PROVE  IsPeer(eappeap_init(p)) /\ ~eappeap_init(p).done
<1> DEFINE q == IF p.data = "none" THEN tls_funcs_init(Allocated(p)) ELSE p
<1>1. IsPeer(q)
    BY AllocatedNotDone, InitNotDone
<1> HIDE DEF q
<1>2. eappeap_init(p) =
        [q EXCEPT !.done = FALSE, !.phase2 = TRUE, !.ignore = FALSE,
                  !.methodState = "MAY_CONT"]
    BY DEF eappeap_init, q
<1> QED
    BY <1>1, <1>2 DEF IsPeer, Fields

LEMMA TtlsInit ==
    ASSUME NEW p, IsPeer(p)
    PROVE  IsPeer(eapttls_init(p)) /\ ~eapttls_init(p).done
<1> DEFINE q == tls_funcs_init(IF p.data = "none" THEN Allocated(p) ELSE p)
<1>1. IsPeer(q)
    BY AllocatedNotDone, InitNotDone
<1> HIDE DEF q
<1>2. eapttls_init(p) = [q EXCEPT !.done = FALSE, !.ignore = FALSE]
    BY DEF eapttls_init, q
<1> QED
    BY <1>1, <1>2 DEF IsPeer, Fields

LEMMA FailKeeps ==
    ASSUME NEW p, IsPeer(p) PROVE Keeps(p, eap_type_common_fail(p))
BY DEF eap_type_common_fail, Keeps, IsPeer, Fields

LEMMA PhaseTwoKeeps ==
    ASSUME NEW p, IsPeer(p), NEW r, NEW reply
    PROVE  Keeps(p, PhaseTwo(p, r, reply))
<1> DEFINE q == tls_funcs_buffer(p, r)
           d == tls_funcs_decrypt(q)
<1>1. Keeps(p, q)
    BY BufferKeeps
<1>2. Keeps(p, d.peer)
    BY <1>1, DecryptKeeps DEF Keeps
<1> HIDE DEF q, d
<1>3. Keeps(p, [q EXCEPT !.ignore = FALSE])
    BY <1>1 DEF Keeps, IsPeer, Fields
<1>4. Keeps(p, [d.peer EXCEPT !.reply = reply])
    BY <1>2 DEF Keeps, IsPeer, Fields
<1>5. Keeps(p, eap_type_common_fail(d.peer))
    BY <1>2, FailKeeps DEF Keeps
<1>6. InnerProcessed(q, reply) =
        IF ~tls_funcs_decrypt_ready(q) THEN q
        ELSE IF d.read THEN [d.peer EXCEPT !.reply = reply]
        ELSE eap_type_common_fail(d.peer)
    BY DEF InnerProcessed, d
<1>7. Keeps(p, InnerProcessed(q, reply))
    BY <1>1, <1>4, <1>5, <1>6
<1> QED
    BY <1>3, <1>7 DEF PhaseTwo, q

(***************************************************************************)
(* The EAP machine.                                                        *)
(***************************************************************************)
\* A Start finds a method that is initialised first: eaptls_process does it
\* for EAP-TLS, and check for the other two.
LEMMA CheckedSound ==
    ASSUME NEW p, Sound(p), cfg.method \in Methods
    PROVE  /\ Sound(Checked(p))
           /\ cfg.method = "TLS" => Checked(p) = p
           /\ cfg.method # "TLS" /\ p.methodState = "INIT"
                 => ~Checked(p).done
<1>1. /\ IsPeer(eappeap_init(p)) /\ ~eappeap_init(p).done
      /\ IsPeer(eapttls_init(p)) /\ ~eapttls_init(p).done
    BY PeapInit, TtlsInit DEF Sound
<1>2. Sound(eappeap_init(p)) /\ Sound(eapttls_init(p))
    BY <1>1 DEF Sound
<1>3. Sound([p EXCEPT !.ignore = FALSE])
    BY DEF Sound, IsPeer, Fields
<1>4. CASE cfg.method = "TLS"
    BY <1>4 DEF Checked
<1>5. CASE cfg.method = "PEAP"
    BY <1>1, <1>2, <1>3, <1>5 DEF Checked
<1>6. CASE cfg.method = "TTLS"
    BY <1>1, <1>2, <1>6 DEF Checked
<1> QED
    BY <1>4, <1>5, <1>6 DEF Methods

LEMMA EapTlsProcessSound ==
    ASSUME NEW p, Sound(p), NEW r, r.start => p.methodState = "INIT",
           NEW x, x.ssl.kind \in Kinds
    PROVE  Sound(eaptls_process(p, r, x))
<1> DEFINE q == IF p.methodState = "INIT" THEN eaptls_init(p) ELSE p
           t == tls_funcs_process(q, r, cfg.resume, x.hello, x.ssl)
<1>1. Sound(q) /\ (r.start => ~q.done)
    BY EapTlsInit DEF Sound
<1>2. Sound(t)
    BY <1>1, TlsProcessSound
<1> HIDE DEF q, t
<1>3. eaptls_process(p, r, x) = [t EXCEPT !.ignore = FALSE]
    BY DEF eaptls_process, q, t
<1> QED
    BY <1>2, <1>3 DEF Sound, IsPeer, Fields

LEMMA TunnelProcessSound ==
    ASSUME NEW p, Sound(p), NEW r, r.start => ~p.done,
           NEW x, x.ssl.kind \in Kinds
    PROVE  Sound(eappeap_process(p, r, x)) /\ Sound(eapttls_process(p, r, x))
<1> DEFINE q == tls_funcs_process(p, r, cfg.resume, x.hello, x.ssl)
<1>1. Sound(q)
    BY TlsProcessSound
<1> HIDE DEF q
<1>2. /\ Sound(eap_type_common_fail(p)) /\ Sound(eap_type_common_fail(q))
      /\ Sound(PhaseTwo(p, r, x.reply))
    BY <1>1, FailKeeps, PhaseTwoKeeps, KeepsSound DEF Sound
<1>3. Sound([q EXCEPT !.reply = x.reply])
    BY <1>1 DEF Sound, IsPeer, Fields
<1>4. Sound(eappeap_process(p, r, x))
    BY <1>1, <1>2 DEF eappeap_process, q
<1>5. Sound(eapttls_process(p, r, x))
    BY <1>1, <1>2, <1>3 DEF eapttls_process, q
<1> QED
    BY <1>4, <1>5

\* What buildResp returns.
IsResult(b) == b = [peer |-> b.peer, packet |-> b.packet]

LEMMA BuildRespKeeps ==
    ASSUME NEW p, IsPeer(p)
    PROVE  Keeps(p, BuildResp(p).peer) /\ IsResult(BuildResp(p))
<1>1. \A q : IsResult(tls_funcs_get_packet(q))
    <2> TAKE q
    <2>1. CASE q.outq = NULL
        BY <2>1 DEF tls_funcs_get_packet, IsResult
    <2>2. CASE q.outq # NULL
        BY <2>2 DEF tls_funcs_get_packet, IsResult
    <2> QED
        BY <2>1, <2>2
<1>2. Keeps(p, eaptls_buildResp(p).peer) /\ IsResult(eaptls_buildResp(p))
    <2> DEFINE g == tls_funcs_get_packet(p)
    <2>1. Keeps(p, g.peer) /\ IsResult(g)
        BY <1>1, GetPacketKeeps
    <2>2. Keeps(p, eap_type_common_fail(g.peer)) /\ Keeps(p, p)
        BY <2>1, FailKeeps DEF Keeps
    <2> HIDE DEF g
    <2>3. eaptls_buildResp(p) =
            IF p.done THEN [peer |-> p, packet |-> Ack]
            ELSE IF g.packet = NULL
                 THEN [g EXCEPT !.peer = eap_type_common_fail(@)] ELSE g
        BY DEF eaptls_buildResp, g
    <2>4. [g EXCEPT !.peer = eap_type_common_fail(@)] =
            [peer |-> eap_type_common_fail(g.peer), packet |-> g.packet]
        BY <2>1 DEF IsResult
    <2> QED
        BY <2>1, <2>2, <2>3, <2>4 DEF IsResult
<1>3. Keeps(p, TunnelBuildResp(p).peer) /\ IsResult(TunnelBuildResp(p))
    <2> DEFINE e == tls_funcs_encrypt(p, p.reply)
               q == IF p.reply = <<>> THEN p ELSE [e EXCEPT !.reply = <<>>]
               u == IF p.done THEN q ELSE p
    <2>1. Keeps(p, e) /\ Keeps(p, p)
        BY EncryptKeeps DEF Keeps
    <2> HIDE DEF e
    <2>2. Keeps(p, [e EXCEPT !.reply = <<>>])
        BY <2>1 DEF Keeps, IsPeer, Fields
    <2>3. Keeps(p, u)
        BY <2>1, <2>2
    <2> HIDE DEF q, u
    <2>4. Keeps(p, tls_funcs_get_packet(u).peer)
        BY <2>3, GetPacketKeeps DEF Keeps
    <2>5. TunnelBuildResp(p) \in {[peer |-> p, packet |-> Ack],
                                  tls_funcs_get_packet(u)}
        BY DEF TunnelBuildResp, e, q, u
    <2> QED
        BY <1>1, <2>1, <2>4, <2>5 DEF IsResult
<1> QED
    BY <1>2, <1>3 DEF BuildResp

LEMMA MethodSound ==
    ASSUME NEW p, Sound(p), NEW r, r.start => p.methodState = "INIT",
           NEW x, x.ssl.kind \in Kinds, cfg.method \in Methods
    PROVE  Sound(eap_sm_change_to_method(p, r, x).peer)
<1> DEFINE c == Checked(p)
           q == Processed(c, r, x)
           b == BuildResp(q)
<1>1. /\ Sound(c)
      /\ cfg.method = "TLS" => c = p
      /\ cfg.method # "TLS" /\ p.methodState = "INIT" => ~c.done
    BY CheckedSound
<1> HIDE DEF c
<1>2. Sound(q)
    <2>1. CASE cfg.method = "TLS"
        BY <1>1, <2>1, EapTlsProcessSound DEF Processed
    <2>2. CASE cfg.method = "PEAP"
        BY <1>1, <2>2, TunnelProcessSound DEF Processed
    <2>3. CASE cfg.method = "TTLS"
        BY <1>1, <2>3, TunnelProcessSound DEF Processed
    <2> QED
        BY <2>1, <2>2, <2>3 DEF Methods
<1> HIDE DEF q
<1>3. Keeps(q, b.peer) /\ IsResult(b)
    BY <1>2, BuildRespKeeps DEF Sound
<1> HIDE DEF b
<1>4. Sound(b.peer) /\ [b EXCEPT !.packet = NULL].peer = b.peer
    BY <1>2, <1>3, KeepsSound DEF IsResult
<1>5. Sound([b.peer EXCEPT !.failed = TRUE])
    BY <1>4 DEF Sound, IsPeer, Fields
<1>6. eap_sm_change_to_method(p, r, x) =
        IF c.ignore THEN [peer |-> c, packet |-> NULL]
        ELSE IF q.ignore THEN [peer |-> q, packet |-> NULL]
        ELSE IF b.peer.ignore THEN [b EXCEPT !.packet = NULL]
        ELSE IF b.peer.methodState = "DONE" /\ cfg.method # "TLS"
        THEN [packet |-> NULL, peer |-> [b.peer EXCEPT !.failed = TRUE]]
        ELSE b
    BY DEF eap_sm_change_to_method, c, q, b
<1> QED
    BY <1>1, <1>2, <1>4, <1>5, <1>6

LEMMA InitializeSound ==
    ASSUME NEW p, Sound(p)
    PROVE  /\ Sound(eap_sm_change_to_initialize(p))
           /\ ~eap_sm_change_to_initialize(p).selected
BY DEF eap_sm_change_to_initialize, Sound, IsPeer, Fields

LEMMA IdentitySound ==
    ASSUME NEW p, Sound(p)
    PROVE  /\ Sound(eap_sm_change_to_identity(p))
           /\ ~eap_sm_change_to_identity(p).selected
<1> DEFINE d == IF p.selected THEN Deinit(p) ELSE p
<1>1. Sound(d)
    BY DeinitSound
<1> HIDE DEF d
<1>2. eap_sm_change_to_identity(p) =
        [d EXCEPT !.selected = FALSE, !.methodState = "INIT"]
    BY DEF eap_sm_change_to_identity, d
<1> QED
    BY <1>1, <1>2 DEF Sound, IsPeer, Fields

(***************************************************************************)
(* The steps.                                                              *)
(***************************************************************************)
\* A Start meets a machine that has selected no method, so that it is
\* initialised before the session is started.
SessionInv ==
    /\ cfg \in Configs
    /\ Sound(peer)
    /\ req # NULL /\ req.start => ~peer.selected

LEMMA PacketIsNoStart ==
    ASSUME NEW len, NEW more, NEW data, NEW s
    PROVE  ~Packet(len, more, data).start /\ ~ServerFragment(s).start
BY DEF Packet, ServerFragment, Fragment

LEMMA MethodIsKnown ==
    ASSUME cfg \in Configs PROVE cfg.method \in Methods
BY TlsAssumption DEF Methods

LEMMA InputsKinds ==
    ASSUME NEW x \in Inputs PROVE x.ssl.kind \in Kinds
<1>1. \A o \in SslOutcomes(Given) : o.kind \in Kinds
    BY TlsAssumption DEF SslOutcomes, Outcome, Kinds
<1>2. PICK o \in SslOutcomes(Given) : x.ssl = o
    BY DEF Inputs
<1> QED
    BY <1>1, <1>2

LEMMA SessionInit == Init => SessionInv
BY DEF Init, SessionInv, NewPeer, Sound, IsPeer, Fields

LEMMA SessionStep == SessionInv /\ [Next]_vars => SessionInv'
<1> SUFFICES ASSUME SessionInv, [Next]_vars PROVE SessionInv'
    OBVIOUS
<1>1. CASE PeerHandlesRequest
    <2> DEFINE p == Selected(peer)
    <2>1. cfg' = cfg /\ req' = NULL /\ req # NULL
        BY <1>1 DEF PeerHandlesRequest
    <2>2. Sound(p) /\ (req.start => p.methodState = "INIT")
        BY <2>1 DEF SessionInv, Selected, Sound, IsPeer, Fields
    <2> HIDE DEF p
    <2>3. peer' = peer \/ \E x \in Inputs :
              peer' = eap_sm_change_to_method(p, req, x).peer
        BY <1>1 DEF PeerHandlesRequest, p
    <2>4. cfg.method \in Methods
        BY MethodIsKnown DEF SessionInv
    <2>5. Sound(peer')
        BY <2>2, <2>3, <2>4, InputsKinds, MethodSound DEF SessionInv
    <2> QED
        BY <2>1, <2>5 DEF SessionInv, Sound, IsPeer
<1>2. CASE PeerRestarts
    <2>1. cfg' = cfg /\ peer' = eap_sm_change_to_initialize(peer)
        BY <1>2 DEF PeerRestarts
    <2>2. Sound(peer') /\ ~peer'.selected
        BY <2>1, InitializeSound DEF SessionInv
    <2> QED
        BY <2>1, <2>2 DEF SessionInv, Sound, IsPeer
<1>3. CASE MachineIsRebuilt
    <2>1. /\ cfg' = cfg /\ req' = NULL
          /\ peer' = [NewPeer EXCEPT !.made = peer.made]
        BY <1>3 DEF MachineIsRebuilt
    <2>2. Sound(peer')
        BY <2>1 DEF NewPeer, Sound, IsPeer, Fields
    <2> QED
        BY <2>1, <2>2 DEF SessionInv, Sound, IsPeer
<1>4. CASE ServerTakes
    <2>1. cfg' = cfg /\ peer' = peer
        BY <1>4 DEF ServerTakes
    <2>2. ASSUME NEW stage, NEW n, Sends(stage, n) PROVE ~req'.start
        BY <2>2, PacketIsNoStart DEF Sends
    <2>3. ASSUME NEW verdict, Ends(verdict) PROVE req' = NULL
        BY <2>3 DEF Ends
    <2>4. ServerGoesOn => req' = NULL \/ ~req'.start
        BY <2>2, <2>3 DEF ServerGoesOn, SendsInner
    <2>5. ~Ack.start /\ ~ServerFragment(srv).start
        BY PacketIsNoStart DEF Ack
    <2>6. \/ req' = ServerFragment(srv) \/ req' = Ack
          \/ ServerGoesOn \/ Ends("failed")
        BY <1>4 DEF ServerTakes
    <2>7. req' = NULL \/ ~req'.start
        BY <2>3, <2>4, <2>5, <2>6
    <2> QED
        BY <2>1, <2>7 DEF SessionInv, Sound, IsPeer
<1>5. CASE ServerBegins
    <2> DEFINE p == IF srv.verdict # "open" \/ peer.failed \/ peer.reinit
                    THEN eap_sm_change_to_initialize(peer) ELSE peer
               q == eap_sm_change_to_identity(p)
    <2>1. Sound(p)
        BY InitializeSound DEF SessionInv
    <2>2. Sound(q) /\ ~q.selected
        BY <2>1, IdentitySound
    <2> HIDE DEF p, q
    <2>3. cfg' = cfg /\ peer' = [q EXCEPT !.made = 0, !.fed = <<>>]
        BY <1>5 DEF ServerBegins, p, q
    <2>4. Sound(peer') /\ ~peer'.selected
        BY <2>2, <2>3 DEF Sound, IsPeer, Fields
    <2> QED
        BY <2>3, <2>4 DEF SessionInv, Sound, IsPeer
<1>6. CASE UNCHANGED vars
    BY <1>6 DEF vars, SessionInv, Sound, IsPeer
<1> QED
    BY <1>1, <1>2, <1>3, <1>4, <1>5, <1>6 DEF Next

\* Whenever a method says that its handshake is done, it has an open session:
\* the keys of eaptls_getKey and the others are those of the session just
\* established, whatever was resumed, refused, broken off or started over.
THEOREM SessionForKeys == Spec => []KeysHaveSession
<1>1. SessionInv => KeysHaveSession
    BY DEF SessionInv, Sound, KeysHaveSession
<1> QED
    BY <1>1, SessionInit, SessionStep, PTL DEF Spec

(***************************************************************************)
(* Data and packets.                                                       *)
(***************************************************************************)
Data == Seq(Units)

\* What goes into a queue of messages to be sent or read: whole messages of
\* the conversation.
LEMMA EmptyWhole == <<>> \in Data /\ \A c : Whole(<<>>, c)
BY DEF Data, Whole

LEMMA MessageIsData ==
    ASSUME NEW side \in {"peer", "server"}, NEW c \in 0 .. MaxConvs,
           NEW k \in Nat, NEW n \in Nat \ {0}
    PROVE  /\ Message(side, c, k, n) \in Data
           /\ Message(side, c, k, n) # <<>>
           /\ Len(Message(side, c, k, n)) = n
           /\ Message(side, c, k, n)[1].at = 1
           /\ Message(side, c, k, n)[1].last = n
           /\ Whole(Message(side, c, k, n), c)
<1> DEFINE m == Message(side, c, k, n)
           U(i) == [of |-> <<side, c, k>>, at |-> i, last |-> n]
<1>1. <<side, c, k>> \in {"peer", "server"} \X (0 .. MaxConvs) \X Nat
    OBVIOUS
<1>2. \A i \in 1 .. n : U(i) \in Units
    BY <1>1 DEF Units
<1>3. m = [i \in 1 .. n |-> U(i)]
    BY DEF Message
<1>4. m \in [1 .. n -> Units]
    BY <1>2, <1>3
<1>5. m \in Data /\ Len(m) = n /\ DOMAIN m = 1 .. n
    BY <1>4 DEF Data
<1>6. \A i \in 1 .. n : m[i] = U(i)
    BY <1>3
<1>7. m # <<>> /\ m[1].at = 1 /\ m[1].last = n
    BY <1>5, <1>6
<1>8. Whole(m, c)
    <2> SUFFICES ASSUME NEW j \in 1 .. n
                 PROVE  /\ m[j].of[2] = c
                        /\ \/ m[j].at = 1
                           \/ j > 1 /\ m[j - 1] = [m[j] EXCEPT !.at = @ - 1]
                        /\ \/ m[j].at = m[j].last
                           \/ j < n /\ m[j + 1] = [m[j] EXCEPT !.at = @ + 1]
        BY <1>5 DEF Whole
    <2>1. m[j] = U(j)
        BY <1>6
    <2>2. m[j].of[2] = c /\ m[j].at = j /\ m[j].last = n
        BY <2>1
    <2>3. j > 1 => m[j - 1] = [m[j] EXCEPT !.at = @ - 1]
        <3>1. j > 1 => m[j - 1] = U(j - 1)
            BY <1>6
        <3>2. [m[j] EXCEPT !.at = @ - 1] = U(j - 1)
            BY <2>1
        <3> QED
            BY <3>1, <3>2
    <2>4. j < n => m[j + 1] = [m[j] EXCEPT !.at = @ + 1]
        <3>1. j < n => m[j + 1] = U(j + 1)
            BY <1>6
        <3>2. [m[j] EXCEPT !.at = @ + 1] = U(j + 1)
            BY <2>1
        <3> QED
            BY <3>1, <3>2
    <2> QED
        BY <2>2, <2>3, <2>4
<1> HIDE DEF m
<1> QED
    BY <1>5, <1>7, <1>8 DEF m

\* The units on both sides of a unit.
Prior(u) == [u EXCEPT !.at = @ - 1]

Later(u) == [u EXCEPT !.at = @ + 1]

LEMMA WholeAppended ==
    ASSUME NEW a \in Data, NEW b \in Data, NEW c, Whole(a, c), Whole(b, c)
    PROVE  a \o b \in Data /\ Whole(a \o b, c)
<1> DEFINE s == a \o b
           m == Len(a)
<1>1. /\ s \in Data /\ Len(s) = m + Len(b)
      /\ \A j \in 1 .. m : s[j] = a[j]
      /\ \A j \in 1 .. Len(b) : s[m + j] = b[j]
      /\ m \in Nat /\ Len(b) \in Nat
    BY ConcatProperties DEF Data
<1>2. DOMAIN s = 1 .. (m + Len(b)) /\ DOMAIN a = 1 .. m
      /\ DOMAIN b = 1 .. Len(b)
    BY <1>1 DEF Data
<1> HIDE DEF s, m
<1> DEFINE Fits(i) == /\ s[i].of[2] = c
                      /\ \/ s[i].at = 1
                         \/ i > 1 /\ s[i - 1] = Prior(s[i])
                      /\ \/ s[i].at = s[i].last
                         \/ i < Len(s)
                            /\ s[i + 1] = Later(s[i])
<1>3. ASSUME NEW j \in 1 .. m
      PROVE  Fits(j)
    <2>1. /\ a[j].of[2] = c
          /\ \/ a[j].at = 1
             \/ j > 1 /\ a[j - 1] = Prior(a[j])
          /\ \/ a[j].at = a[j].last
             \/ j < m /\ a[j + 1] = Later(a[j])
        BY <1>2 DEF Whole, Prior, Later, m
    <2>2. s[j] = a[j] /\ (j > 1 => s[j - 1] = a[j - 1])
          /\ (j < m => s[j + 1] = a[j + 1])
        BY <1>1
    <2>3. j < m => j < Len(s)
        BY <1>1
    <2> QED
        BY <2>1, <2>2, <2>3
<1>4. ASSUME NEW j \in 1 .. Len(b)
      PROVE  Fits(m + j)
    <2>1. /\ b[j].of[2] = c
          /\ \/ b[j].at = 1
             \/ j > 1 /\ b[j - 1] = Prior(b[j])
          /\ \/ b[j].at = b[j].last
             \/ j < Len(b) /\ b[j + 1] = Later(b[j])
        BY <1>2 DEF Whole, Prior, Later
    <2>2. s[m + j] = b[j]
        BY <1>1
    <2>3. j > 1 => m + j > 1 /\ s[(m + j) - 1] = b[j - 1]
        <3> SUFFICES ASSUME j > 1
                     PROVE  m + j > 1 /\ s[(m + j) - 1] = b[j - 1]
            OBVIOUS
        <3>1. j - 1 \in 1 .. Len(b) /\ (m + j) - 1 = m + (j - 1)
            BY <1>1
        <3> QED
            BY <1>1, <3>1
    <2>4. j < Len(b) => m + j < Len(s) /\ s[m + j + 1] = b[j + 1]
        <3> SUFFICES ASSUME j < Len(b)
                     PROVE  m + j < Len(s) /\ s[m + j + 1] = b[j + 1]
            OBVIOUS
        <3>1. j + 1 \in 1 .. Len(b) /\ m + j + 1 = m + (j + 1)
            BY <1>1
        <3> QED
            BY <1>1, <3>1
    <2> QED
        BY <2>1, <2>2, <2>3, <2>4
<1>5. ASSUME NEW i \in DOMAIN s
      PROVE  i \in 1 .. m \/ \E j \in 1 .. Len(b) : i = m + j
    <2>1. i \in 1 .. m \/ (i - m \in 1 .. Len(b) /\ i = m + (i - m))
        BY <1>1, <1>2
    <2> QED
        BY <2>1
<1>6. (\A i \in DOMAIN s : Fits(i)) => Whole(s, c)
    BY DEF Whole, Prior, Later
<1> HIDE DEF Fits
<1>7. Whole(s, c)
    BY <1>3, <1>4, <1>5, <1>6
<1> QED
    BY <1>1, <1>7 DEF s

\* A packet has these fields.
PacketFields == {"start", "len", "more", "data"}

IsFrame(k) == k = [f \in PacketFields |-> k[f]]

\* A fragment is the next piece of what is sent.
LEMMA FragmentIs ==
    ASSUME NEW buf \in Data, NEW off \in Nat, off <= Len(buf),
           NEW size \in Nat \ {0}
    PROVE  LET f == Fragment(buf, off, size)
           IN  /\ IsFrame(f) /\ f.start = FALSE
               /\ f.more \in BOOLEAN /\ f.data \in Data
               /\ f.data = SubSeq(buf, off + 1, off + Len(f.data))
               /\ off + Len(f.data) <= Len(buf) /\ Len(f.data) \in Nat
               /\ off < Len(buf) => Len(f.data) > 0
               /\ f.more <=> off + Len(f.data) < Len(buf)
               /\ f.len = IF off = 0 /\ f.more THEN Len(buf) ELSE 0
<1> DEFINE f == Fragment(buf, off, size)
           end == Least(off + size, Len(buf))
<1>1. Len(buf) \in Nat
    BY DEF Data
<1>2. /\ end \in Nat /\ off <= end /\ end <= Len(buf)
      /\ off < Len(buf) => off < end
    BY <1>1 DEF Least
<1>3. f = [start |-> FALSE, more |-> end < Len(buf),
           len |-> IF off = 0 /\ end < Len(buf) THEN Len(buf) ELSE 0,
           data |-> SubSeq(buf, off + 1, end)]
    BY DEF Fragment, Packet
<1> HIDE DEF end
<1>4. f.data \in Data /\ Len(f.data) = end - off
    BY <1>1, <1>2, <1>3, SubSeqProperties DEF Data
<1>5. off + Len(f.data) = end
    BY <1>1, <1>2, <1>4
<1>6. /\ IsFrame(f) /\ f.start = FALSE
      /\ f.more \in BOOLEAN
      /\ f.data = SubSeq(buf, off + 1, end)
      /\ f.more <=> end < Len(buf)
      /\ f.len = IF off = 0 /\ end < Len(buf) THEN Len(buf) ELSE 0
    <2>1. CASE end < Len(buf)
        <3>1. f = [start |-> FALSE, more |-> TRUE,
                   len |-> IF off = 0 THEN Len(buf) ELSE 0,
                   data |-> SubSeq(buf, off + 1, end)]
            BY <1>3, <2>1
        <3> HIDE DEF f
        <3> QED
            BY <2>1, <3>1 DEF IsFrame, PacketFields
    <2>2. CASE ~(end < Len(buf))
        <3>0. (end < Len(buf)) = FALSE
            BY <2>2
        <3>1. f = [start |-> FALSE, more |-> FALSE, len |-> 0,
                   data |-> SubSeq(buf, off + 1, end)]
            BY <1>3, <3>0, Zenon
        <3> HIDE DEF f
        <3> QED
            BY <2>2, <3>1 DEF IsFrame, PacketFields
    <2> QED
        BY <2>1, <2>2
<1> HIDE DEF f
<1>7. /\ f.len = IF off = 0 /\ f.more THEN Len(buf) ELSE 0
      /\ f.more <=> off + Len(f.data) < Len(buf)
      /\ Len(f.data) \in Nat
    BY <1>1, <1>2, <1>4, <1>5, <1>6
<1>8. off < Len(buf) => Len(f.data) > 0
    BY <1>1, <1>2, <1>4
<1> QED
    BY <1>2, <1>4, <1>5, <1>6, <1>7, <1>8 DEF f

(***************************************************************************)
(* The type invariant.                                                     *)
(***************************************************************************)
IsOut(q) ==
    \/ q = NULL
    \/ /\ q = [buf |-> q.buf, off |-> q.off]
       /\ q.buf \in Data /\ q.off \in Nat /\ q.off < Len(q.buf)

IsIn(q) ==
    \/ q = NULL
    \/ q = [buf |-> q.buf, memory |-> q.memory] /\ q.buf \in Data

\* All but the state of the SSL object, which is new within a call only.
TypedBut(p) ==
    /\ IsPeer(p)
    /\ p.data \in {"none", "live", "freed", "crashed"}
    /\ p.soFar \in Nat /\ p.expected \in Nat /\ p.made \in Nat
    /\ p.bio \in Data /\ p.reply \in Data
    /\ IsOut(p.outq) /\ IsIn(p.inq)

Typed(p) == TypedBut(p) /\ p.ssl \in {"none", "shaking", "open"}

IsSome(k) ==
    /\ IsFrame(k)
    /\ k.start \in BOOLEAN /\ k.more \in BOOLEAN
    /\ k.len \in Nat /\ k.data \in Data

LEMMA AckIs ==
    /\ IsSome(Ack) /\ Ack.start = FALSE /\ Ack.len = 0
    /\ Ack.more = FALSE /\ Ack.data = <<>>
BY EmptyWhole DEF Ack, Packet, IsSome, IsFrame, PacketFields

LEMMA StartPacketIs ==
    /\ IsSome(Start) /\ Start.start = TRUE /\ Start.len = 0
    /\ Start.more = FALSE /\ Start.data = <<>>
<1>1. /\ IsFrame(Start) /\ Start.start = TRUE /\ Start.len = 0
      /\ Start.more = FALSE /\ Start.data = <<>>
      /\ Start.start \in BOOLEAN /\ Start.more \in BOOLEAN
    BY AckIs DEF Start, IsSome, IsFrame, PacketFields
<1> QED
    BY <1>1, EmptyWhole DEF IsSome

\* What those outside of this code may add.
IsInput(x) ==
    /\ x.hello \in Data /\ x.hello # <<>>
    /\ x.ssl.kind \in Kinds /\ x.ssl.out \in Data
    /\ x.reply \in Data /\ x.reply # <<>>

LEMMA DataGrows ==
    ASSUME NEW a \in Data, NEW b \in Data
    PROVE  /\ a \o b \in Data /\ Len(a \o b) = Len(a) + Len(b)
           /\ Len(a) \in Nat /\ Len(b) \in Nat /\ Len(a \o b) \in Nat
           /\ b # <<>> => Len(b) > 0 /\ Len(a \o b) > 0
<1>1. /\ a \o b \in Data /\ Len(a \o b) = Len(a) + Len(b)
      /\ Len(a) \in Nat /\ Len(b) \in Nat
      /\ b # <<>> => Len(b) > 0
    BY ConcatProperties, EmptySeq DEF Data
<1> QED
    BY <1>1

\* What is queued, with data behind it.
Behind(queue, data) ==
    IF queue = NULL THEN [buf |-> data, off |-> 0]
    ELSE [buf |-> queue.buf \o data, off |-> queue.off]

LEMMA QueuedIs ==
    ASSUME NEW p, IsPeer(p), NEW data
    PROVE  /\ IsPeer(Queued(p, data))
           /\ Queued(p, data).outq = Behind(p.outq, data)
           /\ \A f \in Fields \ {"outq"} : Queued(p, data)[f] = p[f]
<1>1. Queued(p, data) = [p EXCEPT !.outq = Behind(p.outq, data)]
    BY DEF Queued, Behind
<1> QED
    BY <1>1 DEF IsPeer, Fields

LEMMA QueuedTyped ==
    ASSUME NEW p, TypedBut(p), NEW data \in Data, data # <<>>
    PROVE  TypedBut(Queued(p, data)) /\ Queued(p, data).ssl = p.ssl
<1> DEFINE q == Queued(p, data)
<1>1. /\ IsPeer(q)
      /\ q.outq = Behind(p.outq, data)
      /\ \A f \in Fields \ {"outq"} : q[f] = p[f]
    BY QueuedIs DEF TypedBut
<1> HIDE DEF q
<1>2. IsOut(q.outq)
    <2>1. CASE p.outq = NULL
        BY <1>1, <2>1, DataGrows DEF IsOut, Behind
    <2>2. CASE p.outq # NULL
        <3>1. /\ p.outq.buf \in Data /\ p.outq.off \in Nat
              /\ p.outq.off < Len(p.outq.buf)
            BY <2>2 DEF TypedBut, IsOut
        <3>2. q.outq = [buf |-> p.outq.buf \o data, off |-> p.outq.off]
            BY <1>1, <2>2 DEF Behind
        <3>3. /\ p.outq.buf \o data \in Data
              /\ Len(p.outq.buf \o data) = Len(p.outq.buf) + Len(data)
              /\ Len(p.outq.buf) \in Nat /\ Len(data) \in Nat
            BY <3>1, DataGrows
        <3> QED
            BY <3>1, <3>2, <3>3 DEF IsOut
    <2> QED
        BY <2>1, <2>2
<1>3. /\ q.data = p.data /\ q.soFar = p.soFar /\ q.expected = p.expected
      /\ q.made = p.made /\ q.bio = p.bio /\ q.reply = p.reply
      /\ q.inq = p.inq /\ q.ssl = p.ssl
    BY <1>1 DEF Fields
<1> QED
    BY <1>1, <1>2, <1>3 DEF TypedBut, q

LEMMA AllocatedTyped ==
    ASSUME NEW p, Typed(p) PROVE Typed(Allocated(p))
<1> DEFINE q == Allocated(p)
<1>1. IsPeer(p)
    BY DEF Typed, TypedBut
<1>2. /\ IsPeer(q) /\ q.data = "live" /\ q.ssl = "none" /\ q.soFar = 0
      /\ q.expected = 0 /\ q.outq = NULL /\ q.inq = NULL /\ q.bio = <<>>
      /\ q.made = p.made /\ q.reply = p.reply
    BY <1>1, ZenonT(60) DEF Allocated, IsPeer, Fields
<1> HIDE DEF q
<1>3. Typed(q)
    BY <1>2, EmptyWhole DEF Typed, TypedBut, IsOut, IsIn
<1> QED
    BY <1>3 DEF q

LEMMA InitTyped ==
    ASSUME NEW p, Typed(p) PROVE Typed(tls_funcs_init(p))
BY DEF tls_funcs_init, Typed, TypedBut, IsPeer, Fields

LEMMA TlsDeinitTyped ==
    ASSUME NEW p, TypedBut(p)
    PROVE  /\ Typed(tls_funcs_deinit(p))
           /\ tls_funcs_deinit(p).ssl = "none"
           /\ tls_funcs_deinit(p).outq = NULL
BY DEF tls_funcs_deinit, Typed, TypedBut, IsPeer, Fields, IsOut, IsIn

LEMMA StartedSessionTyped ==
    ASSUME NEW p, Typed(p), NEW resume
    PROVE  /\ TypedBut(StartedSession(p, resume))
           /\ StartedSession(p, resume).ssl
                 \in {"none", "new", "shaking", "open"}
<1> DEFINE q == IF p.ctx THEN p ELSE tls_funcs_init(p)
           n == tls_funcs_build_new_session(p)
<1>1. Typed(q)
    BY InitTyped
<1> HIDE DEF q
<1>2. n = [q EXCEPT !.ssl = IF q.ctx THEN "new" ELSE "none",
                    !.session = FALSE,
                    !.resumable = IF q.ctx THEN TRUE ELSE @]
    BY DEF tls_funcs_build_new_session, q
<1>3. TypedBut(n) /\ n.ssl \in {"none", "new"}
    BY <1>1, <1>2 DEF Typed, TypedBut, IsPeer, Fields
<1> HIDE DEF n
<1> DEFINE s == [p EXCEPT !.ssl = "new", !.session = (p.ssl = "open")]
<1>4. TypedBut(s) /\ s.ssl = "new"
    BY DEF Typed, TypedBut, IsPeer, Fields
<1> HIDE DEF s
<1>5. StartedSession(p, resume) \in {n, s, p}
    BY DEF StartedSession, n, s
<1> QED
    BY <1>3, <1>4, <1>5 DEF Typed

LEMMA StartTyped ==
    ASSUME NEW p, Typed(p), NEW resume, NEW hello \in Data, hello # <<>>
    PROVE  Typed(ossl_funcs_do_start(p, resume, hello))
<1> DEFINE q == StartedSession(p, resume)
<1>1. TypedBut(q) /\ q.ssl \in {"none", "new", "shaking", "open"}
    BY StartedSessionTyped
<1> HIDE DEF q
<1>2. CASE q.ssl = "none"
    BY <1>1, <1>2
       DEF ossl_funcs_do_start, q, Typed, TypedBut, IsPeer, Fields
<1>3. CASE q.ssl = "new"
    <2>1. ossl_funcs_do_start(p, resume, hello) =
            [q EXCEPT !.ssl = "shaking", !.bio = <<>>, !.inq = NULL,
                      !.outq = [buf |-> hello, off |-> 0],
                      !.made = @ + 1, !.asked = FALSE,
                      !.methodState = "CONT"]
        BY <1>3 DEF ossl_funcs_do_start, q
    <2>2. IsOut([buf |-> hello, off |-> 0]) /\ IsIn(NULL)
        BY DataGrows DEF IsOut, IsIn
    <2> DEFINE t == ossl_funcs_do_start(p, resume, hello)
    <2>3. /\ IsPeer(t) /\ t.ssl = "shaking" /\ t.bio = <<>>
          /\ t.inq = NULL /\ t.outq = [buf |-> hello, off |-> 0]
          /\ t.made = q.made + 1 /\ t.data = q.data
          /\ t.soFar = q.soFar /\ t.expected = q.expected
          /\ t.reply = q.reply
        <3> DEFINE out == [buf |-> hello, off |-> 0]
                   k == q.made + 1
        <3>1. t = [q EXCEPT !.ssl = "shaking", !.bio = <<>>, !.inq = NULL,
                            !.outq = out, !.made = k, !.asked = FALSE,
                            !.methodState = "CONT"]
            BY <2>1
        <3>2. IsPeer(q)
            BY <1>1 DEF TypedBut
        <3> HIDE DEF t, out, k
        <3>3. /\ IsPeer(t) /\ t.ssl = "shaking" /\ t.bio = <<>>
              /\ t.inq = NULL /\ t.outq = out
              /\ t.made = k /\ t.data = q.data
              /\ t.soFar = q.soFar /\ t.expected = q.expected
              /\ t.reply = q.reply
            BY <3>1, <3>2 DEF IsPeer, Fields
        <3> QED
            BY <3>3 DEF out, k
    <2> QED
        BY <1>1, <2>2, <2>3, EmptyWhole DEF Typed, TypedBut
<1>4. CASE q.ssl \in {"shaking", "open"}
    <2>1. ossl_funcs_do_start(p, resume, hello) =
            [q EXCEPT !.bio = <<>>, !.methodState = "EAP_FAIL"]
        BY <1>4 DEF ossl_funcs_do_start, q
    <2> QED
        BY <1>1, <1>4, <2>1, EmptyWhole DEF Typed, TypedBut, IsPeer, Fields
<1> QED
    BY <1>1, <1>2, <1>3, <1>4

\* What is counted and put into ssl_in.
LEMMA WrittenIs ==
    ASSUME NEW p, Typed(p), NEW r, IsSome(r)
    PROVE  LET q == Written(p, r)
           IN  /\ Typed(q)
               /\ q.soFar = p.soFar + Len(r.data) /\ q.bio = p.bio \o r.data
               /\ r.len > 0 => q.expected = r.len
               /\ q.sendAck = r.more /\ q.outq = p.outq /\ q.inq = p.inq
               /\ q.ssl = p.ssl /\ q.done = p.done /\ q.data = p.data
               /\ q.resumable = p.resumable /\ q.reply = p.reply
               /\ q.ignore = p.ignore /\ q.selected = p.selected
               /\ q.fed = p.fed
<1>1. p.bio \o r.data \in Data /\ Len(r.data) \in Nat
    BY DataGrows DEF Typed, TypedBut, IsSome
<1> DEFINE q == Written(p, r)
           n == IF r.len > 0 THEN r.len
                ELSE IF ~r.more /\ p.expected = 0 THEN Len(r.data)
                ELSE p.expected
<1>2. n \in Nat /\ (r.len > 0 => n = r.len)
    BY <1>1 DEF Typed, TypedBut, IsSome
<1>3. q = [p EXCEPT !.sendAck = r.more, !.soFar = @ + Len(r.data),
                    !.bio = @ \o r.data, !.expected = n]
    BY DEF Written
<1> HIDE DEF n
<1>4. /\ IsPeer(q) /\ q.expected = n /\ q.made = p.made
      /\ q.soFar = p.soFar + Len(r.data) /\ q.bio = p.bio \o r.data
      /\ q.sendAck = r.more /\ q.outq = p.outq /\ q.inq = p.inq
      /\ q.ssl = p.ssl /\ q.done = p.done /\ q.data = p.data
      /\ q.resumable = p.resumable /\ q.reply = p.reply
      /\ q.ignore = p.ignore /\ q.selected = p.selected
      /\ q.fed = p.fed
    <2>1. IsPeer(p)
        BY DEF Typed, TypedBut
    <2> QED
        <3> DEFINE m == r.more
                   far == p.soFar + Len(r.data)
                   bio == p.bio \o r.data
        <3>1. q = [p EXCEPT !.sendAck = m, !.soFar = far, !.bio = bio,
                            !.expected = n]
            BY <1>3
        <3> HIDE DEF q, m, far, bio
        <3>2. /\ IsPeer(q) /\ q.expected = n /\ q.made = p.made
              /\ q.soFar = far /\ q.bio = bio /\ q.sendAck = m
              /\ q.outq = p.outq /\ q.inq = p.inq
              /\ q.ssl = p.ssl /\ q.done = p.done /\ q.data = p.data
              /\ q.resumable = p.resumable /\ q.reply = p.reply
              /\ q.ignore = p.ignore /\ q.selected = p.selected
              /\ q.fed = p.fed
            BY <2>1, <3>1 DEF IsPeer, Fields
        <3> QED
            BY <3>2 DEF m, far, bio
<1> HIDE DEF q
<1>5. Typed(q)
    BY <1>1, <1>2, <1>4 DEF Typed, TypedBut
<1> QED
    BY <1>2, <1>4, <1>5 DEF q

LEMMA NothingHandedTyped ==
    ASSUME NEW p, Typed(p), NEW o PROVE Typed(NothingHanded(p, o))
<1>1. CASE p.ssl = "open" /\ o.kind = "wrong_name"
    BY <1>1 DEF NothingHanded, Typed, TypedBut, IsPeer, Fields, IsOut, IsIn
<1>2. CASE p.ssl = "open" /\ o.kind # "wrong_name"
    BY <1>2 DEF NothingHanded, Typed, TypedBut, IsPeer, Fields
<1>3. CASE p.ssl # "open"
    BY <1>3 DEF NothingHanded, Typed, TypedBut, IsPeer, Fields
<1> QED
    BY <1>1, <1>2, <1>3

LEMMA HandedTyped ==
    ASSUME NEW p, Typed(p), NEW o, o.kind \in Kinds, o.out \in Data
    PROVE  Typed(Handed(p, o))
<1> DEFINE q == [p EXCEPT !.bio = <<>>, !.fed = p.bio, !.made = @ + 1]
           r == IF o.out = <<>> THEN q ELSE Queued(q, o.out)
           d == tls_funcs_deinit(q)
<1>1. Typed(q)
    <2>1. /\ IsPeer(q) /\ q.ssl = p.ssl /\ q.bio = <<>>
          /\ q.inq = p.inq /\ q.outq = p.outq /\ q.made = p.made + 1
          /\ q.data = p.data /\ q.soFar = p.soFar
          /\ q.expected = p.expected /\ q.reply = p.reply
        BY DEF Typed, TypedBut, IsPeer, Fields
    <2> HIDE DEF q
    <2> QED
        BY <2>1, EmptyWhole DEF Typed, TypedBut
<1>2. Typed(r)
    BY <1>1, QueuedTyped DEF Typed
<1>3. Typed(d)
    BY <1>1, TlsDeinitTyped DEF Typed
<1> HIDE DEF q, r, d
<1>4. Handed(p, o) \in
        {[r EXCEPT !.methodState = "MAY_CONT"],
         [r EXCEPT !.ssl = "open", !.done = TRUE, !.methodState = "MAY_CONT"],
         [r EXCEPT !.ssl = "open", !.outq = NULL, !.inq = NULL,
                   !.methodState = "DONE"],
         [d EXCEPT !.methodState = "DONE", !.asked = TRUE],
         [d EXCEPT !.methodState = "DONE", !.bound = FALSE]}
    BY DEF Handed, Kinds, q, r, d
<1>5. /\ Typed([r EXCEPT !.methodState = "MAY_CONT"])
      /\ Typed([r EXCEPT !.ssl = "open", !.done = TRUE,
                         !.methodState = "MAY_CONT"])
    BY <1>2 DEF Typed, TypedBut, IsPeer, Fields
<1>6. Typed([r EXCEPT !.ssl = "open", !.outq = NULL, !.inq = NULL,
                      !.methodState = "DONE"])
    BY <1>2 DEF Typed, TypedBut, IsPeer, Fields, IsOut, IsIn
<1>7. /\ Typed([d EXCEPT !.methodState = "DONE", !.asked = TRUE])
      /\ Typed([d EXCEPT !.methodState = "DONE", !.bound = FALSE])
    BY <1>3 DEF Typed, TypedBut, IsPeer, Fields
<1> QED
    BY <1>4, <1>5, <1>6, <1>7

LEMMA OtherTyped ==
    ASSUME NEW p, Typed(p), NEW r, IsSome(r),
           NEW o, o.kind \in Kinds, o.out \in Data
    PROVE  Typed(ossl_funcs_process_other(p, r, o))
<1> DEFINE q == Written(p, r)
           c == [q EXCEPT !.soFar = 0, !.expected = 0]
<1>1. Typed(q)
    BY WrittenIs
<1> HIDE DEF q
<1>2. Typed(c)
    BY <1>1 DEF Typed, TypedBut, IsPeer, Fields
<1> HIDE DEF c
<1>3. ossl_funcs_process_other(p, r, o) \in
        {[p EXCEPT !.methodState = "DONE", !.reinit = TRUE],
         [p EXCEPT !.sendAck = FALSE, !.methodState = "CONT"],
         NothingHanded(q, o), [c EXCEPT !.methodState = "DONE"],
         NothingHanded(c, o), Handed(c, o)}
    BY DEF ossl_funcs_process_other, q, c
<1>4. /\ Typed([p EXCEPT !.methodState = "DONE", !.reinit = TRUE])
      /\ Typed([p EXCEPT !.sendAck = FALSE, !.methodState = "CONT"])
    BY DEF Typed, TypedBut, IsPeer, Fields
<1>5. Typed([c EXCEPT !.methodState = "DONE"])
    BY <1>2 DEF Typed, TypedBut, IsPeer, Fields
<1> QED
    BY <1>1, <1>2, <1>3, <1>4, <1>5, NothingHandedTyped, HandedTyped

\* The next fragment, or an ACK: what is left is kept behind it.
LEMMA GetPacketTyped ==
    ASSUME NEW p, Typed(p)
    PROVE  LET g == tls_funcs_get_packet(p)
           IN  /\ Typed(g.peer) /\ IsResult(g)
               /\ g.packet = NULL \/ (IsSome(g.packet) /\ ~g.packet.start)
<1> DEFINE g == tls_funcs_get_packet(p)
<1>1. IsSome(Ack) /\ ~Ack.start
    BY AckIs
<1>2. CASE p.outq = NULL
    BY <1>1, <1>2 DEF tls_funcs_get_packet, IsResult
<1>3. CASE p.outq # NULL
    <2> DEFINE f == Fragment(p.outq.buf, p.outq.off, Chunk)
               n == IF f.more
                    THEN [buf |-> p.outq.buf,
                          off |-> p.outq.off + Len(f.data)]
                    ELSE NULL
    <2>1. /\ p.outq = [buf |-> p.outq.buf, off |-> p.outq.off]
          /\ p.outq.buf \in Data /\ p.outq.off \in Nat
          /\ p.outq.off < Len(p.outq.buf) /\ Len(p.outq.buf) \in Nat
        BY <1>3, DataGrows DEF Typed, TypedBut, IsOut
    <2>2. /\ IsFrame(f) /\ f.start = FALSE
          /\ f.more \in BOOLEAN /\ f.data \in Data
          /\ p.outq.off + Len(f.data) <= Len(p.outq.buf)
          /\ Len(f.data) \in Nat
          /\ f.more <=> p.outq.off + Len(f.data) < Len(p.outq.buf)
          /\ f.len = IF p.outq.off = 0 /\ f.more
                     THEN Len(p.outq.buf) ELSE 0
        <3>1. p.outq.off <= Len(p.outq.buf) /\ Chunk \in Nat \ {0}
            BY <2>1, ChunkAssumption
        <3> QED
            BY <2>1, <3>1, FragmentIs
    <2>3. g = [packet |-> f, peer |-> [p EXCEPT !.outq = n]]
        BY <1>3 DEF tls_funcs_get_packet
    <2> HIDE DEF f
    <2>4. IsOut(n)
        BY <2>1, <2>2 DEF IsOut
    <2> HIDE DEF n
    <2>5. Typed([p EXCEPT !.outq = n])
        BY <2>4 DEF Typed, TypedBut, IsPeer, Fields
    <2>6. IsSome(f) /\ ~f.start
        <3>1. f.len \in Nat
            BY <2>1, <2>2
        <3> QED
            BY <2>2, <3>1 DEF IsSome
    <2> QED
        BY <2>3, <2>5, <2>6 DEF IsResult
<1> QED
    BY <1>2, <1>3

\* The queue of phase 2 after a fragment.
Gathered(queue, r) == [buf |-> queue.buf \o r.data, memory |-> TRUE]

LEMMA BufferIs ==
    ASSUME NEW p, Typed(p), NEW r, IsSome(r)
    PROVE  LET q == tls_funcs_buffer(p, r)
               queue == InQueue(p, r)
           IN  /\ Typed(q)
               /\ queue.buf \in Data
               /\ ~Spoilt(queue) => /\ q.inq = Gathered(queue, r)
                                    /\ q.inq.buf = queue.buf \o r.data
               /\ Spoilt(queue) => q.inq = queue
               /\ q.expected = IF r.len > 0 THEN r.len ELSE p.expected
               /\ q.soFar = p.soFar /\ q.bio = p.bio /\ q.outq = p.outq
               /\ q.ssl = p.ssl /\ q.done = p.done /\ q.data = p.data
               /\ q.resumable = p.resumable /\ q.reply = p.reply
               /\ q.ignore = p.ignore /\ q.selected = p.selected
               /\ q.methodState = p.methodState /\ q.fed = p.fed
<1> DEFINE q == tls_funcs_buffer(p, r)
           queue == InQueue(p, r)
           n == IF Spoilt(queue) THEN queue ELSE Gathered(queue, r)
<1>1. queue = [buf |-> queue.buf, memory |-> queue.memory]
      /\ queue.buf \in Data
    BY EmptyWhole DEF InQueue, NewQueue, Typed, TypedBut, IsIn
<1>2. q = [p EXCEPT !.expected = IF r.len > 0 THEN r.len ELSE @,
                    !.inq = n]
    BY DEF tls_funcs_buffer, Gathered
<1> HIDE DEF queue
<1>3. IsIn(n)
    BY <1>1, DataGrows DEF IsIn, IsSome, Gathered
<1>4. /\ ~Spoilt(queue) => n = Gathered(queue, r)
      /\ Spoilt(queue) => n = queue
    OBVIOUS
<1>g. Gathered(queue, r).buf = queue.buf \o r.data
    BY DEF Gathered
<1> HIDE DEF n, q
<1>5. Typed(q)
    BY <1>2, <1>3 DEF Typed, TypedBut, IsSome, IsPeer, Fields
<1>6. /\ q.inq = n
      /\ q.expected = IF r.len > 0 THEN r.len ELSE p.expected
      /\ q.soFar = p.soFar /\ q.bio = p.bio /\ q.outq = p.outq
      /\ q.ssl = p.ssl /\ q.done = p.done /\ q.data = p.data
      /\ q.resumable = p.resumable /\ q.reply = p.reply
      /\ q.ignore = p.ignore /\ q.selected = p.selected
      /\ q.methodState = p.methodState /\ q.fed = p.fed
    BY <1>2 DEF Typed, TypedBut, IsPeer, Fields
<1>7. ~Spoilt(queue) => q.inq.buf = queue.buf \o r.data
    BY <1>4, <1>6, <1>g
<1> QED
    BY <1>1, <1>4, <1>5, <1>6, <1>7 DEF q, queue

\* What OpenSSL reads and what it keeps.
LEMMA DecryptTyped ==
    ASSUME NEW p, Typed(p), p.inq.buf \in Data, p.inq.buf # <<>>
    PROVE  Typed(tls_funcs_decrypt(p).peer)
<1> DEFINE data == p.bio \o p.inq.buf
           size == data[1].last
           whole == data[1].at = 1 /\ size <= Len(data)
           rest == IF whole THEN SubSeq(data, size + 1, Len(data)) ELSE data
           fed == IF whole THEN SubSeq(data, 1, size) ELSE data
<1>1. data \in Data /\ Len(data) \in Nat /\ Len(data) > 0
    <2>1. p.bio \in Data
        BY DEF Typed, TypedBut
    <2> QED
        BY <2>1, DataGrows
<1>2. tls_funcs_decrypt(p).peer =
        [p EXCEPT !.inq = NULL, !.fed = fed, !.bio = rest]
    BY DEF tls_funcs_decrypt
<1> HIDE DEF data
<1>3. size \in Nat
    <2>1. data[1] \in Units
        BY <1>1 DEF Data
    <2> QED
        BY <2>1 DEF Units
<1>4. rest \in Data
    BY <1>1, <1>3, SubSeqProperties DEF Data
<1> HIDE DEF rest, fed
<1> DEFINE u == tls_funcs_decrypt(p).peer
<1>5. IsPeer(p)
    BY DEF Typed, TypedBut
<1>6. /\ IsPeer(u) /\ u.inq = NULL /\ u.bio = rest /\ u.data = p.data
      /\ u.soFar = p.soFar /\ u.expected = p.expected /\ u.made = p.made
      /\ u.reply = p.reply /\ u.outq = p.outq /\ u.ssl = p.ssl
    BY <1>2, <1>5 DEF IsPeer, Fields
<1> HIDE DEF u
<1>7. Typed(u)
    BY <1>4, <1>6 DEF Typed, TypedBut, IsIn
<1> QED
    BY <1>7 DEF u

LEMMA EncryptTyped ==
    ASSUME NEW p, Typed(p), NEW reply \in Data, reply # <<>>
    PROVE  Typed(tls_funcs_encrypt(p, reply))
<1> DEFINE q == [p EXCEPT !.bio = <<>>, !.made = @ + 1]
<1>1. Typed(q)
    <2>1. /\ IsPeer(q) /\ q.ssl = p.ssl /\ q.bio = <<>>
          /\ q.inq = p.inq /\ q.outq = p.outq /\ q.made = p.made + 1
          /\ q.data = p.data /\ q.soFar = p.soFar
          /\ q.expected = p.expected /\ q.reply = p.reply
        BY DEF Typed, TypedBut, IsPeer, Fields
    <2> HIDE DEF q
    <2> QED
        BY <2>1, EmptyWhole DEF Typed, TypedBut
<1> HIDE DEF q
<1>2. tls_funcs_encrypt(p, reply) = Queued(q, reply)
    BY DEF tls_funcs_encrypt, q
<1> QED
    BY <1>1, <1>2, QueuedTyped DEF Typed

LEMMA DeinitTyped ==
    ASSUME NEW p, Typed(p) PROVE Typed(Deinit(p))
<1> DEFINE d == tls_funcs_deinit(p)
<1>1. Typed(d)
    BY TlsDeinitTyped DEF Typed
<1> HIDE DEF d
<1>2. Deinit(p) = IF p.data = "none" THEN p
                  ELSE [d EXCEPT !.data = IF cfg.method = "TLS" THEN "freed"
                                          ELSE "none"]
    BY DEF Deinit, d
<1> QED
    BY <1>1, <1>2 DEF Typed, TypedBut, IsPeer, Fields

LEMMA InitsTyped ==
    ASSUME NEW p, Typed(p)
    PROVE  /\ Typed(eaptls_init(p))
           /\ Typed(eappeap_init(p))
           /\ Typed(eapttls_init(p))
<1> DEFINE a == tls_funcs_init(Allocated(p))
           b == IF p.data = "none" THEN a ELSE p
           c == tls_funcs_init(IF p.data = "none" THEN Allocated(p) ELSE p)
<1>1. Typed(a) /\ Typed(b) /\ Typed(c)
    BY AllocatedTyped, InitTyped
<1> HIDE DEF a, b, c
<1>2. Typed(eaptls_init(p))
    <2>1. eaptls_init(p) =
            [a EXCEPT !.data = IF p.data = "freed" THEN "crashed" ELSE @]
        BY DEF eaptls_init, a
    <2> QED
        BY <1>1, <2>1 DEF Typed, TypedBut, IsPeer, Fields
<1>3. Typed(eappeap_init(p))
    <2>1. eappeap_init(p) =
            [b EXCEPT !.done = FALSE, !.phase2 = TRUE, !.ignore = FALSE,
                      !.methodState = "MAY_CONT"]
        BY DEF eappeap_init, a, b
    <2> QED
        BY <1>1, <2>1 DEF Typed, TypedBut, IsPeer, Fields
<1>4. Typed(eapttls_init(p))
    <2>1. eapttls_init(p) = [c EXCEPT !.done = FALSE, !.ignore = FALSE]
        BY DEF eapttls_init, c
    <2> QED
        BY <1>1, <2>1 DEF Typed, TypedBut, IsPeer, Fields
<1> QED
    BY <1>2, <1>3, <1>4

LEMMA CheckedTyped ==
    ASSUME NEW p, Typed(p), cfg.method \in Methods
    PROVE  Typed(Checked(p))
<1>1. Typed([p EXCEPT !.ignore = FALSE])
    BY DEF Typed, TypedBut, IsPeer, Fields
<1> QED
    BY <1>1, InitsTyped DEF Checked, Methods

LEMMA FailTyped ==
    ASSUME NEW p, Typed(p) PROVE Typed(eap_type_common_fail(p))
BY DEF eap_type_common_fail, Typed, TypedBut, IsPeer, Fields

LEMMA PhaseTwoTyped ==
    ASSUME NEW p, Typed(p), NEW r, IsSome(r), NEW reply \in Data
    PROVE  Typed(PhaseTwo(p, r, reply))
<1> DEFINE q == tls_funcs_buffer(p, r)
           d == tls_funcs_decrypt(q)
<1>1. Typed(q)
    BY BufferIs
<1>2. Typed([q EXCEPT !.ignore = FALSE])
    BY <1>1 DEF Typed, TypedBut, IsPeer, Fields
<1>3. ~Spoilt(InQueue(p, r)) => q.inq.buf \in Data
    <2>1. InQueue(p, r).buf \in Data
        BY BufferIs
    <2>2. InQueue(p, r).buf \o r.data \in Data
        BY <2>1, DataGrows DEF IsSome
    <2>3. ~Spoilt(InQueue(p, r)) => q.inq.buf = InQueue(p, r).buf \o r.data
        <3>1. ~Spoilt(InQueue(p, r)) => q.inq = Gathered(InQueue(p, r), r)
            BY BufferIs, ZenonT(60)
        <3>2. Gathered(InQueue(p, r), r).buf = InQueue(p, r).buf \o r.data
            BY DEF Gathered
        <3> HIDE DEF q
        <3> QED
            BY <3>1, <3>2
    <2> HIDE DEF q
    <2> QED
        BY <2>2, <2>3
<1> HIDE DEF q
<1>4. ASSUME q.inq.buf \in Data
      PROVE  Typed(InnerProcessed(q, reply))
    <2>1. CASE ~tls_funcs_decrypt_ready(q)
        BY <1>1, <2>1 DEF InnerProcessed
    <2>2. CASE tls_funcs_decrypt_ready(q)
        <3>1. Typed(d.peer)
            BY <1>1, <1>4, <2>2, DecryptTyped DEF tls_funcs_decrypt_ready
        <3>2. InnerProcessed(q, reply) \in
                {[d.peer EXCEPT !.reply = reply], eap_type_common_fail(d.peer)}
            BY <2>2 DEF InnerProcessed
        <3> HIDE DEF d
        <3>3. Typed([d.peer EXCEPT !.reply = reply])
            BY <3>1 DEF Typed, TypedBut, IsPeer, Fields
        <3> QED
            BY <3>1, <3>2, <3>3, FailTyped
    <2> QED
        BY <2>1, <2>2
<1> QED
    BY <1>2, <1>3, <1>4 DEF PhaseTwo, q

LEMMA ProcessedTyped ==
    ASSUME NEW p, Typed(p), NEW r, IsSome(r), NEW x, IsInput(x),
           cfg.method \in Methods
    PROVE  Typed(Processed(p, r, x))
<1>1. ASSUME NEW q, Typed(q)
      PROVE  Typed(tls_funcs_process(q, r, cfg.resume, x.hello, x.ssl))
    BY <1>1, StartTyped, OtherTyped DEF tls_funcs_process, IsInput
<1> DEFINE i == IF p.methodState = "INIT" THEN eaptls_init(p) ELSE p
           s == tls_funcs_process(i, r, cfg.resume, x.hello, x.ssl)
           t == tls_funcs_process(p, r, cfg.resume, x.hello, x.ssl)
<1>2. Typed(s) /\ Typed(t)
    BY <1>1, InitsTyped
<1> HIDE DEF i, s, t
<1>3. Typed([s EXCEPT !.ignore = FALSE])
      /\ Typed([t EXCEPT !.reply = x.reply])
    BY <1>2 DEF Typed, TypedBut, IsPeer, Fields, IsInput
<1>4. /\ Typed(eap_type_common_fail(p)) /\ Typed(eap_type_common_fail(t))
      /\ Typed(PhaseTwo(p, r, x.reply))
    BY <1>2, FailTyped, PhaseTwoTyped DEF IsInput
<1>5. Typed(eaptls_process(p, r, x))
    BY <1>3 DEF eaptls_process, i, s
<1>6. Typed(eappeap_process(p, r, x))
    BY <1>2, <1>4 DEF eappeap_process, t
<1>7. Typed(eapttls_process(p, r, x))
    BY <1>2, <1>3, <1>4 DEF eapttls_process, t
<1> QED
    BY <1>5, <1>6, <1>7 DEF Processed, Methods

LEMMA BuildRespTyped ==
    ASSUME NEW p, Typed(p)
    PROVE  LET b == BuildResp(p)
           IN  /\ Typed(b.peer) /\ IsResult(b)
               /\ b.packet = NULL \/ (IsSome(b.packet) /\ ~b.packet.start)
<1> DEFINE Good(b) == /\ Typed(b.peer) /\ IsResult(b)
                      /\ \/ b.packet = NULL
                         \/ IsSome(b.packet) /\ ~b.packet.start
           a == [peer |-> p, packet |-> Ack]
           g == tls_funcs_get_packet(p)
           h == [g EXCEPT !.peer = eap_type_common_fail(@)]
           e == tls_funcs_encrypt(p, p.reply)
           q == IF p.reply = <<>> THEN p ELSE [e EXCEPT !.reply = <<>>]
<1>1. Good(a)
    BY AckIs DEF IsResult
<1>2. \A s : Typed(s) => Good(tls_funcs_get_packet(s))
    BY GetPacketTyped
<1>3. Good(g)
    BY <1>2
<1> HIDE DEF g
<1>4. Good(h)
    BY <1>3, FailTyped DEF IsResult
<1>5. Typed(q)
    <2>1. CASE p.reply = <<>>
        BY <2>1
    <2>2. CASE p.reply # <<>>
        <3>1. Typed(e)
            BY <2>2, EncryptTyped DEF Typed, TypedBut
        <3> HIDE DEF e
        <3> QED
            BY <2>2, <3>1, EmptyWhole DEF Typed, TypedBut, IsPeer, Fields
    <2> QED
        BY <2>1, <2>2
<1>6. Good(tls_funcs_get_packet(IF p.done THEN q ELSE p))
    BY <1>2, <1>5
<1> HIDE DEF h, Good
<1>7. eaptls_buildResp(p) \in {a, g, h}
    BY DEF eaptls_buildResp, g, h
<1>8. TunnelBuildResp(p) \in
        {a, tls_funcs_get_packet(IF p.done THEN q ELSE p)}
    BY DEF TunnelBuildResp
<1>9. Good(BuildResp(p))
    BY <1>1, <1>3, <1>4, <1>6, <1>7, <1>8 DEF BuildResp
<1> QED
    BY <1>9 DEF Good

LEMMA MethodTyped ==
    ASSUME NEW p, Typed(p), NEW r, IsSome(r), NEW x, IsInput(x),
           cfg.method \in Methods
    PROVE  LET b == eap_sm_change_to_method(p, r, x)
           IN  /\ Typed(b.peer)
               /\ b.packet = NULL \/ (IsSome(b.packet) /\ ~b.packet.start)
<1> DEFINE c == Checked(p)
           q == Processed(c, r, x)
           b == BuildResp(q)
           m == eap_sm_change_to_method(p, r, x)
<1>1. Typed(c)
    BY CheckedTyped
<1>2. Typed(q)
    BY <1>1, ProcessedTyped
<1> HIDE DEF c, q
<1>3. /\ Typed(b.peer) /\ IsResult(b)
      /\ b.packet = NULL \/ (IsSome(b.packet) /\ ~b.packet.start)
    BY <1>2, BuildRespTyped
<1> HIDE DEF b
<1>4. /\ [b EXCEPT !.packet = NULL].peer = b.peer
      /\ [b EXCEPT !.packet = NULL].packet = NULL
    BY <1>3 DEF IsResult
<1>5. Typed([b.peer EXCEPT !.failed = TRUE])
    BY <1>3 DEF Typed, TypedBut, IsPeer, Fields
<1>6. m = IF c.ignore THEN [peer |-> c, packet |-> NULL]
          ELSE IF q.ignore THEN [peer |-> q, packet |-> NULL]
          ELSE IF b.peer.ignore THEN [b EXCEPT !.packet = NULL]
          ELSE IF b.peer.methodState = "DONE" /\ cfg.method # "TLS"
          THEN [packet |-> NULL, peer |-> [b.peer EXCEPT !.failed = TRUE]]
          ELSE b
    BY DEF eap_sm_change_to_method, c, q, b
<1> HIDE DEF m
<1>7. \/ m.peer = c /\ m.packet = NULL
      \/ m.peer = q /\ m.packet = NULL
      \/ m.peer = b.peer /\ m.packet = NULL
      \/ m.peer = [b.peer EXCEPT !.failed = TRUE] /\ m.packet = NULL
      \/ m = b
    BY <1>4, <1>6
<1> QED
    BY <1>1, <1>2, <1>3, <1>5, <1>7 DEF m

ServerFields ==
    {"conv", "stage", "flight", "off", "got", "total", "sent", "inner",
     "verdict", "taken"}

IsServer(s) ==
    /\ s = [f \in ServerFields |-> s[f]]
    /\ s.conv \in 0 .. MaxConvs
    /\ s.flight \in Data /\ s.off \in Nat /\ s.off <= Len(s.flight)
    /\ s.got \in Data /\ s.total \in Nat /\ s.taken \in Data
    /\ s.sent \in Nat /\ s.inner \in 0 .. MaxInner

TypeInv ==
    /\ cfg \in Configs /\ Typed(peer) /\ IsServer(srv)
    /\ req = NULL \/ IsSome(req)
    /\ rsp = NULL \/ (IsSome(rsp) /\ ~rsp.start)
    /\ req = NULL \/ rsp = NULL
    /\ restarts \in 0 .. MaxRestarts

\* A message of the peer, and all that may come to a request.
LEMMA MadeIs ==
    ASSUME TypeInv, NEW lens, lens \subseteq Nat \ {0}, NEW m \in Made(lens)
    PROVE  m \in Data /\ m # <<>> /\ Whole(m, srv.conv)
<1>1. PICK n \in lens : m = Message("peer", srv.conv, peer.made + 1, n)
    BY DEF Made
<1>2. srv.conv \in 0 .. MaxConvs /\ peer.made + 1 \in Nat /\ n \in Nat \ {0}
    BY DEF TypeInv, IsServer, Typed, TypedBut
<1> QED
    BY <1>1, <1>2, MessageIsData

LEMMA RepliesAre ==
    ASSUME TypeInv, NEW o, NEW m \in Replies(o)
    PROVE  m \in Data /\ m # <<>> /\ Whole(m, srv.conv)
<1>1. PICK n \in cfg.replies, k \in Nat :
          m = Message("peer", srv.conv, k, n)
    BY DEF Replies, TypeInv, Typed, TypedBut
<1>2. srv.conv \in 0 .. MaxConvs /\ n \in Nat \ {0}
    BY TlsAssumption DEF TypeInv, IsServer
<1> QED
    BY <1>1, <1>2, MessageIsData

\* What OpenSSL makes of the data: the last flight before the keys ends with
\* nothing to say.
LEMMA OutcomesAre ==
    ASSUME TypeInv, NEW o \in SslOutcomes(Given)
    PROVE  /\ o.kind \in Kinds /\ o.out \in Data /\ Whole(o.out, srv.conv)
           /\ o.kind = "opens" => srv.stage \in {"flight2", "resumed"}
           /\ srv.stage = "flight2" => o.out = <<>>
<1> DEFINE last == srv.stage \in {"flight2", "resumed"}
           outs == CASE srv.stage = "flight2" -> {<<>>}
                     [] srv.stage = "resumed" -> Made(FinishedLens)
                     [] OTHER -> Made(FlightLens)
           good == {Outcome(IF last THEN "opens" ELSE "goes_on", out) :
                        out \in outs}
<1>1. \A out \in outs : out \in Data /\ Whole(out, srv.conv)
    BY MadeIs, EmptyWhole, TlsAssumption
<1>2. srv.stage = "flight2" => outs = {<<>>}
    OBVIOUS
<1> HIDE DEF outs
<1>3. ASSUME o \in good
      PROVE  \E out \in outs :
                 o = Outcome(IF last THEN "opens" ELSE "goes_on", out)
    BY <1>3
<1>4. \/ o \in good
      \/ \E kind \in Refusals \cup {"goes_on", "unexpected", "fails"} :
             o = Outcome(kind, <<>>)
    BY DEF SslOutcomes, outs
<1> HIDE DEF good
<1>5. CASE o \in good
    <2>1. PICK out \in outs :
              o = Outcome(IF last THEN "opens" ELSE "goes_on", out)
        BY <1>3, <1>5
    <2>2. o.out = out /\ o.kind = IF last THEN "opens" ELSE "goes_on"
        BY <2>1 DEF Outcome
    <2> QED
        BY <1>1, <1>2, <2>2 DEF Kinds
<1>6. CASE \E kind \in Refusals \cup {"goes_on", "unexpected", "fails"} :
               o = Outcome(kind, <<>>)
    <2>1. PICK kind \in Refusals \cup {"goes_on", "unexpected", "fails"} :
              o = Outcome(kind, <<>>)
        BY <1>6
    <2>2. o.out = <<>> /\ o.kind = kind
        BY <2>1 DEF Outcome
    <2>3. kind \in {"goes_on", "wrong_name", "unexpected", "fails"}
        BY TlsAssumption
    <2> QED
        BY <2>2, <2>3, EmptyWhole DEF Kinds
<1> QED
    BY <1>4, <1>5, <1>6

LEMMA InputsAre ==
    ASSUME TypeInv, NEW x \in Inputs
    PROVE  /\ IsInput(x)
           /\ Whole(x.hello, srv.conv) /\ Whole(x.ssl.out, srv.conv)
           /\ Whole(x.reply, srv.conv)
           /\ x.ssl.kind = "opens" => srv.stage \in {"flight2", "resumed"}
           /\ srv.stage = "flight2" => x.ssl.out = <<>>
<1>1. PICK o \in SslOutcomes(Given) :
          x \in [hello : Made(HelloLens), ssl : {o}, reply : Replies(o)]
    BY DEF Inputs
<1>2. x.ssl = o /\ x.hello \in Made(HelloLens) /\ x.reply \in Replies(o)
    BY <1>1
<1>3. HelloLens \subseteq Nat \ {0}
    BY TlsAssumption
<1>4. x.hello \in Data /\ x.hello # <<>> /\ Whole(x.hello, srv.conv)
    BY <1>2, <1>3, MadeIs
<1>5. x.reply \in Data /\ x.reply # <<>> /\ Whole(x.reply, srv.conv)
    BY <1>2, RepliesAre
<1> QED
    BY <1>2, <1>4, <1>5, OutcomesAre DEF IsInput

\* A fragment of the server's.
LEMMA ServerFragmentIs ==
    ASSUME NEW s, IsServer(s)
    PROVE  LET f == ServerFragment(s)
           IN  /\ IsSome(f) /\ ~f.start
               /\ f.data = SubSeq(s.flight, s.off + 1, s.off + Len(f.data))
               /\ s.off + Len(f.data) <= Len(s.flight)
               /\ Len(f.data) \in Nat /\ Len(s.flight) \in Nat
               /\ s.off < Len(s.flight) => Len(f.data) > 0
               /\ f.more <=> s.off + Len(f.data) < Len(s.flight)
               /\ f.len \in {0, Len(s.flight)}
               /\ s.off > 0 => f.len = 0
               /\ s.off = 0 /\ f.more => f.len = Len(s.flight)
<1> DEFINE g == Fragment(s.flight, s.off, Mtu)
           f == ServerFragment(s)
<1>1. /\ IsFrame(g) /\ g.start = FALSE
      /\ g.more \in BOOLEAN /\ g.data \in Data
      /\ g.data = SubSeq(s.flight, s.off + 1, s.off + Len(g.data))
      /\ s.off + Len(g.data) <= Len(s.flight) /\ Len(g.data) \in Nat
      /\ s.off < Len(s.flight) => Len(g.data) > 0
      /\ g.more <=> s.off + Len(g.data) < Len(s.flight)
      /\ g.len = IF s.off = 0 /\ g.more THEN Len(s.flight) ELSE 0
    <2>1. s.flight \in Data /\ s.off \in Nat /\ s.off <= Len(s.flight)
        BY DEF IsServer
    <2>2. Mtu \in Nat \ {0}
        BY TlsAssumption
    <2> QED
        BY <2>1, <2>2, FragmentIs
<1>2. Len(s.flight) \in Nat /\ s.off \in Nat
    BY DEF IsServer, Data
<1>3. f = IF cfg.always /\ s.off = 0 THEN [g EXCEPT !.len = Len(s.flight)]
          ELSE g
    BY DEF ServerFragment
<1> HIDE DEF g, f
<1>4. /\ IsFrame(f) /\ f.start = FALSE
      /\ f.more = g.more /\ f.data = g.data
      /\ f.len = IF cfg.always /\ s.off = 0 THEN Len(s.flight) ELSE g.len
    BY <1>1, <1>3 DEF IsFrame, PacketFields
<1>5. /\ f.len \in {0, Len(s.flight)}
      /\ s.off > 0 => f.len = 0
      /\ s.off = 0 /\ f.more => f.len = Len(s.flight)
    BY <1>1, <1>2, <1>4
<1>6. IsSome(f)
    <2>1. f.len \in Nat
        BY <1>2, <1>5
    <2> QED
        BY <1>1, <1>4, <2>1 DEF IsSome
<1> QED
    BY <1>1, <1>2, <1>4, <1>5, <1>6 DEF f

\* The next message of the server is on its way.
LEMMA SendsIs ==
    ASSUME TypeInv, rsp # NULL, NEW stage, NEW n \in Nat \ {0},
           Sends(stage, n), stage = "inner" => srv.inner < MaxInner
    PROVE  /\ IsServer(srv') /\ IsSome(req') /\ ~req'.start
           /\ srv'.stage = stage /\ srv'.conv = srv.conv
           /\ srv'.verdict = srv.verdict
           /\ srv'.got = <<>> /\ srv'.total = 0
           /\ srv'.taken = srv.got \o rsp.data
           /\ srv'.flight = Message("server", srv.conv, srv.sent + 1, n)
           /\ srv'.off = Len(req'.data) /\ req'.data # <<>>
           /\ req'.data = SubSeq(srv'.flight, 1, srv'.off)
           /\ req'.more <=> srv'.off < Len(srv'.flight)
           /\ req'.len \in {0, Len(srv'.flight)}
           /\ req'.more => req'.len = Len(srv'.flight)
<1> DEFINE m == Message("server", srv.conv, srv.sent + 1, n)
           s == [srv EXCEPT !.stage = stage, !.sent = @ + 1, !.off = 0,
                     !.flight = m,
                     !.got = <<>>, !.total = 0, !.taken = srv.got \o rsp.data,
                     !.inner = IF stage = "inner" THEN @ + 1 ELSE @]
           f == ServerFragment(s)
<1>1. m \in Data /\ Len(m) = n /\ m # <<>>
    <2>1. srv.conv \in 0 .. MaxConvs /\ srv.sent + 1 \in Nat
        BY DEF TypeInv, IsServer
    <2> QED
        BY <2>1, MessageIsData
<1>2. req' = f /\ srv' = [s EXCEPT !.off = Len(f.data)]
    BY DEF Sends
<1>3. srv.got \o rsp.data \in Data
    BY DataGrows DEF TypeInv, IsServer, IsSome
<1>4. <<>> \in Data
    BY EmptyWhole
<1> HIDE DEF m
<1>5. IsServer(s) /\ s.off = 0 /\ s.flight = m /\ s.got = <<>>
      /\ s.total = 0 /\ s.taken = srv.got \o rsp.data /\ s.stage = stage
      /\ s.conv = srv.conv /\ s.verdict = srv.verdict
    <2>1. /\ s = [g \in ServerFields |-> s[g]]
          /\ s.conv = srv.conv /\ s.stage = stage /\ s.flight = m
          /\ s.off = 0 /\ s.got = <<>> /\ s.total = 0
          /\ s.sent = srv.sent + 1 /\ s.verdict = srv.verdict
          /\ s.taken = srv.got \o rsp.data
          /\ s.inner = IF stage = "inner" THEN srv.inner + 1 ELSE srv.inner
        BY DEF TypeInv, IsServer, ServerFields
    <2> HIDE DEF s
    <2>2. s.inner \in 0 .. MaxInner
        <3>1. MaxInner \in Nat /\ srv.inner \in 0 .. MaxInner
            BY TlsAssumption DEF TypeInv, IsServer
        <3> QED
            BY <2>1, <3>1
    <2>3. srv.conv \in 0 .. MaxConvs /\ srv.sent + 1 \in Nat
        BY DEF TypeInv, IsServer
    <2>4. 0 <= Len(m)
        BY <1>1
    <2>5. IsServer(s)
        <3>1. s.flight \in Data /\ s.got \in Data /\ s.taken \in Data
            BY <1>1, <1>3, <1>4, <2>1
        <3>2. /\ s.conv \in 0 .. MaxConvs /\ s.sent \in Nat
              /\ s.off \in Nat /\ s.total \in Nat
              /\ s.off <= Len(s.flight)
            BY <2>1, <2>3, <2>4
        <3> QED
            BY <2>1, <2>2, <3>1, <3>2 DEF IsServer
    <2> QED
        BY <2>1, <2>5
<1> HIDE DEF s
<1>6. /\ IsSome(f) /\ ~f.start
      /\ f.data = SubSeq(m, 1, Len(f.data))
      /\ Len(f.data) <= Len(m) /\ Len(f.data) \in Nat /\ Len(f.data) > 0
      /\ f.more <=> Len(f.data) < Len(m)
      /\ f.len \in {0, Len(m)}
      /\ f.more => f.len = Len(m)
    <2>1. /\ IsSome(f) /\ ~f.start
          /\ f.data = SubSeq(s.flight, s.off + 1, s.off + Len(f.data))
          /\ s.off + Len(f.data) <= Len(s.flight)
          /\ Len(f.data) \in Nat /\ Len(s.flight) \in Nat
          /\ s.off < Len(s.flight) => Len(f.data) > 0
          /\ f.more <=> s.off + Len(f.data) < Len(s.flight)
          /\ f.len \in {0, Len(s.flight)}
          /\ s.off = 0 /\ f.more => f.len = Len(s.flight)
        BY <1>5, ServerFragmentIs
    <2> HIDE DEF f
    <2>2. s.off + 1 = 1 /\ s.off + Len(f.data) = Len(f.data)
        BY <1>5, <2>1
    <2> QED
        BY <1>1, <1>5, <2>1, <2>2
<1> HIDE DEF f
<1>7. /\ IsServer(srv') /\ srv'.off = Len(f.data) /\ srv'.flight = m
      /\ srv'.got = <<>> /\ srv'.total = 0
      /\ srv'.taken = srv.got \o rsp.data /\ srv'.stage = stage
      /\ srv'.conv = srv.conv /\ srv'.verdict = srv.verdict
    BY <1>2, <1>5, <1>6 DEF IsServer, ServerFields
<1>8. f.data # <<>>
    BY <1>6
<1> QED
    BY <1>2, <1>6, <1>7, <1>8 DEF m

LEMMA EndsIs ==
    ASSUME TypeInv, rsp # NULL, NEW verdict, Ends(verdict)
    PROVE  /\ IsServer(srv') /\ req' = NULL /\ srv'.conv = srv.conv
           /\ srv'.verdict = verdict /\ srv'.flight = srv.flight
           /\ srv'.taken = IF verdict = "success" THEN srv.got \o rsp.data
                           ELSE srv.taken
<1>1. srv.got \o rsp.data \in Data
    BY DataGrows DEF TypeInv, IsServer, IsSome
<1>2. srv' = [srv EXCEPT !.verdict = verdict,
                !.taken = IF verdict = "success" THEN srv.got \o rsp.data
                          ELSE @]
      /\ req' = NULL
    BY DEF Ends
<1> QED
    BY <1>1, <1>2 DEF TypeInv, IsServer, ServerFields

\* After these the session may be open.
HasOpened == {"flight2", "resumed", "inner"}

\* What the server may do with a complete message.
LEMMA GoesOnIs ==
    ASSUME ServerGoesOn
    PROVE  \/ Ends("success") /\ srv.stage \in HasOpened
           \/ \E n \in Nat \ {0} :
                  /\ Sends("inner", n) /\ srv.inner < MaxInner
                  /\ srv.stage \in HasOpened
           \/ \E n \in Nat \ {0}, stage \in {"flight1", "flight2", "resumed"} :
                  Sends(stage, n) /\ srv.stage \in {"start", "flight1"}
<1>1. ServerLens \subseteq Nat \ {0} /\ InnerLens \subseteq Nat \ {0}
    BY TlsAssumption
<1>2. SendsInner => \E n \in Nat \ {0} :
                        Sends("inner", n) /\ srv.inner < MaxInner
    BY <1>1 DEF SendsInner
<1>3. CASE /\ srv.stage = "start"
           /\ \E n \in ServerLens :
                  Sends("flight1", n) \/ (peer.session /\ Sends("resumed", n))
    BY <1>1, <1>3
<1>4. CASE srv.stage = "flight1" /\ \E n \in ServerLens : Sends("flight2", n)
    BY <1>1, <1>4
<1>5. CASE srv.stage \in HasOpened /\ (SendsInner \/ Ends("success"))
    BY <1>2, <1>5
<1> QED
    BY <1>3, <1>4, <1>5 DEF ServerGoesOn, HasOpened

LEMMA TypeInvInit == Init => TypeInv
<1> SUFFICES ASSUME Init PROVE TypeInv
    OBVIOUS
<1>1. Typed(NewPeer)
    BY EmptyWhole
       DEF NewPeer, Typed, TypedBut, IsPeer, Fields, IsOut, IsIn
<1>2. IsServer(NewServer)
    <2>1. Len(<<>>) = 0 /\ MaxConvs \in Nat /\ MaxInner \in Nat
        BY TlsAssumption
    <2> QED
        BY <2>1, EmptyWhole DEF NewServer, IsServer, ServerFields
<1>3. 0 \in 0 .. MaxRestarts
    BY TlsAssumption
<1> QED
    BY <1>1, <1>2, <1>3 DEF Init, TypeInv

LEMMA InitializeTyped ==
    ASSUME NEW p, Typed(p) PROVE Typed(eap_sm_change_to_initialize(p))
BY DEF eap_sm_change_to_initialize, Typed, TypedBut, IsPeer, Fields

LEMMA IdentityTyped ==
    ASSUME NEW p, Typed(p) PROVE Typed(eap_sm_change_to_identity(p))
<1> DEFINE d == IF p.selected THEN Deinit(p) ELSE p
<1>1. Typed(d)
    BY DeinitTyped
<1> HIDE DEF d
<1>2. eap_sm_change_to_identity(p) =
        [d EXCEPT !.selected = FALSE, !.methodState = "INIT"]
    BY DEF eap_sm_change_to_identity, d
<1> QED
    BY <1>1, <1>2 DEF Typed, TypedBut, IsPeer, Fields

\* What a request does.
LEMMA HandlesIs ==
    ASSUME TypeInv, PeerHandlesRequest
    PROVE  /\ req # NULL /\ req' = NULL /\ peer.data # "crashed"
           /\ UNCHANGED <<cfg, srv, restarts>>
           /\ IsSome(req) /\ cfg.method \in Methods
           /\ Typed(Selected(peer))
           /\ \/ peer' = peer /\ rsp' = NULL
              \/ \E x \in Inputs :
                     LET b == eap_sm_change_to_method(Selected(peer), req, x)
                     IN  /\ peer' = b.peer /\ rsp' = b.packet
                         /\ Selected(peer).methodState # "DONE"
<1>1. Typed(Selected(peer))
    BY DEF Selected, TypeInv, Typed, TypedBut, IsPeer, Fields
<1>2. IsSome(req) /\ req # NULL
    BY DEF PeerHandlesRequest, TypeInv
<1>3. cfg.method \in Methods
    BY MethodIsKnown DEF TypeInv
<1> QED
    BY <1>1, <1>2, <1>3 DEF PeerHandlesRequest

\* What a response does: the next fragment, an ACK for the peer's, or all of
\* it is there, or it is wrong.
LEMMA TakesIs ==
    ASSUME TypeInv, ServerTakes
    PROVE  /\ rsp # NULL /\ rsp' = NULL /\ IsSome(rsp)
           /\ UNCHANGED <<cfg, peer, restarts>>
           /\ \/ /\ srv.off < Len(srv.flight) /\ rsp = Ack
                 /\ req' = ServerFragment(srv)
                 /\ srv' = [srv EXCEPT !.off = @ + Len(req'.data)]
              \/ /\ srv.off = Len(srv.flight) /\ rsp.more
                 /\ req' = Ack
                 /\ srv' = [srv EXCEPT
                      !.got = srv.got \o rsp.data,
                      !.total = IF rsp.len > 0 THEN rsp.len ELSE srv.total]
              \/ /\ srv.off = Len(srv.flight) /\ ~rsp.more
                 /\ (IF rsp.len > 0 THEN rsp.len ELSE srv.total)
                       \in {0, Len(srv.got \o rsp.data)}
                 /\ Expected /\ ServerGoesOn
              \/ Ends("failed")
<1> DEFINE f == ServerFragment(srv)
           got == srv.got \o rsp.data
           total == IF rsp.len > 0 THEN rsp.len ELSE srv.total
<1>1. /\ rsp # NULL /\ rsp' = NULL /\ IsSome(rsp)
      /\ UNCHANGED <<cfg, peer, restarts>>
    BY DEF ServerTakes, TypeInv
<1>2. srv.off < Len(srv.flight) \/ srv.off = Len(srv.flight)
    BY DEF TypeInv, IsServer, Data
<1>3. IF srv.off < Len(srv.flight)
      THEN IF rsp = Ack
           THEN req' = f /\ srv' = [srv EXCEPT !.off = @ + Len(f.data)]
           ELSE Ends("failed")
      ELSE IF rsp.more
      THEN req' = Ack /\ srv' = [srv EXCEPT !.got = got, !.total = total]
      ELSE IF total \in {0, Len(got)} /\ Expected THEN ServerGoesOn
      ELSE Ends("failed")
    BY DEF ServerTakes
<1> HIDE DEF f
<1>4. CASE srv.off < Len(srv.flight)
    BY <1>1, <1>3, <1>4 DEF f
<1>5. CASE srv.off = Len(srv.flight)
    <2>1. ~(srv.off < Len(srv.flight))
        BY <1>5 DEF TypeInv, IsServer
    <2> HIDE DEF got, total
    <2>2. CASE rsp.more
        BY <1>1, <1>3, <1>5, <2>1, <2>2 DEF got, total
    <2>3. CASE ~rsp.more /\ total \in {0, Len(got)} /\ Expected
        BY <1>1, <1>3, <1>5, <2>1, <2>3 DEF got, total
    <2>4. CASE ~rsp.more /\ ~(total \in {0, Len(got)} /\ Expected)
        BY <1>1, <1>3, <1>5, <2>1, <2>4
    <2> QED
        BY <2>2, <2>3, <2>4
<1> QED
    BY <1>2, <1>4, <1>5

LEMMA TypeInvStep == TypeInv /\ [Next]_vars => TypeInv'
<1> SUFFICES ASSUME TypeInv, [Next]_vars PROVE TypeInv'
    OBVIOUS
<1>1. CASE PeerHandlesRequest
    <2>1. /\ req' = NULL /\ IsSome(req) /\ cfg.method \in Methods
          /\ UNCHANGED <<cfg, srv, restarts>> /\ Typed(Selected(peer))
          /\ \/ peer' = peer /\ rsp' = NULL
             \/ \E x \in Inputs :
                    LET b == eap_sm_change_to_method(Selected(peer), req, x)
                    IN  peer' = b.peer /\ rsp' = b.packet
        BY <1>1, HandlesIs
    <2>2. Typed(peer') /\ (rsp' = NULL \/ (IsSome(rsp') /\ ~rsp'.start))
        BY <2>1, InputsAre, MethodTyped DEF TypeInv
    <2> QED
        BY <2>1, <2>2 DEF TypeInv, IsServer, Typed, TypedBut, IsPeer
<1>2. CASE PeerRestarts
    <2>1. /\ peer' = eap_sm_change_to_initialize(peer)
          /\ UNCHANGED <<cfg, srv, req, rsp>>
          /\ restarts < MaxRestarts /\ restarts' = restarts + 1
        BY <1>2 DEF PeerRestarts
    <2>2. Typed(peer')
        BY <2>1, InitializeTyped DEF TypeInv
    <2>3. restarts' \in 0 .. MaxRestarts
        BY <2>1, TlsAssumption DEF TypeInv
    <2> QED
        BY <2>1, <2>2, <2>3 DEF TypeInv, IsServer
<1>3. CASE MachineIsRebuilt
    <2>1. /\ peer' = [NewPeer EXCEPT !.made = peer.made]
          /\ srv' = [srv EXCEPT !.verdict = "failed"]
          /\ req' = NULL /\ rsp' = NULL /\ UNCHANGED <<cfg, restarts>>
        BY <1>3 DEF MachineIsRebuilt
    <2>2. Typed(peer')
        BY <2>1, EmptyWhole
           DEF TypeInv, NewPeer, Typed, TypedBut, IsPeer, Fields, IsOut, IsIn
    <2>3. IsServer(srv')
        BY <2>1 DEF TypeInv, IsServer, ServerFields
    <2> QED
        BY <2>1, <2>2, <2>3 DEF TypeInv
<1>4. CASE ServerTakes
    <2>1. /\ rsp # NULL /\ rsp' = NULL /\ IsSome(rsp)
          /\ UNCHANGED <<cfg, peer, restarts>>
        BY <1>4, TakesIs
    <2>2. ASSUME NEW n \in Nat \ {0}, NEW stage, Sends(stage, n),
                 stage = "inner" => srv.inner < MaxInner
          PROVE  IsServer(srv') /\ IsSome(req')
        BY <2>1, <2>2, SendsIs
    <2>3. ASSUME NEW verdict, Ends(verdict)
          PROVE  IsServer(srv') /\ req' = NULL
        BY <2>1, <2>3, EndsIs
    <2>4. ASSUME srv.off < Len(srv.flight), req' = ServerFragment(srv),
                 srv' = [srv EXCEPT !.off = @ + Len(req'.data)]
          PROVE  IsServer(srv') /\ IsSome(req')
        <3>1. /\ IsSome(req') /\ Len(req'.data) \in Nat
              /\ srv.off + Len(req'.data) <= Len(srv.flight)
            <4> DEFINE f == ServerFragment(srv)
            <4>1. IsSome(f) /\ Len(f.data) \in Nat
                  /\ srv.off + Len(f.data) <= Len(srv.flight)
                BY ServerFragmentIs DEF TypeInv
            <4>2. req' = f
                BY <2>4
            <4> HIDE DEF f
            <4> QED
                BY <4>1, <4>2
        <3>2. IsServer(srv')
            BY <2>4, <3>1, SMTT(20) DEF TypeInv, IsServer, ServerFields
        <3> QED
            BY <3>1, <3>2
    <2>5. ASSUME req' = Ack,
                 srv' = [srv EXCEPT
                    !.got = srv.got \o rsp.data,
                    !.total = IF rsp.len > 0 THEN rsp.len ELSE srv.total]
          PROVE  IsServer(srv') /\ IsSome(req')
        <3>1. srv.got \o rsp.data \in Data /\ rsp.len \in Nat
            BY <2>1, DataGrows DEF TypeInv, IsServer, IsSome
        <3>2. IsServer(srv')
            BY <2>5, <3>1 DEF TypeInv, IsServer, ServerFields
        <3> QED
            BY <2>5, <3>2, AckIs
    <2>6. ASSUME ServerGoesOn
          PROVE  IsServer(srv') /\ (req' = NULL \/ IsSome(req'))
        BY <2>2, <2>3, <2>6, GoesOnIs
    <2>7. IsServer(srv') /\ (req' = NULL \/ IsSome(req'))
        BY <1>4, <2>3, <2>4, <2>5, <2>6, TakesIs
    <2> QED
        BY <2>1, <2>7 DEF TypeInv, Typed, TypedBut, IsPeer
<1>5. CASE ServerBegins
    <2> DEFINE p == IF srv.verdict # "open" \/ peer.failed \/ peer.reinit
                    THEN eap_sm_change_to_initialize(peer) ELSE peer
               q == eap_sm_change_to_identity(p)
    <2>1. Typed(q)
        BY InitializeTyped, IdentityTyped DEF TypeInv
    <2>2. /\ peer' = [q EXCEPT !.made = 0, !.fed = <<>>]
          /\ srv' = [NewServer EXCEPT !.conv = srv.conv + 1,
                                      !.stage = "start", !.verdict = "open"]
          /\ req' = Start /\ rsp' = NULL /\ UNCHANGED <<cfg, restarts>>
          /\ srv.conv < MaxConvs
        BY <1>5 DEF ServerBegins
    <2> HIDE DEF p, q
    <2>3. Typed(peer')
        BY <2>1, <2>2 DEF Typed, TypedBut, IsPeer, Fields
    <2>4. IsServer(srv')
        <3>1. srv.conv + 1 \in 0 .. MaxConvs /\ 0 \in 0 .. MaxInner
            BY <2>2, TlsAssumption DEF TypeInv, IsServer
        <3>2. /\ srv' = [g \in ServerFields |-> srv'[g]]
              /\ srv'.conv = srv.conv + 1 /\ srv'.flight = <<>>
              /\ srv'.off = 0 /\ srv'.got = <<>> /\ srv'.total = 0
              /\ srv'.sent = 0 /\ srv'.inner = 0 /\ srv'.taken = <<>>
            BY <2>2 DEF NewServer, ServerFields
        <3>3. 0 <= Len(<<>>)
            OBVIOUS
        <3> QED
            BY <3>1, <3>2, <3>3, EmptyWhole DEF IsServer
    <2>5. IsSome(Start)
        BY StartPacketIs
    <2> QED
        BY <2>2, <2>3, <2>4, <2>5 DEF TypeInv
<1>6. CASE UNCHANGED vars
    BY <1>6 DEF vars, TypeInv, IsServer, Typed, TypedBut, IsPeer
<1> QED
    BY <1>1, <1>2, <1>3, <1>4, <1>5, <1>6 DEF Next

LEMMA TypesInductive == Spec => []TypeInv
BY TypeInvInit, TypeInvStep, PTL DEF Spec

\* Whatever is refused, broken off or started over, the queues, counters and
\* packets of both sides stay what they are declared to be, and one packet
\* is on its way at a time.
THEOREM TlsTypeCorrect == Spec => []TypeOK
<1>1. TypeInv => TypeOK
    BY DEF TypeInv, TypeOK, Typed, TypedBut, IsServer, IsPacket, IsSome,
           IsOut, IsIn, Data
<1> QED
    BY <1>1, TypesInductive, PTL

(***************************************************************************)
(* What OpenSSL and the server are given.                                  *)
(***************************************************************************)
EmptyIn(p) == p.inq = NULL \/ p.inq.buf = <<>>

\* The peer has got the first n units of the server's message.  While the
\* session is set up they are in ssl_in; later the first one, if more are to
\* come, has set a length that no other fragment can reach.
Midway(p, n) ==
    \/ p.ssl = "none"
    \/ p.ssl = "shaking" /\ p.bio = SubSeq(srv.flight, 1, n) /\ EmptyIn(p)
    \/ p.ssl = "open" /\ n = 0
       /\ p.bio = <<>> /\ p.soFar = 0 /\ EmptyIn(p)
    \/ /\ p.ssl = "open" /\ n > 0
       /\ p.expected = Len(srv.flight)
       /\ p.soFar <= n /\ (p.soFar = n => EmptyIn(p))

Nothing == srv.got = <<>> /\ srv.total = 0

Total(k) == IF k.len > 0 THEN k.len ELSE srv.total

Got(k) == srv.got \o k.data

\* The server has got a part of what is in the queue, and knows how long all
\* of it is.
HalfSent(p, got, total) ==
    /\ p.outq.buf \in Data /\ Whole(p.outq.buf, srv.conv)
    /\ p.outq.off \in 1 .. Len(p.outq.buf)
    /\ p.outq.off < Len(p.outq.buf)
    /\ got = SubSeq(p.outq.buf, 1, p.outq.off)
    /\ total = Len(p.outq.buf)

\* The server takes the response for the last of a complete message.
Accepted(k) ==
    /\ srv.off = Len(srv.flight) /\ ~k.more
    /\ Total(k) \in {0, Len(Got(k))}
    /\ (Got(k) = <<>>) <=> (srv.stage = "flight2" /\ cfg.method # "TTLS")

OpenLate(p) == p.ssl = "open" => srv.stage \in HasOpened

OpenInner(p) == p.ssl = "open" => srv.stage = "inner"

\* The response k is on its way.
Answered(p, k) ==
    /\ OpenLate(p)
    /\ srv.off < Len(srv.flight) =>
           /\ Nothing
           /\ k = Ack => p.outq = NULL /\ Midway(p, srv.off) /\ OpenInner(p)
    /\ srv.off = Len(srv.flight) /\ k.more =>
           HalfSent(p, Got(k), Total(k)) /\ Midway(p, 0)
    /\ Accepted(k) =>
           Whole(Got(k), srv.conv) /\ p.outq = NULL /\ Midway(p, 0)

AtStart(r) ==
    /\ r = Start /\ srv.stage = "start"
    /\ srv.flight = <<>> /\ srv.off = 0 /\ Nothing

AtAck(p, r) ==
    /\ r = Ack /\ srv.off = Len(srv.flight)
    /\ HalfSent(p, srv.got, srv.total) /\ Midway(p, 0) /\ OpenLate(p)

AtFragment(p, r) ==
    LET before == srv.off - Len(r.data)
    IN  /\ ~r.start /\ r.data # <<>> /\ Nothing
        /\ before \in Nat
        /\ r.data = SubSeq(srv.flight, before + 1, srv.off)
        /\ r.more <=> srv.off < Len(srv.flight)
        /\ r.len \in {0, Len(srv.flight)}
        /\ before > 0 => r.len = 0
        /\ before = 0 /\ r.more => r.len = Len(srv.flight)
        /\ p.outq = NULL /\ Midway(p, before) /\ OpenInner(p)

\* There is a session to resume behind an SSL object, and an SSL object
\* behind what is queued.
Backed(p) ==
    /\ p.ssl # "none" => p.resumable = TRUE
    /\ p.outq # NULL => p.ssl # "none"

Steady(p) == Backed(p) /\ (p.done => p.ssl = "open")

Kept(p) == p.selected /\ p.methodState # "INIT" => (p.done => p.ssl = "open")

\* It begins with its first unit and ends with its last.
IsMessage(flight) ==
    flight # <<>> => flight[1].at = 1 /\ flight[1].last = Len(flight)

Flow ==
    /\ Backed(peer) /\ Kept(peer) /\ peer.reply = <<>>
    /\ req = NULL \/ AtStart(req) \/ AtAck(peer, req)
       \/ AtFragment(peer, req)
    /\ rsp = NULL \/ Answered(peer, rsp)
    /\ IsMessage(srv.flight)
    /\ Whole(srv.taken, srv.conv)

\* EAP-TTLS is asked to resume its sessions: without it a Start is answered
\* with what is left of the conversation before.
Resumes == \A c \in Configs : c.method = "TTLS" => c.resume = TRUE

\* What the properties look at is the same.
Same(p, q) ==
    /\ q.ssl = p.ssl /\ q.bio = p.bio /\ q.soFar = p.soFar
    /\ q.expected = p.expected /\ q.inq = p.inq /\ q.outq = p.outq

LEMMA SameAnswered ==
    ASSUME NEW p, NEW q, Same(p, q), NEW k
    PROVE  /\ Answered(p, k) => Answered(q, k)
           /\ AtAck(p, k) => AtAck(q, k)
           /\ AtFragment(p, k) => AtFragment(q, k)
           /\ \A n : Midway(p, n) => Midway(q, n)
           /\ OpenInner(p) => OpenInner(q)
           /\ OpenLate(p) => OpenLate(q)
<1>1. \A n : Midway(p, n) => Midway(q, n)
    BY DEF Same, Midway, EmptyIn
<1>2. /\ OpenInner(p) => OpenInner(q)
      /\ OpenLate(p) => OpenLate(q)
    BY DEF Same, OpenInner, OpenLate
<1>3. \A got, total : HalfSent(p, got, total) => HalfSent(q, got, total)
    BY DEF Same, HalfSent
<1>4. q.outq = p.outq
    BY DEF Same
<1>5. Answered(p, k) => Answered(q, k)
    BY <1>1, <1>2, <1>3, <1>4 DEF Answered
<1>6. AtAck(p, k) => AtAck(q, k)
    BY <1>1, <1>2, <1>3 DEF AtAck
<1>7. AtFragment(p, k) => AtFragment(q, k)
    BY <1>1, <1>2, <1>4 DEF AtFragment
<1> QED
    BY <1>1, <1>2, <1>5, <1>6, <1>7

(***************************************************************************)
(* The peer that processes the request: its method is initialised.         *)
(***************************************************************************)
Entered(p) ==
    IF cfg.method = "TLS" /\ p.methodState = "INIT" THEN eaptls_init(p)
    ELSE Checked(p)

LEMMA InitsAre ==
    ASSUME NEW p, Typed(p), Backed(p),
           NEW q \in {eaptls_init(p), eappeap_init(p), eapttls_init(p)}
    PROVE  /\ Typed(q) /\ Backed(q) /\ q.done = FALSE
           /\ q.ssl = "none" \/ Same(p, q)
           /\ q.fed = p.fed /\ q.reply = p.reply /\ q.selected = p.selected
           /\ q = eaptls_init(p) => q.ssl = "none" /\ q.ctx = TRUE
<1> DEFINE Good(u) == /\ Typed(u) /\ Backed(u)
                      /\ u.ssl = "none" \/ Same(p, u)
                      /\ u.fed = p.fed /\ u.reply = p.reply
                      /\ u.selected = p.selected
           a == Allocated(p)
           b == tls_funcs_init(a)
           c == IF p.data = "none" THEN b ELSE p
           d == tls_funcs_init(IF p.data = "none" THEN a ELSE p)
<1>1. /\ Good(a) /\ a.done = FALSE /\ a.resumable = FALSE /\ a.ssl = "none"
      /\ a.outq = NULL
    <2>1. /\ a.fed = p.fed /\ a.reply = p.reply /\ a.done = FALSE
          /\ a.selected = p.selected /\ a.resumable = FALSE
          /\ a.ssl = "none" /\ a.outq = NULL
        BY DEF Allocated, Typed, TypedBut, IsPeer, Fields
    <2>2. Typed(a)
        BY AllocatedTyped
    <2> HIDE DEF a
    <2> QED
        BY <2>1, <2>2 DEF Backed
<1> HIDE DEF a
<1>2. b = [a EXCEPT !.ssl = "none", !.ctx = TRUE]
    BY <1>1 DEF tls_funcs_init
<1> DEFINE Readied(s, u) ==
               /\ IsPeer(u) /\ u.ssl = "none" /\ u.ctx = TRUE
               /\ u.data = s.data /\ u.soFar = s.soFar
               /\ u.expected = s.expected /\ u.made = s.made
               /\ u.bio = s.bio /\ u.reply = s.reply /\ u.outq = s.outq
               /\ u.inq = s.inq /\ u.done = s.done /\ u.fed = s.fed
               /\ u.selected = s.selected /\ u.resumable = s.resumable
<1>m. ASSUME NEW s, Good(s), NEW u,
             u = [s EXCEPT !.ssl = "none", !.ctx = TRUE]
      PROVE  Readied(s, u)
    <2>1. IsPeer(s)
        BY <1>m DEF Typed, TypedBut
    <2> QED
        BY <1>m, <2>1 DEF IsPeer, Fields
<1>g. \A s, u : Good(s) /\ s.outq = NULL /\ Readied(s, u) => Good(u)
    BY DEF Typed, TypedBut, Backed
<1>3. Good(b) /\ b.done = FALSE /\ b.ctx = TRUE /\ b.ssl = "none"
    <2> HIDE DEF b, Good, Readied
    <2>1. Readied(a, b)
        BY <1>1, <1>2, <1>m
    <2>2. Good(b)
        BY <1>1, <1>g, <2>1
    <2> QED
        BY <1>1, <2>1, <2>2 DEF Readied
<1> HIDE DEF b
<1>4. Good(p)
    BY DEF Same
<1>5. Good(c)
    BY <1>3, <1>4
<1>6. ASSUME NEW s, Good(s)
      PROVE  Good(tls_funcs_init(s))
    <2>1. CASE s.resumable
        BY <1>6, <2>1 DEF tls_funcs_init
    <2>2. CASE ~s.resumable
        <3>1. tls_funcs_init(s) = [s EXCEPT !.ssl = "none", !.ctx = TRUE]
            BY <2>2 DEF tls_funcs_init
        <3>2. s.ssl = "none" /\ s.outq = NULL
            BY <1>6, <2>2 DEF Backed
        <3> HIDE DEF Good, Readied
        <3>3. Readied(s, tls_funcs_init(s))
            BY <1>6, <1>m, <3>1
        <3> QED
            BY <1>6, <1>g, <3>2, <3>3
    <2> QED
        BY <2>1, <2>2
<1>7. Good(d)
    BY <1>1, <1>4, <1>6
<1> HIDE DEF c, d
<1>8. CASE q = eaptls_init(p)
    <2>1. q = [b EXCEPT !.data = IF p.data = "freed" THEN "crashed" ELSE @]
        BY <1>8 DEF eaptls_init, a, b
    <2> QED
        BY <1>3, <2>1 DEF Typed, TypedBut, IsPeer, Fields, Backed, Same
<1>9. CASE q = eappeap_init(p) /\ q # eaptls_init(p)
    <2>1. q = [c EXCEPT !.done = FALSE, !.phase2 = TRUE, !.ignore = FALSE,
                        !.methodState = "MAY_CONT"]
        BY <1>9 DEF eappeap_init, a, b, c
    <2>2. /\ q.fed = c.fed /\ q.reply = c.reply /\ q.done = FALSE
          /\ q.selected = c.selected /\ q.resumable = c.resumable
          /\ Same(c, q)
        BY <1>5, <2>1 DEF Typed, TypedBut, IsPeer, Fields, Same
    <2>3. Typed(q)
        BY <1>5, <2>1 DEF Typed, TypedBut, IsPeer, Fields
    <2> QED
        BY <1>5, <1>9, <2>2, <2>3 DEF Backed, Same
<1>10. CASE q = eapttls_init(p) /\ q # eaptls_init(p)
    <2>1. q = [d EXCEPT !.done = FALSE, !.ignore = FALSE]
        BY <1>10 DEF eapttls_init, a, d
    <2>2. IsPeer(d)
        BY <1>7 DEF Typed, TypedBut
    <2>3. /\ IsPeer(q) /\ q.done = FALSE /\ q.data = d.data
          /\ q.soFar = d.soFar /\ q.expected = d.expected
          /\ q.made = d.made /\ q.bio = d.bio /\ q.reply = d.reply
          /\ q.outq = d.outq /\ q.inq = d.inq /\ q.ssl = d.ssl
          /\ q.fed = d.fed /\ q.selected = d.selected
          /\ q.resumable = d.resumable
        BY <2>1, <2>2 DEF IsPeer, Fields
    <2>4. Typed(q) /\ Backed(q)
        BY <1>7, <2>3 DEF Typed, TypedBut, Backed
    <2>5. q.ssl = "none" \/ Same(p, q)
        BY <1>7, <2>3 DEF Same
    <2> QED
        BY <1>7, <1>10, <2>3, <2>4, <2>5
<1> QED
    BY <1>8, <1>9, <1>10

LEMMA EnteredIs ==
    ASSUME NEW p, Typed(p), Backed(p), p.selected = TRUE, Kept(p),
           cfg.method \in Methods
    PROVE  LET d == Entered(p)
           IN  /\ Typed(d) /\ Steady(d)
               /\ d.ssl = "none" \/ Same(p, d)
               /\ d.fed = p.fed /\ d.reply = p.reply /\ d.selected = TRUE
               /\ p.methodState = "INIT" => d.done = FALSE
               /\ cfg.method = "TLS" /\ p.methodState = "INIT"
                     => d.ssl = "none" /\ d.ctx = TRUE
<1> DEFINE d == Entered(p)
           u == [p EXCEPT !.ignore = FALSE]
<1>1. CASE d \in {eaptls_init(p), eappeap_init(p), eapttls_init(p)}
           /\ (cfg.method = "TLS" => d = eaptls_init(p))
    <2>1. /\ Typed(d) /\ Backed(d) /\ d.done = FALSE
          /\ d.ssl = "none" \/ Same(p, d)
          /\ d.fed = p.fed /\ d.reply = p.reply /\ d.selected = p.selected
          /\ d = eaptls_init(p) => d.ssl = "none" /\ d.ctx = TRUE
        BY <1>1, InitsAre
    <2> QED
        BY <1>1, <2>1 DEF Steady
<1>2. CASE p.methodState # "INIT" /\ d \in {p, u}
    <2>1. /\ Typed(u) /\ Backed(u) /\ Same(p, u) /\ u.done = p.done
          /\ u.fed = p.fed /\ u.reply = p.reply /\ u.selected = TRUE
        BY DEF Typed, TypedBut, IsPeer, Fields, Backed, Same
    <2>2. u.ssl = p.ssl /\ Same(p, p)
        BY <2>1 DEF Same
    <2> HIDE DEF u
    <2> QED
        BY <1>2, <2>1, <2>2 DEF Steady, Kept
<1>3. \/ /\ d \in {eaptls_init(p), eappeap_init(p), eapttls_init(p)}
         /\ (cfg.method = "TLS" => d = eaptls_init(p))
      \/ p.methodState # "INIT" /\ d \in {p, u}
    BY DEF Entered, Checked, Methods
<1> QED
    BY <1>1, <1>2, <1>3

(***************************************************************************)
(* What the functions do to it.                                            *)
(***************************************************************************)
\* Left alone by all of them.
Aside(p, q) ==
    q.reply = p.reply /\ q.ignore = p.ignore /\ q.selected = p.selected

LEMMA StartIs ==
    ASSUME NEW p, Typed(p), Steady(p), p.done = FALSE, NEW resume,
           NEW hello \in Data, hello # <<>>
    PROVE  LET t == ossl_funcs_do_start(p, resume, hello)
           IN  /\ Typed(t) /\ Steady(t) /\ Aside(p, t) /\ t.done = FALSE
               /\ t.fed = p.fed
               /\ \/ t.methodState = "EAP_FAIL"
                  \/ /\ t.methodState = "CONT" /\ t.ssl = "shaking"
                     /\ t.bio = <<>> /\ t.inq = NULL
                     /\ t.outq = [buf |-> hello, off |-> 0]
               /\ p.ssl = "none" /\ p.ctx = TRUE => t.methodState = "CONT"
               /\ t.methodState = "EAP_FAIL" /\ resume = TRUE
                     => t.ssl = "none"
<1> DEFINE i == IF p.ctx THEN p ELSE tls_funcs_init(p)
           n == tls_funcs_build_new_session(p)
           u == [p EXCEPT !.ssl = "new", !.session = (p.ssl = "open")]
           s == StartedSession(p, resume)
           t == ossl_funcs_do_start(p, resume, hello)
           Good(q) == /\ TypedBut(q) /\ Aside(p, q) /\ q.fed = p.fed
                      /\ q.done = FALSE
                      /\ q.ssl # "none" => q.resumable = TRUE
                      /\ q.ssl = "none" => q.outq = NULL
<1>1. Typed(i) /\ Good(p)
    BY InitTyped DEF Typed, Steady, Backed, Aside
<1>2. p.ssl = "none" => Good(i) /\ (p.ctx = TRUE => i.ctx = TRUE)
    BY <1>1 DEF tls_funcs_init, Typed, TypedBut, IsPeer, Fields, Aside
<1> HIDE DEF i
<1>3. n = [i EXCEPT !.ssl = IF i.ctx THEN "new" ELSE "none",
                    !.session = FALSE,
                    !.resumable = IF i.ctx THEN TRUE ELSE @]
    BY DEF tls_funcs_build_new_session, i
<1>4. p.ssl = "none" => Good(n) /\ n.ssl \in {"none", "new"}
                        /\ (p.ctx = TRUE => n.ssl = "new")
    <2> SUFFICES ASSUME p.ssl = "none"
                 PROVE  Good(n) /\ n.ssl \in {"none", "new"}
                        /\ (p.ctx = TRUE => n.ssl = "new")
        OBVIOUS
    <2>1. i.outq = NULL
        <3>1. p.outq = NULL
            BY DEF Steady, Backed
        <3>2. i.outq = p.outq
            BY DEF i, tls_funcs_init, Typed, TypedBut, IsPeer, Fields
        <3> QED
            BY <3>1, <3>2
    <2>2. Good(n)
        <3>1. /\ n.reply = i.reply /\ n.ignore = i.ignore
              /\ n.selected = i.selected /\ n.fed = i.fed
              /\ n.done = i.done /\ n.outq = NULL
              /\ n.ssl = IF i.ctx THEN "new" ELSE "none"
              /\ n.resumable = IF i.ctx THEN TRUE ELSE i.resumable
              /\ IsPeer(n) /\ n.data = i.data /\ n.soFar = i.soFar
              /\ n.expected = i.expected /\ n.made = i.made
              /\ n.bio = i.bio /\ n.inq = i.inq
            <4> DEFINE v == IF i.ctx THEN "new" ELSE "none"
                       w == IF i.ctx THEN TRUE ELSE i.resumable
            <4>1. IsPeer(i)
                BY <1>1 DEF Typed, TypedBut
            <4>2. n = [i EXCEPT !.ssl = v, !.session = FALSE, !.resumable = w]
                BY <1>3
            <4> HIDE DEF n, v, w
            <4>3. /\ IsPeer(n) /\ n.ssl = v /\ n.resumable = w
                  /\ n.reply = i.reply /\ n.ignore = i.ignore
                  /\ n.selected = i.selected /\ n.fed = i.fed
                  /\ n.done = i.done /\ n.outq = i.outq /\ n.data = i.data
                  /\ n.soFar = i.soFar /\ n.expected = i.expected
                  /\ n.made = i.made /\ n.bio = i.bio /\ n.inq = i.inq
                BY <4>1, <4>2 DEF IsPeer, Fields
            <4> QED
                BY <2>1, <4>3 DEF v, w
        <3> HIDE DEF n
        <3>2. TypedBut(n)
            BY <1>1, <3>1 DEF Typed, TypedBut, IsOut
        <3> HIDE DEF n
        <3> QED
            BY <1>2, <3>1, <3>2 DEF Aside
    <2>3. n.ssl = IF i.ctx THEN "new" ELSE "none"
        BY <1>1, <1>3 DEF Typed, TypedBut, IsPeer, Fields
    <2> QED
        BY <1>2, <2>2, <2>3
<1> HIDE DEF n
<1>5. p.ssl # "none" => Good(u) /\ u.ssl = "new"
    BY <1>1 DEF Typed, TypedBut, IsPeer, Fields, Aside, Steady, Backed
<1> HIDE DEF u
<1>6. /\ p.ssl = "none" => s = n
      /\ p.ssl # "none" => s \in {p, u} /\ (resume = TRUE => s = u)
    BY DEF StartedSession, n, u, Steady, Backed
<1>7. /\ Good(s) /\ s.ssl \in {"none", "new", "shaking", "open"}
      /\ p.ssl = "none" /\ p.ctx = TRUE => s.ssl = "new"
      /\ resume = TRUE => s.ssl \in {"none", "new"}
    BY <1>1, <1>4, <1>5, <1>6 DEF Typed
<1> HIDE DEF s
<1>8. Typed(t)
    BY StartTyped
<1>9. CASE s.ssl = "none"
    <2>1. t = [s EXCEPT !.methodState = "EAP_FAIL"]
        BY <1>9 DEF ossl_funcs_do_start, s
    <2> QED
        BY <1>7, <1>8, <1>9, <2>1
           DEF Aside, Steady, Backed, TypedBut, IsPeer, Fields
<1>10. CASE s.ssl = "new"
    <2>1. t = [s EXCEPT !.ssl = "shaking", !.bio = <<>>, !.inq = NULL,
                        !.outq = [buf |-> hello, off |-> 0],
                        !.made = @ + 1, !.asked = FALSE,
                        !.methodState = "CONT"]
        BY <1>10 DEF ossl_funcs_do_start, s
    <2> HIDE DEF t
    <2>2. /\ t.ssl = "shaking" /\ t.bio = <<>> /\ t.inq = NULL
          /\ t.outq = [buf |-> hello, off |-> 0] /\ t.methodState = "CONT"
          /\ t.done = FALSE /\ t.fed = p.fed /\ t.resumable = TRUE
          /\ Aside(p, t)
        BY <1>7, <1>10, <2>1 DEF Aside, TypedBut, IsPeer, Fields
    <2> QED
        BY <1>8, <2>2 DEF Steady, Backed, t
<1>11. CASE s.ssl \in {"shaking", "open"}
    <2>1. t = [s EXCEPT !.bio = <<>>, !.methodState = "EAP_FAIL"]
        BY <1>11 DEF ossl_funcs_do_start, s
    <2> HIDE DEF t
    <2>2. /\ t.ssl = s.ssl /\ t.methodState = "EAP_FAIL"
          /\ t.done = FALSE /\ t.fed = p.fed /\ t.resumable = TRUE
          /\ Aside(p, t)
        BY <1>7, <1>11, <2>1 DEF Aside, TypedBut, IsPeer, Fields
    <2> QED
        BY <1>7, <1>8, <1>11, <2>2 DEF Steady, Backed, t
<1> QED
    BY <1>7, <1>9, <1>10, <1>11

\* What is queued, and what OpenSSL has to say.
Speaks(queue, out) == IF out = <<>> THEN queue ELSE Behind(queue, out)

\* OpenSSL reads what is whole.
LEMMA HandedIs ==
    ASSUME NEW p, Typed(p), p.ssl = "shaking", Steady(p),
           NEW o, o.kind \in Kinds, o.out \in Data
    PROVE  LET h == Handed(p, o)
           IN  /\ Typed(h) /\ Steady(h) /\ Aside(p, h)
               /\ h.fed = p.bio
               /\ \/ /\ h.methodState = "DONE" /\ h.outq = NULL
                     /\ ~h.done /\ h.sendAck = p.sendAck
                  \/ /\ h.methodState = "MAY_CONT"
                     /\ h.bio = <<>> /\ h.soFar = p.soFar /\ h.inq = p.inq
                     /\ h.outq = Speaks(p.outq, o.out)
                     /\ \/ h.ssl = "shaking" /\ h.done = FALSE
                        \/ /\ o.kind = "opens"
                           /\ h.ssl = "open" /\ h.done = TRUE
<1> DEFINE q == [p EXCEPT !.bio = <<>>, !.fed = p.bio, !.made = @ + 1]
           r == IF o.out = <<>> THEN q ELSE Queued(q, o.out)
           d == tls_funcs_deinit(q)
           h == Handed(p, o)
           Fit(s) == Aside(p, s) /\ s.fed = p.bio /\ s.resumable = TRUE
                     /\ ~s.done /\ s.sendAck = p.sendAck
<1>1. IsPeer(q) /\ Fit(q) /\ q.bio = <<>> /\ q.soFar = p.soFar
      /\ q.inq = p.inq /\ q.outq = p.outq /\ q.ssl = "shaking"
    BY DEF Typed, TypedBut, IsPeer, Fields, Aside, Steady, Backed
<1>2. /\ IsPeer(r) /\ Fit(r) /\ r.bio = <<>> /\ r.soFar = p.soFar
      /\ r.inq = p.inq /\ r.ssl = "shaking"
      /\ r.outq = Speaks(p.outq, o.out)
    <2>1. CASE o.out = <<>>
        BY <1>1, <2>1 DEF Speaks
    <2>2. CASE o.out # <<>>
        <3>1. r = Queued(q, o.out)
            BY <2>2
        <3> HIDE DEF q
        <3>2. /\ IsPeer(r) /\ r.outq = Behind(q.outq, o.out)
              /\ \A f \in Fields \ {"outq"} : r[f] = q[f]
            BY <1>1, <3>1, QueuedIs
        <3> HIDE DEF r
        <3>3. /\ r.bio = q.bio /\ r.soFar = q.soFar /\ r.inq = q.inq
              /\ r.ssl = q.ssl /\ r.fed = q.fed /\ r.done = q.done
              /\ r.resumable = q.resumable /\ r.reply = q.reply
              /\ r.ignore = q.ignore /\ r.selected = q.selected
              /\ r.sendAck = q.sendAck
            BY <3>2 DEF Fields
        <3> QED
            BY <1>1, <2>2, <3>2, <3>3 DEF Speaks, Aside
    <2> QED
        BY <2>1, <2>2
<1>3. IsPeer(d) /\ Fit(d) /\ d.ssl = "none" /\ d.outq = NULL
    <2> HIDE DEF q
    <2>1. /\ IsPeer(d) /\ d.ssl = "none" /\ d.outq = NULL
          /\ d.fed = q.fed /\ d.done = q.done /\ d.resumable = q.resumable
          /\ d.reply = q.reply /\ d.ignore = q.ignore
          /\ d.selected = q.selected /\ d.sendAck = q.sendAck
        BY <1>1 DEF tls_funcs_deinit, IsPeer, Fields
    <2> HIDE DEF d
    <2> QED
        BY <1>1, <2>1 DEF Aside
<1> HIDE DEF q, r, d
<1>4. Typed(h)
    BY HandedTyped
<1>5. CASE o.kind = "goes_on"
    <2>1. h = [r EXCEPT !.methodState = "MAY_CONT"]
        BY <1>5 DEF Handed, q, r
    <2> HIDE DEF h
    <2>2. /\ h.methodState = "MAY_CONT" /\ h.ssl = "shaking"
          /\ h.bio = <<>> /\ h.soFar = p.soFar /\ h.inq = p.inq
          /\ h.outq = r.outq /\ h.fed = p.bio /\ h.resumable = TRUE
          /\ h.done = FALSE /\ Aside(p, h)
        <3>1. p.done = FALSE
            BY <1>2, <2>1 DEF Typed, TypedBut, Steady
        <3> QED
            BY <1>2, <2>1, <3>1 DEF IsPeer, Fields, Aside
    <2> QED
        BY <1>2, <1>4, <2>2 DEF h, Steady, Backed
<1>6. CASE o.kind = "opens"
    <2>1. h = [r EXCEPT !.ssl = "open", !.done = TRUE,
                        !.methodState = "MAY_CONT"]
        BY <1>6 DEF Handed, q, r
    <2> HIDE DEF h
    <2>2. /\ h.methodState = "MAY_CONT" /\ h.ssl = "open" /\ h.done = TRUE
          /\ h.bio = <<>> /\ h.soFar = p.soFar /\ h.inq = p.inq
          /\ h.outq = r.outq /\ h.fed = p.bio /\ h.resumable = TRUE
          /\ Aside(p, h)
        BY <1>2, <2>1 DEF IsPeer, Fields, Aside
    <2> QED
        BY <1>2, <1>4, <1>6, <2>2 DEF h, Steady, Backed
<1>7. CASE o.kind = "wrong_name"
    <2>1. h = [r EXCEPT !.ssl = "open", !.outq = NULL, !.inq = NULL,
                        !.methodState = "DONE"]
        BY <1>7 DEF Handed, q, r
    <2> HIDE DEF h
    <2>2. /\ h.methodState = "DONE" /\ h.ssl = "open" /\ h.outq = NULL
          /\ h.fed = p.bio /\ h.resumable = TRUE /\ Aside(p, h)
          /\ ~h.done /\ h.sendAck = p.sendAck
        BY <1>2, <2>1 DEF IsPeer, Fields, Aside
    <2> QED
        BY <1>4, <2>2 DEF h, Steady, Backed
<1>8. CASE o.kind \in {"unexpected", "fails"}
    <2>1. h = [d EXCEPT !.methodState = "DONE", !.asked = TRUE]
          \/ h = [d EXCEPT !.methodState = "DONE", !.bound = FALSE]
        BY <1>8 DEF Handed, q, d
    <2> HIDE DEF h
    <2>2. /\ h.methodState = "DONE" /\ h.ssl = "none" /\ h.outq = NULL
          /\ h.fed = p.bio /\ ~h.done /\ h.sendAck = p.sendAck
          /\ Aside(p, h)
        BY <1>3, <2>1 DEF IsPeer, Fields, Aside
    <2> QED
        BY <1>4, <2>2 DEF h, Steady, Backed
<1> QED
    BY <1>5, <1>6, <1>7, <1>8 DEF Kinds

\* A packet that is no Start: it comes without a session, it is an ACK, more
\* fragments follow, the counters are wrong, or the message is whole, and
\* OpenSSL reads it while the session is set up.
LEMMA OtherIs ==
    ASSUME NEW p, Typed(p), Steady(p), NEW r, IsSome(r),
           NEW o, o.kind \in Kinds, o.out \in Data
    PROVE  LET t == ossl_funcs_process_other(p, r, o)
               length == IF r.len > 0 THEN r.len
                         ELSE IF ~r.more /\ p.expected = 0 THEN Len(r.data)
                         ELSE p.expected
               count == p.soFar + Len(r.data)
           IN  /\ Typed(t) /\ Steady(t) /\ Aside(p, t)
               /\ \/ /\ t.fed = p.fed /\ t.methodState = "DONE"
                     /\ t.ssl = p.ssl /\ t.outq \in {NULL, p.outq}
                     /\ \/ p.ssl = "none"
                        \/ ~r.more /\ t.sendAck = FALSE
                        \/ /\ r.more /\ p.ssl = "open"
                           /\ t.inq = NULL /\ t.bio = p.bio \o r.data
                           /\ t.soFar = count /\ t.expected = length
                  \/ /\ IsAck(r) /\ t.methodState = "CONT"
                     /\ Same(p, t) /\ t.fed = p.fed
                     /\ t.sendAck = FALSE /\ t.done = p.done
                  \/ /\ r.more /\ t.methodState = "MAY_CONT"
                     /\ t.ssl = p.ssl /\ t.outq = p.outq /\ t.inq = p.inq
                     /\ t.bio = p.bio \o r.data /\ t.soFar = count
                     /\ t.expected = length /\ t.fed = p.fed
                  \/ /\ ~r.more /\ count = length /\ p.ssl = "open"
                     /\ t.methodState = "MAY_CONT" /\ t.ssl = "open"
                     /\ t.outq = p.outq /\ t.inq = p.inq /\ t.soFar = 0
                     /\ t.fed = p.fed /\ t.done = TRUE
                  \/ /\ ~r.more /\ p.ssl = "shaking"
                     /\ t.fed = p.bio \o r.data
                     /\ \/ /\ t.methodState = "DONE" /\ t.outq = NULL
                           /\ ~t.done /\ t.sendAck = FALSE
                        \/ /\ t.methodState = "MAY_CONT"
                           /\ t.bio = <<>> /\ t.soFar = 0 /\ t.inq = p.inq
                           /\ t.outq = Speaks(p.outq, o.out)
                           /\ \/ t.ssl = "shaking" /\ t.done = FALSE
                              \/ /\ o.kind = "opens"
                                 /\ t.ssl = "open" /\ t.done = TRUE
<1> DEFINE q == Written(p, r)
           c == [q EXCEPT !.soFar = 0, !.expected = 0]
           t == ossl_funcs_process_other(p, r, o)
           length == IF r.len > 0 THEN r.len
                     ELSE IF ~r.more /\ p.expected = 0 THEN Len(r.data)
                     ELSE p.expected
           count == p.soFar + Len(r.data)
<1>1. /\ Typed(q)
      /\ q.soFar = count /\ q.bio = p.bio \o r.data
      /\ r.len > 0 => q.expected = r.len
      /\ q.sendAck = r.more /\ q.outq = p.outq /\ q.inq = p.inq
      /\ q.ssl = p.ssl /\ q.done = p.done /\ q.data = p.data
      /\ q.resumable = p.resumable /\ q.reply = p.reply
      /\ q.ignore = p.ignore /\ q.selected = p.selected
      /\ q.fed = p.fed
    BY WrittenIs, Zenon
<1>a. Aside(p, q)
    BY <1>1 DEF Aside
<1>2. q.expected = length
    BY DEF Written, Typed, TypedBut, IsPeer, Fields
<1> HIDE DEF q
<1>3. /\ Typed(c) /\ c.soFar = 0 /\ c.bio = p.bio \o r.data
      /\ c.outq = p.outq /\ c.inq = p.inq /\ c.ssl = p.ssl
      /\ c.done = p.done /\ c.resumable = p.resumable /\ c.fed = p.fed
      /\ c.sendAck = r.more /\ Aside(p, c)
    BY <1>1, <1>a DEF Typed, TypedBut, IsPeer, Fields, Aside
<1>4. Steady(q) /\ Steady(c)
    BY <1>1, <1>3 DEF Steady, Backed
<1>5. /\ t = CASE p.ssl = "none" ->
                   [p EXCEPT !.methodState = "DONE", !.reinit = TRUE]
               [] p.ssl # "none" /\ IsAck(r) ->
                   [p EXCEPT !.sendAck = FALSE, !.methodState = "CONT"]
               [] p.ssl # "none" /\ ~IsAck(r) /\ r.more -> NothingHanded(q, o)
               [] OTHER ->
                   IF q.soFar # q.expected
                   THEN [c EXCEPT !.methodState = "DONE"]
                   ELSE IF p.ssl = "open" THEN NothingHanded(c, o)
                   ELSE Handed(c, o)
    BY DEF ossl_funcs_process_other, q, c
<1>6. Typed(t)
    BY OtherTyped
<1> HIDE DEF c, t
<1>7. CASE p.ssl = "none"
    <2>1. t = [p EXCEPT !.methodState = "DONE", !.reinit = TRUE]
        BY <1>5, <1>7
    <2>2. /\ t.methodState = "DONE" /\ t.fed = p.fed /\ Aside(p, t)
          /\ t.ssl = p.ssl /\ t.outq = p.outq /\ t.done = p.done
        BY <2>1 DEF Typed, TypedBut, IsPeer, Fields, Aside
    <2>3. Steady(t)
        BY <1>7, <2>2 DEF Steady, Backed
    <2> QED
        BY <1>6, <1>7, <2>2, <2>3 DEF t
<1>8. CASE p.ssl # "none" /\ IsAck(r)
    <2>1. t = [p EXCEPT !.sendAck = FALSE, !.methodState = "CONT"]
        BY <1>5, <1>8
    <2>2. /\ t.methodState = "CONT" /\ t.fed = p.fed /\ Aside(p, t)
          /\ Same(p, t) /\ t.sendAck = FALSE /\ t.done = p.done
          /\ t.resumable = p.resumable
        BY <2>1 DEF Typed, TypedBut, IsPeer, Fields, Aside, Same
    <2>3. Steady(t)
        BY <1>8, <2>2 DEF Steady, Backed, Same
    <2> QED
        BY <1>6, <1>8, <2>2, <2>3 DEF t
<1>9. ASSUME NEW s, Typed(s), Steady(s), s.fed = p.fed, Aside(p, s),
             t = NothingHanded(s, o)
      PROVE  /\ Steady(t) /\ Aside(p, t) /\ t.ssl = s.ssl
             /\ t.bio = s.bio /\ t.soFar = s.soFar
             /\ t.expected = s.expected /\ t.fed = p.fed
             /\ t.sendAck = s.sendAck
             /\ \/ /\ t.methodState = "MAY_CONT"
                   /\ t.outq = s.outq /\ t.inq = s.inq
                   /\ s.ssl = "open" => t.done = TRUE
                \/ /\ t.methodState = "DONE" /\ s.ssl = "open"
                   /\ t.outq = NULL /\ t.inq = NULL
    <2>1. CASE s.ssl = "open" /\ o.kind = "wrong_name"
        BY <1>9, <2>1 DEF NothingHanded, Typed, TypedBut, IsPeer, Fields,
                          Aside, Steady, Backed
    <2>2. CASE ~(s.ssl = "open" /\ o.kind = "wrong_name")
        BY <1>9, <2>2 DEF NothingHanded, Typed, TypedBut, IsPeer, Fields,
                          Aside, Steady, Backed
    <2> QED
        BY <2>1, <2>2
<1>10. CASE p.ssl # "none" /\ ~IsAck(r) /\ r.more
    <2>1. t = NothingHanded(q, o)
        BY <1>5, <1>10
    <2>2. /\ Steady(t) /\ Aside(p, t) /\ t.ssl = q.ssl
          /\ t.bio = q.bio /\ t.soFar = q.soFar
          /\ t.expected = q.expected /\ t.fed = p.fed
          /\ \/ /\ t.methodState = "MAY_CONT"
                /\ t.outq = q.outq /\ t.inq = q.inq
             \/ /\ t.methodState = "DONE" /\ q.ssl = "open"
                /\ t.outq = NULL /\ t.inq = NULL
        BY <1>1, <1>a, <1>4, <1>9, <2>1
    <2> HIDE DEF length, count
    <2>3. /\ r.more /\ t.ssl = p.ssl
          /\ t.bio = p.bio \o r.data /\ t.soFar = count
          /\ t.expected = length /\ t.fed = p.fed
          /\ \/ /\ t.methodState = "MAY_CONT"
                /\ t.outq = p.outq /\ t.inq = p.inq
             \/ /\ t.methodState = "DONE" /\ p.ssl = "open"
                /\ t.outq = NULL /\ t.inq = NULL
        BY <1>1, <1>2, <1>10, <2>2
    <2> QED
        BY <1>6, <2>2, <2>3 DEF t, length, count
<1>11. CASE p.ssl # "none" /\ ~IsAck(r) /\ ~r.more
    <2>1. t = IF q.soFar # q.expected
              THEN [c EXCEPT !.methodState = "DONE"]
              ELSE IF p.ssl = "open" THEN NothingHanded(c, o)
              ELSE Handed(c, o)
        BY <1>5, <1>11
    <2> HIDE DEF length, count
    <2>2. CASE q.soFar # q.expected
        <3>1. t = [c EXCEPT !.methodState = "DONE"]
            BY <2>1, <2>2
        <3>2. t.methodState = "DONE" /\ t.fed = p.fed /\ Aside(p, t)
              /\ Steady(t) /\ t.ssl = p.ssl /\ t.outq = p.outq
              /\ t.sendAck = r.more
            BY <1>3, <1>4, <3>1
               DEF Typed, TypedBut, IsPeer, Fields, Aside, Steady, Backed
        <3>3. t.sendAck = FALSE
            BY <1>11, <3>2 DEF IsSome
        <3> QED
            BY <1>6, <1>11, <3>2, <3>3 DEF t
    <2>3. CASE q.soFar = q.expected /\ p.ssl = "open"
        <3>1. t = NothingHanded(c, o)
            BY <2>1, <2>3
        <3>2. /\ Steady(t) /\ Aside(p, t) /\ t.ssl = c.ssl
              /\ t.soFar = c.soFar /\ t.fed = p.fed
              /\ t.sendAck = c.sendAck
              /\ \/ /\ t.methodState = "MAY_CONT"
                    /\ t.outq = c.outq /\ t.inq = c.inq
                    /\ c.ssl = "open" => t.done = TRUE
                 \/ t.methodState = "DONE" /\ t.outq = NULL
            BY <1>3, <1>4, <1>9, <3>1
        <3>4. r.more = FALSE
            BY <1>11 DEF IsSome
        <3>3. /\ ~r.more /\ count = length /\ p.ssl = "open"
              /\ t.ssl = "open" /\ t.fed = p.fed /\ t.sendAck = FALSE
              /\ \/ /\ t.methodState = "MAY_CONT" /\ t.soFar = 0
                    /\ t.outq = p.outq /\ t.inq = p.inq
                    /\ t.done = TRUE
                 \/ t.methodState = "DONE" /\ t.outq = NULL
            BY <1>1, <1>2, <1>3, <1>11, <2>3, <3>2, <3>4
        <3> QED
            BY <1>6, <3>2, <3>3 DEF t, length, count
    <2>4. CASE q.soFar = q.expected /\ p.ssl # "open"
        <3>1. t = Handed(c, o) /\ p.ssl = "shaking"
            BY <1>11, <2>1, <2>4 DEF Typed
        <3> DEFINE h == Handed(c, o)
        <3>4. /\ Steady(h) /\ Aside(c, h) /\ h.fed = c.bio
              /\ \/ /\ h.methodState = "DONE" /\ h.outq = NULL
                    /\ ~h.done /\ h.sendAck = c.sendAck
                 \/ /\ h.methodState = "MAY_CONT"
                    /\ h.bio = <<>> /\ h.soFar = c.soFar /\ h.inq = c.inq
                    /\ h.outq = Speaks(c.outq, o.out)
                    /\ \/ h.ssl = "shaking" /\ h.done = FALSE
                       \/ /\ o.kind = "opens"
                          /\ h.ssl = "open" /\ h.done = TRUE
            BY <1>3, <1>4, <3>1, HandedIs
        <3> HIDE DEF h
        <3>2. /\ Steady(t) /\ Aside(c, t) /\ t.fed = c.bio
              /\ \/ /\ t.methodState = "DONE" /\ t.outq = NULL
                    /\ ~t.done /\ t.sendAck = c.sendAck
                 \/ /\ t.methodState = "MAY_CONT"
                    /\ t.bio = <<>> /\ t.soFar = c.soFar /\ t.inq = c.inq
                    /\ t.outq = Speaks(c.outq, o.out)
                    /\ \/ t.ssl = "shaking" /\ t.done = FALSE
                       \/ /\ o.kind = "opens"
                          /\ t.ssl = "open" /\ t.done = TRUE
            BY <3>1, <3>4 DEF h
        <3>3. Aside(p, t) /\ c.sendAck = FALSE
            BY <1>3, <1>11, <3>2 DEF Aside, IsSome
        <3> QED
            BY <1>3, <1>6, <1>11, <3>1, <3>2, <3>3 DEF t
    <2> QED
        BY <2>2, <2>3, <2>4
<1> QED
    BY <1>7, <1>8, <1>10, <1>11

\* Data of phase 2: the queue is spoilt, the message is not complete, or
\* OpenSSL reads it.
LEMMA PhaseTwoIs ==
    ASSUME NEW p, Typed(p), Steady(p), NEW r, IsSome(r), NEW reply \in Data
    PROVE  LET t == PhaseTwo(p, r, reply)
               buf == InQueue(p, r).buf \o r.data
               length == IF r.len > 0 THEN r.len ELSE p.expected
               data == p.bio \o buf
               size == data[1].last
           IN  /\ Typed(t) /\ Steady(t) /\ buf \in Data
               /\ t.ssl = p.ssl /\ t.outq = p.outq /\ t.soFar = p.soFar
               /\ t.expected = length
               /\ t.selected = p.selected /\ t.done = p.done
               /\ \/ /\ t.reply = p.reply /\ t.fed = p.fed /\ t.bio = p.bio
                     /\ Spoilt(InQueue(p, r)) \/ buf = <<>>
                        \/ Len(buf) < length
                     /\ ~Spoilt(InQueue(p, r)) =>
                           /\ t.inq = Gathered(InQueue(p, r), r)
                           /\ t.inq.buf = buf
                  \/ /\ buf # <<>> /\ Len(buf) >= length
                     /\ data[1].at = 1 /\ size <= Len(data)
                     /\ t.fed = SubSeq(data, 1, size)
                     /\ t.bio = SubSeq(data, size + 1, Len(data))
                     /\ t.inq = NULL /\ t.reply = reply
                     /\ t.ignore = p.ignore
                  \/ /\ buf # <<>> /\ Len(buf) >= length
                     /\ ~(data[1].at = 1 /\ size <= Len(data))
                     /\ t.ignore = TRUE /\ t.reply = p.reply
                     /\ t.fed = data
<1> DEFINE t == PhaseTwo(p, r, reply)
           queue == InQueue(p, r)
           buf == queue.buf \o r.data
           length == IF r.len > 0 THEN r.len ELSE p.expected
           data == p.bio \o buf
           size == data[1].last
           whole == data[1].at = 1 /\ size <= Len(data)
           q == tls_funcs_buffer(p, r)
           rest == IF whole THEN SubSeq(data, size + 1, Len(data)) ELSE data
           fed == IF whole THEN SubSeq(data, 1, size) ELSE data
           u == [q EXCEPT !.inq = NULL, !.fed = fed, !.bio = rest]
           Kin(s) == /\ s.ssl = p.ssl /\ s.outq = p.outq
                     /\ s.soFar = p.soFar /\ s.expected = length
                     /\ s.selected = p.selected /\ s.done = p.done
                     /\ s.resumable = p.resumable
<1>b. /\ Typed(q)
      /\ queue.buf \in Data
      /\ ~Spoilt(queue) => /\ q.inq = Gathered(queue, r)
                           /\ q.inq.buf = queue.buf \o r.data
      /\ Spoilt(queue) => q.inq = queue
      /\ q.expected = IF r.len > 0 THEN r.len ELSE p.expected
      /\ q.soFar = p.soFar /\ q.bio = p.bio /\ q.outq = p.outq
      /\ q.ssl = p.ssl /\ q.done = p.done /\ q.data = p.data
      /\ q.resumable = p.resumable /\ q.reply = p.reply
      /\ q.ignore = p.ignore /\ q.selected = p.selected
      /\ q.methodState = p.methodState /\ q.fed = p.fed
    BY BufferIs, Zenon
<1> HIDE DEF q, queue
<1>1. /\ Typed(q) /\ queue.buf \in Data
      /\ ~Spoilt(queue) => q.inq = Gathered(queue, r) /\ q.inq.buf = buf
      /\ Kin(q) /\ q.bio = p.bio /\ q.reply = p.reply /\ q.fed = p.fed
      /\ q.ignore = p.ignore
    BY <1>b
<1>2. buf \in Data
    BY <1>1, DataGrows DEF IsSome
<1>3. t = IF Spoilt(queue) THEN [q EXCEPT !.ignore = FALSE]
          ELSE InnerProcessed(q, reply)
    BY DEF PhaseTwo, queue, q
<1> HIDE DEF buf
<1>4. ~Spoilt(queue) => tls_funcs_decrypt(q) = [read |-> whole, peer |-> u]
    <2> SUFFICES ASSUME ~Spoilt(queue)
                 PROVE  tls_funcs_decrypt(q) = [read |-> whole, peer |-> u]
        OBVIOUS
    <2>1. q.bio \o q.inq.buf = data
        BY <1>1
    <2> HIDE DEF data
    <2> QED
        BY <2>1, Zenon DEF tls_funcs_decrypt
<1>5. Typed(t)
    BY PhaseTwoTyped
<1> HIDE DEF data, rest, fed
<1>6. Kin(u) /\ u.inq = NULL /\ u.fed = fed /\ u.bio = rest
      /\ u.reply = p.reply /\ u.ignore = p.ignore /\ IsPeer(u)
    BY <1>1 DEF Typed, TypedBut, IsPeer, Fields
<1> HIDE DEF u, length
<1>7. Kin(t) => Steady(t)
    BY DEF Steady, Backed
<1> HIDE DEF t
<1>8. CASE Spoilt(queue)
    <2>1. t = [q EXCEPT !.ignore = FALSE]
        BY <1>3, <1>8
    <2>2. Kin(t) /\ t.reply = p.reply /\ t.fed = p.fed /\ t.bio = p.bio
        BY <1>1, <2>1 DEF Typed, TypedBut, IsPeer, Fields
    <2> QED
        BY <1>2, <1>5, <1>7, <1>8, <2>2
           DEF t, queue, buf, length, data
<1>9. CASE ~Spoilt(queue) /\ ~tls_funcs_decrypt_ready(q)
    <2>1. t = q
        BY <1>3, <1>9 DEF InnerProcessed
    <2>2. buf = <<>> \/ Len(buf) < length
        <3>1. q.inq.buf = buf /\ q.expected = length
            BY <1>1, <1>9
        <3>2. ~(buf # <<>> /\ Len(buf) >= length)
            BY <1>9, <3>1 DEF tls_funcs_decrypt_ready
        <3>3. Len(buf) \in Nat /\ length \in Nat
            BY <1>2 DEF length, Data, IsSome, Typed, TypedBut
        <3> QED
            BY <3>2, <3>3
    <2> QED
        BY <1>1, <1>2, <1>5, <1>7, <1>9, <2>1, <2>2
           DEF t, queue, buf, length, data
<1>10. CASE ~Spoilt(queue) /\ tls_funcs_decrypt_ready(q)
    <2>1. buf # <<>> /\ Len(buf) >= length
        BY <1>1, <1>10 DEF tls_funcs_decrypt_ready
    <2>0. t = InnerProcessed(q, reply)
        BY <1>3, <1>10
    <2> DEFINE e == tls_funcs_decrypt(q)
    <2>a. e.read = whole /\ e.peer = u
        BY <1>4, <1>10
    <2>b. t = IF e.read THEN [e.peer EXCEPT !.reply = reply]
              ELSE eap_type_common_fail(e.peer)
        BY <1>10, <2>0 DEF InnerProcessed
    <2> HIDE DEF e
    <2>2. t = IF whole THEN [u EXCEPT !.reply = reply]
              ELSE eap_type_common_fail(u)
        BY <2>a, <2>b
    <2> HIDE DEF whole
    <2>3. CASE whole
        <3>1. t = [u EXCEPT !.reply = reply]
            BY <2>2, <2>3
        <3>2. Kin(t) /\ t.reply = reply /\ t.fed = fed /\ t.bio = rest
              /\ t.inq = NULL /\ t.ignore = p.ignore
            BY <1>6, <3>1 DEF IsPeer, Fields
        <3>3. fed = SubSeq(data, 1, size)
              /\ rest = SubSeq(data, size + 1, Len(data))
            BY <2>3 DEF fed, rest, whole
        <3>4. data[1].at = 1 /\ size <= Len(data)
            BY <2>3 DEF whole
        <3> QED
            BY <1>2, <1>5, <1>7, <2>1, <3>2, <3>3, <3>4
               DEF t, queue, buf, length, data
    <2>4. CASE ~whole
        <3>1. t = [u EXCEPT !.ignore = TRUE]
            BY <2>2, <2>4 DEF eap_type_common_fail
        <3>2. Kin(t) /\ t.reply = p.reply /\ t.fed = fed /\ t.ignore = TRUE
            BY <1>6, <3>1 DEF IsPeer, Fields
        <3>3. fed = data /\ ~(data[1].at = 1 /\ size <= Len(data))
            BY <2>4 DEF fed, whole
        <3> QED
            BY <1>2, <1>5, <1>7, <2>1, <3>2, <3>3
               DEF t, queue, buf, length, data
    <2> QED
        BY <2>3, <2>4
<1> QED
    BY <1>8, <1>9, <1>10

(***************************************************************************)
(* How the peer stands when it has processed a request.                    *)
(***************************************************************************)
Alike(p, q) ==
    /\ Same(p, q) /\ q.fed = p.fed /\ q.done = p.done
    /\ q.selected = p.selected /\ q.methodState = p.methodState
    /\ q.sendAck = p.sendAck /\ q.resumable = p.resumable

LEMMA AdjustedIs ==
    ASSUME NEW p, Typed(p), NEW reply \in Data
    PROVE  LET u == [p EXCEPT !.ignore = FALSE]
               f == eap_type_common_fail(p)
               s == [p EXCEPT !.reply = reply]
           IN  /\ Typed(u) /\ Alike(p, u) /\ u.reply = p.reply
               /\ Typed(f) /\ Alike(p, f) /\ f.reply = p.reply
               /\ f.ignore = TRUE
               /\ Typed(s) /\ Alike(p, s) /\ s.reply = reply
               /\ s.ignore = p.ignore
BY DEF eap_type_common_fail, Alike, Same, Typed, TypedBut, IsPeer, Fields

LEMMA AlikeSteady ==
    ASSUME NEW p, NEW q, Alike(p, q), Steady(p) PROVE Steady(q)
BY DEF Alike, Same, Steady, Backed

\* Every method begins with the functions they share.
LEMMA ProcessedIs ==
    ASSUME NEW p, NEW r, NEW x, cfg.method \in Methods
    PROVE  LET q == Processed(Checked(p), r, x)
               d == Entered(p)
               t == tls_funcs_process(d, r, cfg.resume, x.hello, x.ssl)
               two == PhaseTwo(d, r, x.reply)
               inner == ~r.start /\ d.done
           IN  \/ cfg.method = "TLS" /\ q = [t EXCEPT !.ignore = FALSE]
               \/ cfg.method = "PEAP" /\ q = eap_type_common_fail(d)
               \/ cfg.method = "PEAP" /\ ~inner
                  /\ t.methodState = "EAP_FAIL"
                  /\ q = eap_type_common_fail(t)
               \/ cfg.method = "PEAP" /\ ~inner
                  /\ t.methodState # "EAP_FAIL" /\ q = t
               \/ cfg.method # "TLS" /\ inner /\ q = two
               \/ cfg.method = "TTLS" /\ ~inner
                  /\ t.done /\ t.methodState # "DONE"
                  /\ q = [t EXCEPT !.reply = x.reply]
               \/ cfg.method = "TTLS" /\ ~inner
                  /\ ~(t.done /\ t.methodState # "DONE") /\ q = t
<1>1. CASE cfg.method = "TLS"
    BY <1>1 DEF Processed, Checked, Entered, eaptls_process
<1>2. CASE cfg.method = "PEAP"
    BY <1>2 DEF Processed, Entered, eappeap_process
<1>3. CASE cfg.method = "TTLS"
    BY <1>3 DEF Processed, Entered, eapttls_process
<1> QED
    BY <1>1, <1>2, <1>3 DEF Methods

\* An ACK ends nothing but the handshake of a tunnel or of EAP-TLS.
LEMMA AckAnswers ==
    ASSUME NEW p, OpenLate(p),
           srv.off < Len(srv.flight) =>
               Nothing /\ p.outq = NULL /\ Midway(p, srv.off)
               /\ OpenInner(p),
           Accepted(Ack) => /\ Whole(Got(Ack), srv.conv)
                            /\ p.outq = NULL /\ Midway(p, 0)
    PROVE  Answered(p, Ack)
BY AckIs DEF Answered

LEMMA AckAccepted ==
    ASSUME TypeInv, Accepted(Ack)
    PROVE  /\ srv.off = Len(srv.flight) /\ Got(Ack) = srv.got
           /\ srv.total \in {0, Len(srv.got)}
           /\ Nothing => srv.stage = "flight2" /\ cfg.method # "TTLS"
                         /\ Whole(Got(Ack), srv.conv)
<1>1. srv.got \in Data
    BY DEF TypeInv, IsServer
<1>2. Got(Ack) = srv.got /\ Total(Ack) = srv.total
    BY <1>1, AckIs, ConcatEmptySeq DEF Got, Total, Data
<1> QED
    BY <1>2, EmptyWhole DEF Accepted, Nothing

\* The peer has all of the server's message, and what it has to say is in
\* the queue or goes there.
Spoken(q) ==
    /\ srv.off = Len(srv.flight) /\ Nothing /\ OpenLate(q)
    /\ q.ssl \in {"shaking", "open"} /\ EmptyIn(q)
    /\ q.ssl = "open" => q.soFar = 0
    /\ q.reply = <<>> => q.bio = <<>>
    /\ Whole(q.reply, srv.conv)
    /\ \/ q.outq = NULL
       \/ /\ q.outq = [buf |-> q.outq.buf, off |-> 0]
          /\ Whole(q.outq.buf, srv.conv)
    /\ srv.stage = "flight2" /\ cfg.method # "TTLS"
          => q.outq = NULL /\ q.reply = <<>>

\* It has nothing to say that the server can take for an answer.
Quiet(q) ==
    /\ srv.off = Len(srv.flight) /\ Nothing /\ OpenLate(q)
    /\ q.outq = NULL /\ q.reply = <<>>
    /\ srv.stage = "flight2" => ~q.done /\ ~q.sendAck

\* It waits for the rest of the server's message.
Reading(q) ==
    /\ srv.off \in 1 .. Len(srv.flight) /\ srv.off < Len(srv.flight)
    /\ Nothing /\ q.outq = NULL /\ Midway(q, srv.off) /\ OpenInner(q)
    /\ q.reply # <<>> => q.ssl = "open"

\* It is in the middle of its own.
Sending(q) ==
    /\ srv.off = Len(srv.flight) /\ q.reply = <<>>
    /\ HalfSent(q, srv.got, srv.total) /\ Midway(q, 0) /\ OpenLate(q)

\* The method is done.  With EAP-TLS that is no failure yet, but all it can
\* still send is an ACK.
Ended(q) ==
    /\ q.methodState = "DONE"
    /\ cfg.method = "TLS" =>
           /\ q.outq = NULL
           /\ q.done \/ q.sendAck => Answered(q, Ack)

Over(q) == q.ignore = TRUE \/ Ended(q)

Proper(q) ==
    /\ Typed(q) /\ Steady(q) /\ q.selected = TRUE
    /\ q.reply # <<>> => q.done /\ cfg.method # "TLS"

LEMMA AlikeStands ==
    ASSUME NEW p, NEW q, Alike(p, q), q.reply = p.reply
    PROVE  /\ Spoken(p) => Spoken(q)
           /\ Quiet(p) => Quiet(q)
           /\ Reading(p) => Reading(q)
           /\ Sending(p) => Sending(q)
           /\ Ended(p) => Ended(q)
<1>1. /\ \A n : Midway(p, n) => Midway(q, n)
      /\ OpenInner(p) => OpenInner(q)
      /\ OpenLate(p) => OpenLate(q)
    BY SameAnswered DEF Alike
<1>2. \A got, total : HalfSent(p, got, total) => HalfSent(q, got, total)
    BY DEF Alike, Same, HalfSent
<1>3. /\ q.ssl = p.ssl /\ q.bio = p.bio /\ q.soFar = p.soFar
      /\ q.inq = p.inq /\ q.outq = p.outq /\ q.done = p.done
      /\ q.sendAck = p.sendAck
    BY DEF Alike, Same
<1>4. Spoken(p) => Spoken(q)
    BY <1>1, <1>3 DEF Spoken, EmptyIn
<1>5. Quiet(p) => Quiet(q)
    BY <1>1, <1>3 DEF Quiet
<1>6. Reading(p) => Reading(q)
    BY <1>1, <1>3 DEF Reading
<1>7. Sending(p) => Sending(q)
    BY <1>1, <1>2 DEF Sending
<1>8. Ended(p) => Ended(q)
    <2>1. Answered(p, Ack) => Answered(q, Ack)
        BY SameAnswered DEF Alike
    <2>2. q.methodState = p.methodState
        BY DEF Alike
    <2> QED
        BY <1>3, <2>1, <2>2 DEF Ended
<1> QED
    BY <1>4, <1>5, <1>6, <1>7, <1>8

\* A Start.
LEMMA StartProcessed ==
    ASSUME TypeInv, Resumes, AtStart(req), NEW p, NEW x, IsInput(x),
           Whole(x.hello, srv.conv),
           Typed(Entered(p)), Steady(Entered(p)), Entered(p).done = FALSE,
           Entered(p).reply = <<>>, Entered(p).selected = TRUE,
           cfg.method = "TLS" => Entered(p).ssl = "none"
                                 /\ Entered(p).ctx = TRUE
    PROVE  LET q == Processed(Checked(p), req, x)
           IN  /\ Proper(q) /\ q.fed = Entered(p).fed
               /\ Over(q) \/ Spoken(q) \/ Quiet(q)
<1> DEFINE d == Entered(p)
           q == Processed(Checked(p), req, x)
           t == tls_funcs_process(d, req, cfg.resume, x.hello, x.ssl)
<1>1. req.start /\ srv.stage = "start" /\ Nothing
      /\ srv.off = Len(srv.flight)
    BY DEF AtStart, Start, Ack, Packet
<1>2. t = ossl_funcs_do_start(d, cfg.resume, x.hello)
    BY <1>1 DEF tls_funcs_process
<1>3. cfg.method \in Methods /\ (cfg.method = "TTLS" => cfg.resume = TRUE)
    BY MethodIsKnown DEF TypeInv, Resumes
<1>a. /\ Typed(d) /\ Steady(d) /\ d.done = FALSE /\ d.reply = <<>>
      /\ d.selected = TRUE
      /\ x.hello \in Data /\ x.hello # <<>>
    BY DEF IsInput
<1> HIDE DEF d, t
<1>4. /\ Typed(t) /\ Steady(t) /\ Aside(d, t) /\ t.done = FALSE
      /\ t.fed = d.fed
      /\ \/ t.methodState = "EAP_FAIL"
         \/ /\ t.methodState = "CONT" /\ t.ssl = "shaking"
            /\ t.bio = <<>> /\ t.inq = NULL
            /\ t.outq = [buf |-> x.hello, off |-> 0]
      /\ d.ssl = "none" /\ d.ctx = TRUE => t.methodState = "CONT"
      /\ t.methodState = "EAP_FAIL" /\ cfg.resume = TRUE => t.ssl = "none"
    <2> DEFINE h == ossl_funcs_do_start(d, cfg.resume, x.hello)
    <2>1. /\ Typed(h) /\ Steady(h) /\ Aside(d, h) /\ h.done = FALSE
          /\ h.fed = d.fed
          /\ \/ h.methodState = "EAP_FAIL"
             \/ /\ h.methodState = "CONT" /\ h.ssl = "shaking"
                /\ h.bio = <<>> /\ h.inq = NULL
                /\ h.outq = [buf |-> x.hello, off |-> 0]
          /\ d.ssl = "none" /\ d.ctx = TRUE => h.methodState = "CONT"
          /\ h.methodState = "EAP_FAIL" /\ cfg.resume = TRUE
                => h.ssl = "none"
        BY <1>a, StartIs
    <2> HIDE DEF h
    <2> QED
        BY <1>2, <2>1 DEF h
<1>5. Proper(t)
    BY <1>4 DEF Proper, Aside, d
<1>6. t.methodState = "CONT" => Spoken(t)
    BY <1>1, <1>4, EmptyWhole
       DEF Spoken, OpenLate, EmptyIn, Aside, d
<1>7. t.methodState = "EAP_FAIL" /\ cfg.resume = TRUE => Quiet(t)
    BY <1>1, <1>4 DEF Quiet, OpenLate, Steady, Backed, Aside, d
<1>8. ASSUME NEW s, Typed(s), NEW u, Typed(u), Alike(s, u), Proper(s),
             u.reply = s.reply
      PROVE  Proper(u)
    <2>1. u.selected = s.selected /\ u.done = s.done
        BY <1>8 DEF Alike
    <2> QED
        BY <1>8, <2>1, AlikeSteady DEF Proper
<1>9. Proper(d)
    BY DEF Proper, d
<1> DEFINE u == [t EXCEPT !.ignore = FALSE]
           f == eap_type_common_fail(t)
           g == eap_type_common_fail(d)
<1>10. /\ Typed(u) /\ Alike(t, u) /\ u.reply = t.reply
       /\ Typed(f) /\ Alike(t, f) /\ f.reply = t.reply /\ f.ignore = TRUE
       /\ Typed(g) /\ Alike(d, g) /\ g.reply = d.reply /\ g.ignore = TRUE
    BY <1>4, AdjustedIs, EmptyWhole DEF d
<1>11. \/ cfg.method = "TLS" /\ q = u
       \/ q \in {f, g}
       \/ cfg.method = "PEAP" /\ t.methodState # "EAP_FAIL" /\ q = t
       \/ cfg.method = "TTLS" /\ q = t
    BY <1>1, <1>3, <1>4, ProcessedIs DEF d, t
<1> HIDE DEF u, f, g, q
<1>12. CASE cfg.method = "TLS" /\ q = u
    <2>1. t.methodState = "CONT"
        BY <1>4, <1>12 DEF d
    <2>2. Spoken(u) /\ Proper(u) /\ u.fed = t.fed
        BY <1>4, <1>5, <1>6, <1>8, <1>10, <2>1, AlikeStands DEF Alike
    <2> QED
        BY <1>4, <1>12, <2>2 DEF q, d
<1>13. CASE q \in {f, g}
    <2>1. Proper(f) /\ Proper(g) /\ f.fed = t.fed /\ g.fed = d.fed
        <3>1. Proper(f) /\ Proper(g)
            BY <1>4, <1>5, <1>8, <1>9, <1>10 DEF d
        <3> QED
            BY <1>10, <3>1 DEF Alike
    <2> QED
        BY <1>4, <1>10, <1>13, <2>1 DEF q, d, Over
<1>14. CASE cfg.method = "PEAP" /\ t.methodState # "EAP_FAIL" /\ q = t
    BY <1>4, <1>5, <1>6, <1>14 DEF q, d
<1>15. CASE cfg.method = "TTLS" /\ q = t
    BY <1>3, <1>4, <1>5, <1>6, <1>7, <1>15 DEF q, d
<1> QED
    BY <1>11, <1>12, <1>13, <1>14, <1>15

LEMMA AlikeProper ==
    ASSUME NEW s, NEW u, Typed(u), Alike(s, u), Proper(s), u.reply = s.reply
    PROVE  Proper(u) /\ u.fed = s.fed
<1>1. u.selected = s.selected /\ u.done = s.done /\ u.fed = s.fed
    BY DEF Alike
<1>2. Steady(u)
    BY AlikeSteady DEF Proper
<1> QED
    BY <1>1, <1>2 DEF Proper

\* The server's ACK to a fragment: nothing is read.
LEMMA AckProcessed ==
    ASSUME TypeInv, NEW p, AtAck(p, req), NEW x, IsInput(x),
           Typed(Entered(p)), Steady(Entered(p)),
           Entered(p).ssl = "none" \/ Same(p, Entered(p)),
           Entered(p).reply = <<>>, Entered(p).selected = TRUE
    PROVE  LET q == Processed(Checked(p), req, x)
           IN  /\ Proper(q) /\ q.fed = Entered(p).fed
               /\ Over(q) \/ Sending(q)
<1> DEFINE d == Entered(p)
           q == Processed(Checked(p), req, x)
           t == tls_funcs_process(d, req, cfg.resume, x.hello, x.ssl)
           two == PhaseTwo(d, req, x.reply)
<1>1. /\ IsSome(req) /\ req.start = FALSE /\ req.len = 0
      /\ req.more = FALSE /\ req.data = <<>> /\ IsAck(req)
    <2>1. req = Ack
        BY DEF AtAck
    <2>2. Len(<<>>) <= AckSlack
        BY ChunkAssumption
    <2> QED
        BY <2>1, <2>2, AckIs DEF IsAck
<1>2. cfg.method \in Methods
    BY MethodIsKnown DEF TypeInv
<1>3. /\ Typed(d) /\ Steady(d) /\ d.reply = <<>> /\ d.selected = TRUE
      /\ x.reply \in Data
    BY DEF IsInput
<1>4. d.ssl # "none" => Sending(d)
    <2> SUFFICES ASSUME d.ssl # "none" PROVE Sending(d)
        OBVIOUS
    <2>1. AtAck(d, req)
        BY SameAnswered
    <2> QED
        BY <1>3, <2>1 DEF AtAck, Sending
\* The server has begun to get a message, for which an ACK is no answer.
<1>a. ~(srv.off < Len(srv.flight)) /\ ~Accepted(Ack)
    <2> DEFINE buf == p.outq.buf
               off == p.outq.off
    <2>1. /\ srv.off = Len(srv.flight)
          /\ buf \in Data /\ off \in 1 .. Len(buf) /\ off < Len(buf)
          /\ srv.got = SubSeq(buf, 1, off) /\ srv.total = Len(buf)
        BY DEF AtAck, HalfSent
    <2> HIDE DEF buf, off
    <2>2. /\ \A i \in 1 .. off : buf[i] \in Units
          /\ Len(buf) \in Nat
        BY <2>1, ElementOfSeq DEF Data
    <2>3. Len(srv.got) = off
        BY <2>1, <2>2, SubSeqProperties
    <2>4. ~Accepted(Ack)
        BY <2>1, <2>2, <2>3, AckAccepted
    <2> QED
        BY <2>1, <2>4 DEF TypeInv, IsServer
<1>5. t = ossl_funcs_process_other(d, req, x.ssl)
    BY <1>1 DEF tls_funcs_process
<1>6. \/ cfg.method = "TLS" /\ q = [t EXCEPT !.ignore = FALSE]
      \/ cfg.method = "PEAP" /\ q = eap_type_common_fail(d)
      \/ cfg.method = "PEAP" /\ q = eap_type_common_fail(t)
      \/ cfg.method = "PEAP" /\ q = t
      \/ cfg.method # "TLS" /\ d.done /\ q = two
      \/ cfg.method = "TTLS" /\ ~d.done
         /\ t.done /\ t.methodState # "DONE"
         /\ q = [t EXCEPT !.reply = x.reply]
      \/ cfg.method = "TTLS" /\ q = t
    BY <1>1, <1>2, ProcessedIs
<1> HIDE DEF d, q, t, two
<1>7. Proper(d)
    BY <1>3 DEF Proper
<1>8. /\ Proper(t) /\ t.fed = d.fed /\ t.done = d.done /\ t.reply = <<>>
      /\ Ended(t) \/ Sending(t)
    <2>1. CASE d.ssl = "none"
        <3>1. t = [d EXCEPT !.methodState = "DONE", !.reinit = TRUE]
            BY <1>5, <2>1 DEF ossl_funcs_process_other
        <3>2. /\ t.ssl = d.ssl /\ t.outq = d.outq /\ t.done = d.done
              /\ t.selected = d.selected /\ t.reply = d.reply
              /\ t.methodState = "DONE" /\ t.fed = d.fed /\ Typed(t)
            BY <1>3, <3>1 DEF Typed, TypedBut, IsPeer, Fields
        <3>3. Ended(t)
            <4>1. t.ssl = "none" /\ t.outq = NULL /\ OpenLate(t)
                BY <1>3, <2>1, <3>2 DEF Steady, Backed, OpenLate
            <4>2. Answered(t, Ack)
                BY <1>a, <4>1, AckAnswers
            <4> QED
                BY <3>2, <4>1, <4>2 DEF Ended
        <3> QED
            BY <1>3, <2>1, <3>2, <3>3 DEF Proper, Steady, Backed
    <2>2. CASE d.ssl # "none"
        <3>1. t = [d EXCEPT !.sendAck = FALSE, !.methodState = "CONT"]
            BY <1>1, <1>5, <2>2 DEF ossl_funcs_process_other
        <3>2. /\ Same(d, t) /\ t.done = d.done /\ t.resumable = d.resumable
              /\ t.selected = d.selected /\ t.reply = d.reply
              /\ t.fed = d.fed /\ Typed(t)
            BY <1>3, <3>1 DEF Typed, TypedBut, IsPeer, Fields, Same
        <3>3. Sending(t)
            <4>1. \A n : Midway(d, n) => Midway(t, n)
                BY <3>2, SameAnswered
            <4>2. OpenLate(d) => OpenLate(t)
                BY <3>2, SameAnswered
            <4>3. \A got, total : HalfSent(d, got, total)
                                     => HalfSent(t, got, total)
                BY <3>2 DEF Same, HalfSent
            <4> QED
                BY <1>3, <1>4, <2>2, <3>2, <4>1, <4>2, <4>3 DEF Sending
        <3>4. Steady(t)
            BY <1>3, <3>2 DEF Steady, Backed, Same
        <3> QED
            BY <1>3, <3>2, <3>3, <3>4 DEF Proper
    <2> QED
        BY <2>1, <2>2
<1>9. CASE cfg.method = "TLS" /\ q = [t EXCEPT !.ignore = FALSE]
    <2>1. Typed(q) /\ Alike(t, q) /\ q.reply = t.reply
        BY <1>8, <1>9, AdjustedIs, EmptyWhole DEF Proper
    <2>2. Proper(q) /\ q.fed = d.fed
        BY <1>8, <2>1, AlikeProper
    <2>4. Over(q) \/ Sending(q)
        BY <1>8, <2>1, AlikeStands DEF Over
    <2> QED
        BY <2>2, <2>4 DEF d, q
<1>10. CASE \E s \in {d, t} : q = eap_type_common_fail(s)
    <2>1. PICK s \in {d, t} : q = eap_type_common_fail(s)
        BY <1>10
    <2>2. Proper(s) /\ s.fed = d.fed
        BY <1>7, <1>8
    <2>3. Typed(q) /\ Alike(s, q) /\ q.reply = s.reply /\ q.ignore = TRUE
        BY <2>1, <2>2, AdjustedIs, EmptyWhole DEF Proper
    <2>4. Proper(q) /\ q.fed = d.fed
        BY <2>2, <2>3, AlikeProper
    <2> QED
        BY <2>3, <2>4 DEF Over, d, q
<1>11. CASE q = t
    BY <1>8, <1>11 DEF Over, d, q
<1>12. CASE cfg.method # "TLS" /\ d.done /\ q = two
    <2> DEFINE queue == InQueue(d, req)
               buf == queue.buf \o req.data
    <2>1. queue = NewQueue /\ buf = <<>> /\ ~Spoilt(queue)
        <3>1. queue = NewQueue
            BY <1>1 DEF InQueue
        <3>2. queue.buf = <<>> /\ queue.memory = FALSE
            BY <3>1 DEF NewQueue
        <3>3. <<>> \o <<>> = <<>>
            BY ConcatEmptySeq, EmptySeq
        <3> QED
            BY <1>1, <3>1, <3>2, <3>3 DEF Spoilt
    <2>2. /\ Typed(two) /\ Steady(two)
          /\ two.ssl = d.ssl /\ two.outq = d.outq /\ two.soFar = d.soFar
          /\ two.selected = d.selected /\ two.done = d.done
          /\ \/ /\ two.reply = d.reply /\ two.fed = d.fed
                /\ two.bio = d.bio
                /\ ~Spoilt(queue) => two.inq.buf = buf
             \/ buf # <<>>
        <3> DEFINE length == IF req.len > 0 THEN req.len ELSE d.expected
                   data == d.bio \o buf
                   size == data[1].last
                   u == PhaseTwo(d, req, x.reply)
        <3>1. /\ Typed(u) /\ Steady(u) /\ buf \in Data
              /\ u.ssl = d.ssl /\ u.outq = d.outq /\ u.soFar = d.soFar
              /\ u.expected = length
              /\ u.selected = d.selected /\ u.done = d.done
              /\ \/ /\ u.reply = d.reply /\ u.fed = d.fed /\ u.bio = d.bio
                    /\ Spoilt(queue) \/ buf = <<>> \/ Len(buf) < length
                    /\ ~Spoilt(queue) => /\ u.inq = Gathered(queue, req)
                                         /\ u.inq.buf = buf
                 \/ /\ buf # <<>> /\ Len(buf) >= length
                    /\ data[1].at = 1 /\ size <= Len(data)
                    /\ u.fed = SubSeq(data, 1, size)
                    /\ u.bio = SubSeq(data, size + 1, Len(data))
                    /\ u.inq = NULL /\ u.reply = x.reply
                    /\ u.ignore = d.ignore
                 \/ /\ buf # <<>> /\ Len(buf) >= length
                    /\ ~(data[1].at = 1 /\ size <= Len(data))
                    /\ u.ignore = TRUE /\ u.reply = d.reply
                    /\ u.fed = data
            BY <1>1, <1>3, PhaseTwoIs, Zenon
        <3> HIDE DEF queue, buf, length, data, size, u
        <3>2. two = u
            BY DEF two, u
        <3> QED
            BY <3>1, <3>2
    <2>3. /\ two.reply = <<>> /\ two.fed = d.fed /\ two.bio = d.bio
          /\ EmptyIn(two)
        BY <1>3, <2>1, <2>2 DEF EmptyIn
    <2>4. Sending(d) /\ d.ssl = "open"
        BY <1>3, <1>4, <1>12 DEF Steady
    <2>5. Midway(two, 0)
        BY <2>2, <2>3, <2>4 DEF Sending, Midway
    <2>6. OpenLate(two) /\ HalfSent(two, srv.got, srv.total)
        BY <2>2, <2>4 DEF Sending, OpenLate, HalfSent
    <2>7. Sending(two)
        BY <2>3, <2>4, <2>5, <2>6 DEF Sending
    <2>8. Proper(two)
        BY <1>3, <2>2, <2>3 DEF Proper
    <2> QED
        BY <1>12, <2>3, <2>7, <2>8 DEF d, q
<1> QED
    BY <1>6, <1>8, <1>9, <1>10, <1>11, <1>12

\* Where a fragment is in its message.
LEMMA FragmentPlace ==
    ASSUME TypeInv, NEW p, NEW r, IsSome(r), AtFragment(p, r)
    PROVE  LET before == srv.off - Len(r.data)
           IN  /\ before \in Nat /\ srv.off \in Nat /\ Len(srv.flight) \in Nat
               /\ Len(r.data) \in Nat /\ Len(r.data) = srv.off - before
               /\ before < srv.off /\ srv.off <= Len(srv.flight)
               /\ SubSeq(srv.flight, 1, before) \o r.data
                     = SubSeq(srv.flight, 1, srv.off)
               /\ SubSeq(srv.flight, 1, Len(srv.flight)) = srv.flight
               /\ srv.flight # <<>>
<1> DEFINE before == srv.off - Len(r.data)
<1>1. /\ srv.off \in Nat /\ Len(srv.flight) \in Nat
      /\ srv.off <= Len(srv.flight) /\ srv.flight \in Seq(Units)
    BY DEF TypeInv, IsServer, Data
<1>2. before \in Nat /\ r.data = SubSeq(srv.flight, before + 1, srv.off)
      /\ r.data # <<>>
    BY DEF AtFragment
<1>3. Len(r.data) \in Nat /\ Len(r.data) > 0
    BY <1>2, EmptySeq, LenProperties DEF IsSome, Data
<1>4. before < srv.off /\ Len(r.data) = srv.off - before
    BY <1>1, <1>3
<1> HIDE DEF before
<1>5. SubSeq(srv.flight, 1, before) \o SubSeq(srv.flight, before + 1, srv.off)
        = SubSeq(srv.flight, 1, srv.off)
    <2>1. /\ 1 \in 1 .. Len(srv.flight) + 1
          /\ before \in 1 - 1 .. Len(srv.flight)
          /\ srv.off \in before .. Len(srv.flight)
        BY <1>1, <1>2, <1>4
    <2> QED
        BY <1>1, <2>1, ConcatAdjacentSubSeq
<1>6. SubSeq(srv.flight, 1, Len(srv.flight)) = srv.flight
    BY <1>1, SubSeqFull
<1>7. srv.flight # <<>>
    BY <1>1, <1>2, <1>4, EmptySeq
<1> QED
    BY <1>1, <1>2, <1>3, <1>4, <1>5, <1>6, <1>7 DEF before

\* A fragment while there is no phase 2: what is said then is the reply, too.
LEMMA FragmentOther ==
    ASSUME TypeInv, NEW d, Typed(d), Steady(d), d.reply = <<>>,
           d.selected = TRUE, IsSome(req), AtFragment(d, req),
           NEW o, o.kind \in Kinds, o.out \in Data, Whole(o.out, srv.conv),
           o.kind = "opens" => srv.stage \in {"flight2", "resumed"},
           srv.stage = "flight2" => o.out = <<>>
    PROVE  LET t == ossl_funcs_process_other(d, req, o)
           IN  /\ Proper(t) /\ t.reply = <<>>
               /\ t.fed \in {d.fed, srv.flight}
               /\ Ended(t) \/ Reading(t) \/ Quiet(t) \/ Spoken(t)
               /\ ~d.done /\ t.done =>
                     \/ t.methodState = "DONE"
                     \/ Reading(t)
                     \/ /\ srv.off = Len(srv.flight) /\ Nothing /\ OpenLate(t)
                        /\ EmptyIn(t) /\ t.soFar = 0
                        /\ \/ t.outq = NULL
                           \/ /\ t.outq = [buf |-> t.outq.buf, off |-> 0]
                              /\ Whole(t.outq.buf, srv.conv)
<1> DEFINE t == ossl_funcs_process_other(d, req, o)
           length == IF req.len > 0 THEN req.len
                     ELSE IF ~req.more /\ d.expected = 0 THEN Len(req.data)
                     ELSE d.expected
           count == d.soFar + Len(req.data)
           before == srv.off - Len(req.data)
           n == srv.off
           last == Len(srv.flight)
<1>1. /\ before \in Nat /\ n \in Nat /\ last \in Nat
      /\ Len(req.data) \in Nat /\ Len(req.data) = n - before
      /\ before < n /\ n <= last
      /\ SubSeq(srv.flight, 1, before) \o req.data = SubSeq(srv.flight, 1, n)
      /\ SubSeq(srv.flight, 1, last) = srv.flight
    BY FragmentPlace
<1>2. /\ Nothing
      /\ req.more <=> n < last
      /\ req.len \in {0, last}
      /\ before > 0 => req.len = 0
      /\ before = 0 /\ req.more => req.len = last
      /\ d.outq = NULL /\ Midway(d, before) /\ OpenInner(d)
    BY DEF AtFragment
<1>3. d.soFar \in Nat /\ d.expected \in Nat
    BY DEF Typed, TypedBut
<1> HIDE DEF before, n, last
<1>4. \/ /\ t.fed = d.fed /\ t.methodState = "DONE"
         /\ t.ssl = d.ssl /\ t.outq \in {NULL, d.outq}
         /\ \/ d.ssl = "none"
            \/ ~req.more /\ t.sendAck = FALSE
            \/ /\ req.more /\ d.ssl = "open"
               /\ t.inq = NULL /\ t.bio = d.bio \o req.data
               /\ t.soFar = count /\ t.expected = length
      \/ /\ IsAck(req) /\ t.methodState = "CONT"
         /\ Same(d, t) /\ t.fed = d.fed
         /\ t.sendAck = FALSE /\ t.done = d.done
      \/ /\ req.more /\ t.methodState = "MAY_CONT"
         /\ t.ssl = d.ssl /\ t.outq = d.outq /\ t.inq = d.inq
         /\ t.bio = d.bio \o req.data /\ t.soFar = count
         /\ t.expected = length /\ t.fed = d.fed
      \/ /\ ~req.more /\ count = length /\ d.ssl = "open"
         /\ t.methodState = "MAY_CONT" /\ t.ssl = "open"
         /\ t.outq = d.outq /\ t.inq = d.inq /\ t.soFar = 0
         /\ t.fed = d.fed /\ t.done = TRUE
      \/ /\ ~req.more /\ d.ssl = "shaking"
         /\ t.fed = d.bio \o req.data
         /\ \/ /\ t.methodState = "DONE" /\ t.outq = NULL
               /\ ~t.done /\ t.sendAck = FALSE
            \/ /\ t.methodState = "MAY_CONT"
               /\ t.bio = <<>> /\ t.soFar = 0 /\ t.inq = d.inq
               /\ t.outq = Speaks(d.outq, o.out)
               /\ \/ t.ssl = "shaking" /\ t.done = FALSE
                  \/ /\ o.kind = "opens"
                     /\ t.ssl = "open" /\ t.done = TRUE
    BY OtherIs
<1>5. Typed(t) /\ Steady(t) /\ Aside(d, t)
    BY OtherIs
<1> HIDE DEF t
<1>6. Proper(t) /\ t.reply = <<>>
    BY <1>5 DEF Proper, Aside
<1>7. d.ssl = "open" => srv.stage = "inner" /\ OpenLate(d)
    BY <1>2 DEF OpenInner, OpenLate, HasOpened
<1>8. d.ssl = "shaking" => d.bio \o req.data = SubSeq(srv.flight, 1, n)
                           /\ EmptyIn(d)
    BY <1>1, <1>2 DEF Midway
\* With more to come it has as much of the server's message as it was sent.
<1>b. ASSUME req.more, t.ssl = d.ssl, t.inq \in {NULL, d.inq},
             t.bio = d.bio \o req.data, t.soFar = count,
             t.expected = length
      PROVE  Midway(t, n) /\ n < last /\ n \in 1 .. last
    <2>0. n < last /\ n \in 1 .. last
        BY <1>1, <1>2, <1>b
    <2>1. CASE d.ssl = "none"
        BY <1>b, <2>0, <2>1 DEF Midway
    <2>2. CASE d.ssl = "shaking"
        BY <1>8, <1>b, <2>0, <2>2 DEF Midway, EmptyIn
    <2>3. CASE d.ssl = "open"
        <3>1. \/ /\ before = 0 /\ d.soFar = 0 /\ EmptyIn(d)
              \/ /\ before > 0 /\ d.expected = last
                 /\ d.soFar <= before
                 /\ d.soFar = before => EmptyIn(d)
            BY <1>1, <1>2, <2>3 DEF Midway, last
        <3>2. length = last
            BY <1>1, <1>2, <1>b, <2>0, <3>1
        <3>3. count <= n /\ (count = n => EmptyIn(d))
            BY <1>1, <1>3, <3>1
        <3>4. EmptyIn(d) => EmptyIn(t)
            BY <1>b DEF EmptyIn
        <3> QED
            BY <1>b, <2>0, <2>3, <3>2, <3>3, <3>4 DEF Midway, last
    <2> QED
        BY <2>0, <2>1, <2>2, <2>3 DEF Typed
<1>9. CASE /\ t.fed = d.fed /\ t.methodState = "DONE"
           /\ t.ssl = d.ssl /\ t.outq \in {NULL, d.outq}
           /\ \/ d.ssl = "none"
              \/ ~req.more /\ t.sendAck = FALSE
              \/ /\ req.more /\ d.ssl = "open"
                 /\ t.inq = NULL /\ t.bio = d.bio \o req.data
                 /\ t.soFar = count /\ t.expected = length
    <2>1. t.outq = NULL /\ OpenLate(t) /\ OpenInner(t)
        BY <1>2, <1>7, <1>9 DEF OpenLate, OpenInner
    <2>2. Accepted(Ack) => /\ n = last /\ srv.stage = "flight2"
                           /\ Whole(Got(Ack), srv.conv)
        BY <1>2, AckAccepted DEF n, last
    <2>3. CASE d.ssl = "none"
        <3>1. \A m : Midway(t, m)
            BY <1>9, <2>3 DEF Midway
        <3>2. Answered(t, Ack)
            BY <1>2, <2>1, <2>2, <3>1, AckAnswers
        <3> QED
            BY <1>6, <1>9, <2>1, <3>2 DEF Ended, t
    <2>4. CASE d.ssl # "none" /\ ~req.more /\ t.sendAck = FALSE
        <3>1. ~(n < last)
            BY <1>2, <2>4
        <3>2. t.done => ~Accepted(Ack)
            <4>1. t.done => d.ssl = "open"
                BY <1>5, <1>9 DEF Steady
            <4> QED
                BY <1>7, <2>2, <4>1
        <3>3. t.done => Answered(t, Ack)
            BY <2>1, <3>1, <3>2, AckAnswers DEF n, last
        <3> QED
            BY <1>6, <1>9, <2>1, <2>4, <3>3 DEF Ended, t
    <2>5. CASE /\ req.more /\ d.ssl = "open"
               /\ t.inq = NULL /\ t.bio = d.bio \o req.data
               /\ t.soFar = count /\ t.expected = length
        <3>1. Midway(t, n) /\ n < last
            BY <1>9, <1>b, <2>5
        <3>2. ~Accepted(Ack)
            BY <1>1, <2>2, <3>1
        <3>3. Answered(t, Ack)
            BY <1>2, <2>1, <3>1, <3>2, AckAnswers DEF n, last
        <3> QED
            BY <1>6, <1>9, <2>1, <3>3 DEF Ended, t
    <2> QED
        BY <1>9, <2>3, <2>4, <2>5
<1>10. CASE /\ IsAck(req) /\ t.methodState = "CONT"
            /\ Same(d, t) /\ t.fed = d.fed
            /\ t.sendAck = FALSE /\ t.done = d.done
    <2>1. n = last
        BY <1>1, <1>2, <1>10 DEF IsAck
    <2>2. t.ssl = d.ssl /\ t.outq = NULL /\ OpenLate(t)
        BY <1>2, <1>7, <1>10 DEF Same, OpenLate
    <2>3. srv.stage = "flight2" => ~t.done
        BY <1>5, <1>7, <2>2 DEF Steady
    <2>4. Quiet(t)
        BY <1>2, <1>6, <1>10, <2>1, <2>2, <2>3 DEF Quiet, n, last
    <2> QED
        BY <1>6, <1>10, <2>4 DEF t
<1>11. CASE /\ req.more /\ t.methodState = "MAY_CONT"
            /\ t.ssl = d.ssl /\ t.outq = d.outq /\ t.inq = d.inq
            /\ t.bio = d.bio \o req.data /\ t.soFar = count
            /\ t.expected = length /\ t.fed = d.fed
    <2>1. n < last /\ n \in 1 .. last
        BY <1>1, <1>2, <1>11
    <2>2. Midway(t, n)
        BY <1>11, <1>b
    <2>3. OpenInner(t) /\ t.outq = NULL
        BY <1>2, <1>11 DEF OpenInner
    <2>4. Reading(t)
        BY <1>2, <1>6, <2>1, <2>2, <2>3 DEF Reading, n, last
    <2> QED
        BY <1>6, <1>11, <2>4 DEF t
<1>12. CASE /\ ~req.more /\ count = length /\ d.ssl = "open"
            /\ t.methodState = "MAY_CONT" /\ t.ssl = "open"
            /\ t.outq = d.outq /\ t.inq = d.inq /\ t.soFar = 0
            /\ t.fed = d.fed /\ t.done = TRUE
    <2>1. n = last /\ n > 0
        BY <1>1, <1>2, <1>12
    <2>2. \/ before = 0 /\ EmptyIn(d)
          \/ /\ before > 0 /\ d.expected = last
             /\ d.soFar = before => EmptyIn(d)
        BY <1>1, <1>2, <1>12 DEF Midway, last
    <2>3. EmptyIn(d)
        <3>1. CASE before = 0
            BY <1>1, <2>2, <3>1
        <3>2. CASE before > 0
            <4>1. length = last
                BY <1>2, <2>1, <2>2, <3>2
            <4>2. d.soFar = before
                BY <1>1, <1>3, <1>12, <2>1, <4>1
            <4> QED
                BY <2>2, <4>2, <3>2
        <3> QED
            BY <1>1, <3>1, <3>2
    <2>4. OpenLate(t) /\ EmptyIn(t) /\ t.outq = NULL
        BY <1>2, <1>7, <1>12, <2>3 DEF OpenLate, EmptyIn
    <2>5. srv.stage # "flight2"
        BY <1>7, <1>12
    <2>6. Quiet(t)
        BY <1>2, <1>6, <2>1, <2>4, <2>5 DEF Quiet, n, last
    <2> QED
        BY <1>2, <1>6, <1>12, <2>1, <2>4, <2>6 DEF t, n, last
<1>13. CASE /\ ~req.more /\ d.ssl = "shaking"
            /\ t.fed = d.bio \o req.data
            /\ \/ /\ t.methodState = "DONE" /\ t.outq = NULL
                  /\ ~t.done /\ t.sendAck = FALSE
               \/ /\ t.methodState = "MAY_CONT"
                  /\ t.bio = <<>> /\ t.soFar = 0 /\ t.inq = d.inq
                  /\ t.outq = Speaks(d.outq, o.out)
                  /\ \/ t.ssl = "shaking" /\ t.done = FALSE
                     \/ /\ o.kind = "opens"
                        /\ t.ssl = "open" /\ t.done = TRUE
    <2>1. n = last /\ t.fed = srv.flight
        <3>1. n = last
            BY <1>1, <1>2, <1>13
        <3>2. t.fed = SubSeq(srv.flight, 1, n)
            BY <1>8, <1>13
        <3> QED
            BY <1>1, <3>1, <3>2
    <2>2. CASE t.methodState = "DONE"
        <3>1. Ended(t)
            BY <1>13, <2>2 DEF Ended
        <3> QED
            BY <1>6, <2>1, <2>2, <3>1 DEF t
    <2>3. CASE t.methodState # "DONE"
        <3>1. /\ t.bio = <<>> /\ t.soFar = 0 /\ EmptyIn(t)
              /\ t.outq = Speaks(d.outq, o.out)
              /\ t.ssl \in {"shaking", "open"}
              /\ t.ssl = "open" => srv.stage \in {"flight2", "resumed"}
            BY <1>8, <1>13, <2>3 DEF EmptyIn
        <3>2. OpenLate(t)
            BY <3>1 DEF OpenLate, HasOpened
        <3>3. /\ o.out = <<>> => t.outq = NULL
              /\ o.out # <<>> => t.outq = [buf |-> o.out, off |-> 0]
            BY <1>2, <3>1 DEF Speaks, Behind
        <3>4. \/ t.outq = NULL
              \/ /\ t.outq = [buf |-> t.outq.buf, off |-> 0]
                 /\ Whole(t.outq.buf, srv.conv)
            BY <3>3
        <3>5. Spoken(t)
            BY <1>2, <1>6, <2>1, <3>1, <3>2, <3>3, <3>4, EmptyWhole
               DEF Spoken, n, last
        <3> QED
            BY <1>2, <1>6, <2>1, <3>1, <3>2, <3>4, <3>5 DEF t, n, last
    <2> QED
        BY <2>2, <2>3
<1> QED
    BY <1>4, <1>9, <1>10, <1>11, <1>12, <1>13

\* A fragment of an inner message.
LEMMA FragmentInner ==
    ASSUME TypeInv, NEW d, Typed(d), Steady(d), d.reply = <<>>,
           d.selected = TRUE, d.done, cfg.method # "TLS",
           IsSome(req), AtFragment(d, req),
           IsMessage(srv.flight),
           NEW reply \in Data, reply # <<>>, Whole(reply, srv.conv)
    PROVE  LET q == PhaseTwo(d, req, reply)
           IN  /\ Proper(q) /\ q.fed \in {d.fed, srv.flight}
               /\ Reading(q) \/ Quiet(q) \/ Spoken(q)
<1> DEFINE q == PhaseTwo(d, req, reply)
           queue == InQueue(d, req)
           buf == queue.buf \o req.data
           length == IF req.len > 0 THEN req.len ELSE d.expected
           data == d.bio \o buf
           size == data[1].last
           before == srv.off - Len(req.data)
           n == srv.off
           last == Len(srv.flight)
<1>1. /\ before \in Nat /\ n \in Nat /\ last \in Nat
      /\ Len(req.data) \in Nat /\ Len(req.data) = n - before
      /\ before < n /\ n <= last
      /\ SubSeq(srv.flight, 1, before) \o req.data = SubSeq(srv.flight, 1, n)
      /\ SubSeq(srv.flight, 1, last) = srv.flight
      /\ srv.flight # <<>>
    BY FragmentPlace
<1>2. /\ Nothing /\ req.data # <<>>
      /\ req.data = SubSeq(srv.flight, before + 1, n)
      /\ req.more <=> n < last
      /\ req.len \in {0, last}
      /\ before > 0 => req.len = 0
      /\ before = 0 /\ req.more => req.len = last
      /\ d.outq = NULL /\ Midway(d, before) /\ OpenInner(d)
    BY DEF AtFragment
<1>3. d.soFar \in Nat /\ d.expected \in Nat /\ d.bio \in Data
      /\ req.data \in Data
    BY DEF Typed, TypedBut, IsSome
<1> HIDE DEF before, n, last
<1>4. d.ssl = "open" /\ srv.stage = "inner"
    BY <1>2 DEF Steady, OpenInner
<1>5. \/ before = 0 /\ d.bio = <<>> /\ d.soFar = 0 /\ EmptyIn(d)
      \/ before > 0 /\ d.expected = last /\ d.soFar <= before
    BY <1>1, <1>2, <1>4 DEF Midway, last
<1>6. queue.buf = <<>>
    <2>1. CASE before = 0
        BY <1>5, <2>1 DEF InQueue, NewQueue, EmptyIn
    <2>2. CASE before > 0
        BY <1>2, <2>2 DEF InQueue, NewQueue
    <2> QED
        BY <1>1, <2>1, <2>2
<1>7. buf = req.data
    BY <1>3, <1>6, ConcatEmptySeq DEF Data
<1>8. /\ Typed(q) /\ Steady(q) /\ buf \in Data
      /\ q.ssl = d.ssl /\ q.outq = d.outq /\ q.soFar = d.soFar
      /\ q.expected = length
      /\ q.selected = d.selected /\ q.done = d.done
      /\ \/ /\ q.reply = d.reply /\ q.fed = d.fed /\ q.bio = d.bio
            /\ Spoilt(queue) \/ buf = <<>> \/ Len(buf) < length
            /\ ~Spoilt(queue) => /\ q.inq = Gathered(queue, req)
                                 /\ q.inq.buf = buf
         \/ /\ buf # <<>> /\ Len(buf) >= length
            /\ data[1].at = 1 /\ size <= Len(data)
            /\ q.fed = SubSeq(data, 1, size)
            /\ q.bio = SubSeq(data, size + 1, Len(data))
            /\ q.inq = NULL /\ q.reply = reply
            /\ q.ignore = d.ignore
         \/ /\ buf # <<>> /\ Len(buf) >= length
            /\ ~(data[1].at = 1 /\ size <= Len(data))
            /\ q.ignore = TRUE /\ q.reply = d.reply
            /\ q.fed = data
    BY PhaseTwoIs, Zenon
<1>m. req.more \in BOOLEAN /\ (req.more <=> n < last)
    BY <1>2 DEF IsSome
<1> HIDE DEF q, queue, buf, data, size, length
<1>9. OpenLate(q) /\ OpenInner(q) /\ q.outq = NULL
    BY <1>2, <1>4, <1>8 DEF OpenLate, OpenInner, HasOpened
<1>10. ASSUME q.reply = d.reply, q.fed = d.fed
       PROVE  Proper(q) /\ q.reply = <<>>
    BY <1>8, <1>10 DEF Proper
<1>11. CASE req.more
    <2>1. n < last /\ n \in 1 .. last /\ length = last
        BY <1>1, <1>2, <1>3, <1>5, <1>11 DEF length
    <2>2. Len(buf) < length
        BY <1>1, <1>7, <2>1
    <2>3. q.reply = d.reply /\ q.fed = d.fed
        BY <1>1, <1>7, <1>8, <2>1, <2>2
    <2>4. Midway(q, n)
        <3>1. q.soFar <= n /\ q.soFar # n
            BY <1>1, <1>3, <1>5, <1>8, SMTT(30)
        <3> QED
            BY <1>4, <1>8, <2>1, <3>1 DEF Midway, last
    <2>5. Reading(q)
        BY <1>2, <1>9, <1>10, <2>1, <2>3, <2>4 DEF Reading, n, last
    <2> QED
        BY <1>10, <2>3, <2>5 DEF q
<1>12. CASE ~req.more
    <2>1. n = last
        <3>1. ~(n < last)
            BY <1>m, <1>12
        <3> QED
            BY <1>1, <3>1
    <2>2. CASE q.reply = d.reply /\ q.fed = d.fed
        <3>1. Quiet(q)
            BY <1>2, <1>4, <1>9, <1>10, <2>1, <2>2 DEF Quiet, n, last
        <3> QED
            BY <1>10, <2>2, <3>1 DEF q
    <2>3. CASE ~(q.reply = d.reply /\ q.fed = d.fed)
        <3>1. buf # <<>> /\ Len(buf) >= length
            BY <1>8, <2>3
        <3>2. before = 0
            BY <1>1, <1>2, <1>3, <1>5, <1>7, <2>1, <3>1 DEF length
        <3>3. buf = srv.flight
            <4>1. before + 1 = 1
                BY <3>2
            <4> QED
                BY <1>1, <1>2, <1>7, <2>1, <4>1
        <3>4. data = srv.flight
            <4>1. <<>> \o srv.flight = srv.flight
                BY ConcatEmptySeq DEF TypeInv, IsServer, Data
            <4>2. d.bio = <<>>
                BY <1>1, <1>5, <3>2
            <4> QED
                BY <3>3, <4>1, <4>2 DEF data
        <3>5. data[1].at = 1 /\ size = last /\ Len(data) = last
            BY <1>1, <3>4 DEF size, last, IsMessage
        <3>6. /\ q.fed = SubSeq(data, 1, size)
              /\ q.bio = SubSeq(data, size + 1, Len(data))
              /\ q.inq = NULL /\ q.reply = reply
            BY <1>1, <1>8, <2>3, <3>5
        <3>7. q.fed = srv.flight
            BY <1>1, <3>4, <3>5, <3>6
        <3>8. q.soFar = 0 /\ EmptyIn(q)
            BY <1>1, <1>5, <1>8, <3>2, <3>6 DEF EmptyIn
        <3>9. Spoken(q)
            BY <1>2, <1>4, <1>8, <1>9, <2>1, <3>6, <3>8
               DEF Spoken, n, last
        <3>10. Proper(q)
            BY <1>8, <3>6 DEF Proper
        <3> QED
            BY <3>7, <3>9, <3>10 DEF q
    <2> QED
        BY <2>2, <2>3
<1> QED
    BY <1>11, <1>12

\* Where the peer stands when a fragment has been processed.
Settled(q) == Over(q) \/ Reading(q) \/ Quiet(q) \/ Spoken(q)

LEMMA FragmentProcessed ==
    ASSUME TypeInv, IsSome(req), NEW p, AtFragment(p, req),
           IsMessage(srv.flight),
           NEW x, IsInput(x), Whole(x.ssl.out, srv.conv),
           Whole(x.reply, srv.conv),
           x.ssl.kind = "opens" => srv.stage \in {"flight2", "resumed"},
           srv.stage = "flight2" => x.ssl.out = <<>>,
           Typed(Entered(p)), Steady(Entered(p)),
           Entered(p).ssl = "none" \/ Same(p, Entered(p)),
           Entered(p).reply = <<>>, Entered(p).selected = TRUE
    PROVE  LET q == Processed(Checked(p), req, x)
           IN  /\ Proper(q) /\ q.fed \in {Entered(p).fed, srv.flight}
               /\ Settled(q)
<1> DEFINE d == Entered(p)
           q == Processed(Checked(p), req, x)
           t == tls_funcs_process(d, req, cfg.resume, x.hello, x.ssl)
           two == PhaseTwo(d, req, x.reply)
           s == [t EXCEPT !.reply = x.reply]
<1>1. ~req.start
    BY DEF AtFragment
<1>2. cfg.method \in Methods
    BY MethodIsKnown DEF TypeInv
<1>3. /\ Typed(d) /\ Steady(d) /\ d.reply = <<>> /\ d.selected = TRUE
      /\ x.reply \in Data /\ x.reply # <<>>
      /\ x.ssl.kind \in Kinds /\ x.ssl.out \in Data
    BY DEF IsInput
<1>4. AtFragment(d, req)
    <2>1. CASE d.ssl = "none"
        <3>1. d.outq = NULL /\ OpenInner(d) /\ \A n : Midway(d, n)
            BY <1>3, <2>1 DEF Steady, Backed, OpenInner, Midway
        <3> QED
            BY <3>1 DEF AtFragment
    <2>2. CASE Same(p, d)
        BY <2>2, SameAnswered
    <2> QED
        BY <2>1, <2>2
<1>5. t = ossl_funcs_process_other(d, req, x.ssl)
    BY <1>1 DEF tls_funcs_process
<1>6. \/ cfg.method = "TLS" /\ q = [t EXCEPT !.ignore = FALSE]
      \/ cfg.method = "PEAP" /\ q = eap_type_common_fail(d)
      \/ cfg.method = "PEAP" /\ q = eap_type_common_fail(t)
      \/ cfg.method = "PEAP" /\ q = t
      \/ cfg.method # "TLS" /\ d.done /\ q = two
      \/ cfg.method = "TTLS" /\ ~d.done
         /\ t.done /\ t.methodState # "DONE" /\ q = s
      \/ cfg.method = "TTLS" /\ q = t
    BY <1>1, <1>2, ProcessedIs
<1> HIDE DEF d, q, t, two
<1>7. Proper(d)
    BY <1>3 DEF Proper
<1>8. /\ Proper(t) /\ t.reply = <<>>
      /\ t.fed \in {d.fed, srv.flight}
      /\ Ended(t) \/ Reading(t) \/ Quiet(t) \/ Spoken(t)
      /\ ~d.done /\ t.done =>
            \/ t.methodState = "DONE"
            \/ Reading(t)
            \/ /\ srv.off = Len(srv.flight) /\ Nothing /\ OpenLate(t)
               /\ EmptyIn(t) /\ t.soFar = 0
               /\ \/ t.outq = NULL
                  \/ /\ t.outq = [buf |-> t.outq.buf, off |-> 0]
                     /\ Whole(t.outq.buf, srv.conv)
    <2> DEFINE h == ossl_funcs_process_other(d, req, x.ssl)
    <2>1. /\ Proper(h) /\ h.reply = <<>>
          /\ h.fed \in {d.fed, srv.flight}
          /\ Ended(h) \/ Reading(h) \/ Quiet(h) \/ Spoken(h)
          /\ ~d.done /\ h.done =>
                \/ h.methodState = "DONE"
                \/ Reading(h)
                \/ /\ srv.off = Len(srv.flight) /\ Nothing /\ OpenLate(h)
                   /\ EmptyIn(h) /\ h.soFar = 0
                   /\ \/ h.outq = NULL
                      \/ /\ h.outq = [buf |-> h.outq.buf, off |-> 0]
                         /\ Whole(h.outq.buf, srv.conv)
        BY <1>3, <1>4, FragmentOther
    <2> HIDE DEF h
    <2> QED
        BY <1>5, <2>1 DEF h
<1>9. CASE cfg.method = "TLS" /\ q = [t EXCEPT !.ignore = FALSE]
    <2>1. Typed(q) /\ Alike(t, q) /\ q.reply = t.reply
        BY <1>8, <1>9, AdjustedIs, EmptyWhole DEF Proper
    <2>2. Proper(q) /\ q.fed = t.fed
        BY <1>8, <2>1, AlikeProper
    <2>4. Settled(q)
        BY <1>8, <2>1, AlikeStands DEF Over, Settled
    <2> QED
        BY <1>8, <2>2, <2>4 DEF d, q
<1>10. CASE \E u \in {d, t} : q = eap_type_common_fail(u)
    <2>1. PICK u \in {d, t} : q = eap_type_common_fail(u)
        BY <1>10
    <2>2. Proper(u) /\ u.fed \in {d.fed, srv.flight}
        BY <1>7, <1>8
    <2>3. Typed(q) /\ Alike(u, q) /\ q.reply = u.reply /\ q.ignore = TRUE
        BY <2>1, <2>2, AdjustedIs, EmptyWhole DEF Proper
    <2>4. Proper(q) /\ q.fed = u.fed
        BY <2>2, <2>3, AlikeProper
    <2> QED
        BY <2>2, <2>3, <2>4 DEF Over, Settled, d, q
<1>11. CASE q = t
    BY <1>8, <1>11 DEF Over, Settled, d, q
<1>12. CASE cfg.method # "TLS" /\ d.done /\ q = two
    <2>1. /\ Proper(two) /\ two.fed \in {d.fed, srv.flight}
          /\ Reading(two) \/ Quiet(two) \/ Spoken(two)
        BY <1>3, <1>4, <1>12, FragmentInner DEF two
    <2> QED
        BY <1>12, <2>1 DEF Settled, d, q
<1>13. CASE cfg.method = "TTLS" /\ ~d.done
            /\ t.done /\ t.methodState # "DONE" /\ q = s
    <2>1. Typed(t) /\ Steady(t) /\ t.selected = TRUE /\ t.ssl = "open"
        BY <1>8, <1>13 DEF Proper, Steady
    <2> HIDE DEF s
    <2>2. Typed(s) /\ Alike(t, s) /\ s.reply = x.reply
        BY <1>3, <2>1, AdjustedIs DEF s
    <2>3. /\ Same(t, s) /\ s.fed = t.fed /\ s.done = t.done
          /\ s.selected = t.selected
        BY <2>2 DEF Alike
    <2>4. Proper(s)
        BY <1>13, <2>1, <2>2, <2>3, AlikeSteady DEF Proper
    <2>5. CASE Reading(t)
        <3>1. Midway(s, srv.off) /\ OpenInner(s) /\ s.outq = NULL
              /\ s.ssl = "open"
            BY <2>1, <2>3, <2>5, SameAnswered DEF Reading, Same
        <3>2. Reading(s)
            BY <2>5, <3>1 DEF Reading
        <3> QED
            BY <1>8, <1>13, <2>3, <2>4, <3>2 DEF Settled, d, q
    <2>6. CASE ~Reading(t)
        <3>1. /\ srv.off = Len(srv.flight) /\ Nothing /\ OpenLate(t)
              /\ EmptyIn(t) /\ t.soFar = 0
              /\ \/ t.outq = NULL
                 \/ /\ t.outq = [buf |-> t.outq.buf, off |-> 0]
                    /\ Whole(t.outq.buf, srv.conv)
            BY <1>8, <1>13, <2>6
        <3>2. /\ OpenLate(s) /\ EmptyIn(s) /\ s.soFar = 0
              /\ s.ssl = "open" /\ s.outq = t.outq
            BY <2>1, <2>3, <3>1, SameAnswered DEF Same, EmptyIn
        <3>3. Spoken(s)
            BY <1>3, <1>13, <2>2, <3>1, <3>2 DEF Spoken
        <3> QED
            BY <1>8, <1>13, <2>3, <2>4, <3>3 DEF Settled, d, q
    <2> QED
        BY <2>5, <2>6
<1> QED
    BY <1>6, <1>8, <1>9, <1>10, <1>11, <1>12, <1>13

(***************************************************************************)
(* What it sends.                                                          *)
(***************************************************************************)
\* A reply of phase 2 is encrypted.
Sealed(q) ==
    IF q.reply = <<>> THEN q
    ELSE [tls_funcs_encrypt(q, q.reply) EXCEPT !.reply = <<>>]

LEMMA SealedIs ==
    ASSUME NEW q, Proper(q)
    PROVE  LET s == Sealed(q)
           IN  /\ Typed(s) /\ Steady(s) /\ s.reply = <<>>
               /\ s.ssl = q.ssl /\ s.soFar = q.soFar /\ s.inq = q.inq
               /\ s.fed = q.fed /\ s.done = q.done
               /\ s.selected = q.selected /\ s.sendAck = q.sendAck
               /\ s.expected = q.expected
               /\ s.bio = IF q.reply = <<>> THEN q.bio ELSE <<>>
               /\ s.outq = Speaks(q.outq, q.reply)
<1>1. CASE q.reply = <<>>
    BY <1>1 DEF Sealed, Speaks, Proper
<1>2. CASE q.reply # <<>>
    <2> DEFINE u == [q EXCEPT !.bio = <<>>, !.made = @ + 1]
               v == Queued(u, q.reply)
               s == Sealed(q)
    <2>1. /\ IsPeer(u) /\ u.bio = <<>> /\ u.ssl = q.ssl
          /\ u.soFar = q.soFar /\ u.inq = q.inq /\ u.outq = q.outq
          /\ u.fed = q.fed /\ u.done = q.done /\ u.selected = q.selected
          /\ u.sendAck = q.sendAck /\ u.expected = q.expected
          /\ u.resumable = q.resumable
        BY DEF Proper, Typed, TypedBut, IsPeer, Fields
    <2>2. s = [v EXCEPT !.reply = <<>>]
        BY <1>2 DEF Sealed, tls_funcs_encrypt
    <2>3. Typed(v)
        <3>1. v = tls_funcs_encrypt(q, q.reply)
            BY DEF tls_funcs_encrypt
        <3>2. Typed(q) /\ q.reply \in Data
            BY DEF Proper, Typed, TypedBut
        <3> QED
            BY <1>2, <3>1, <3>2, EncryptTyped
    <2> HIDE DEF u
    <2>4. /\ v.outq = Behind(u.outq, q.reply)
          /\ \A f \in Fields \ {"outq"} : v[f] = u[f]
        BY <2>1, QueuedIs
    <2> HIDE DEF v
    <2>5. /\ v.bio = u.bio /\ v.ssl = u.ssl /\ v.soFar = u.soFar
          /\ v.inq = u.inq /\ v.fed = u.fed /\ v.done = u.done
          /\ v.selected = u.selected /\ v.sendAck = u.sendAck
          /\ v.expected = u.expected /\ v.resumable = u.resumable
        BY <2>4 DEF Fields
    <2> HIDE DEF s
    <2>6. /\ s.bio = v.bio /\ s.ssl = v.ssl /\ s.soFar = v.soFar
          /\ s.inq = v.inq /\ s.fed = v.fed /\ s.done = v.done
          /\ s.selected = v.selected /\ s.sendAck = v.sendAck
          /\ s.expected = v.expected /\ s.resumable = v.resumable
          /\ s.outq = v.outq /\ s.reply = <<>>
        BY <2>2, <2>3 DEF Typed, TypedBut, IsPeer, Fields
    <2>7. Typed(s)
        BY <2>2, <2>3, EmptyWhole DEF Typed, TypedBut, IsPeer, Fields
    <2>8. s.outq = Speaks(q.outq, q.reply)
        BY <1>2, <2>1, <2>4, <2>6 DEF Speaks
    <2>9. Steady(s)
        <3>1. q.ssl = "open" /\ q.resumable = TRUE
            BY <1>2 DEF Proper, Steady, Backed
        <3> QED
            BY <2>1, <2>5, <2>6, <3>1 DEF Steady, Backed
    <2> QED
        BY <1>2, <2>1, <2>5, <2>6, <2>7, <2>8, <2>9 DEF s
<1> QED
    BY <1>1, <1>2

\* What is queued is sent in fragments, and the queue is gone with the last.
LEMMA GetPacketIs ==
    ASSUME NEW s, Typed(s), Steady(s), s.outq # NULL
    PROVE  LET g == tls_funcs_get_packet(s)
               f == Fragment(s.outq.buf, s.outq.off, Chunk)
           IN  /\ g.packet = f
               /\ Typed(g.peer) /\ Steady(g.peer)
               /\ g.peer.ssl = s.ssl /\ g.peer.bio = s.bio
               /\ g.peer.soFar = s.soFar /\ g.peer.expected = s.expected
               /\ g.peer.inq = s.inq /\ g.peer.fed = s.fed
               /\ g.peer.selected = s.selected /\ g.peer.reply = s.reply
               /\ g.peer.outq = IF f.more
                                THEN [buf |-> s.outq.buf,
                                      off |-> s.outq.off + Len(f.data)]
                                ELSE NULL
<1> DEFINE g == tls_funcs_get_packet(s)
           f == Fragment(s.outq.buf, s.outq.off, Chunk)
           n == IF f.more THEN [buf |-> s.outq.buf,
                                off |-> s.outq.off + Len(f.data)]
                ELSE NULL
           p == g.peer
<1>1. g = [packet |-> f, peer |-> [s EXCEPT !.outq = n]]
    BY DEF tls_funcs_get_packet
<1>2. Typed(p)
    BY GetPacketTyped
<1> HIDE DEF f, n
<1>3. g.packet = f /\ p = [s EXCEPT !.outq = n]
    BY <1>1
<1> HIDE DEF g, p
<1>4. /\ p.ssl = s.ssl /\ p.bio = s.bio
      /\ p.soFar = s.soFar /\ p.expected = s.expected
      /\ p.inq = s.inq /\ p.fed = s.fed
      /\ p.selected = s.selected /\ p.reply = s.reply
      /\ p.done = s.done /\ p.resumable = s.resumable
      /\ p.outq = n
    BY <1>3 DEF Typed, TypedBut, IsPeer, Fields
<1>5. Steady(p)
    BY <1>4 DEF Steady, Backed
<1> QED
    BY <1>2, <1>3, <1>4, <1>5 DEF p, g, f, n

\* With nothing queued there is an ACK, or nothing to send.
Replied(q, b) ==
    \/ /\ b.packet = NULL
       /\ Typed(b.peer) /\ Steady(b.peer) /\ b.peer.reply = <<>>
       /\ b.peer.fed = q.fed /\ b.peer.selected = q.selected
    \/ /\ b.packet = Ack /\ b.peer = q /\ q.reply = <<>> /\ q.done
    \/ /\ b.packet = Ack /\ b.peer = Sealed(q)
       /\ Sealed(q).outq = NULL /\ q.sendAck
    \/ /\ Sealed(q).outq # NULL
       /\ b.packet = tls_funcs_get_packet(Sealed(q)).packet
       /\ b.peer = tls_funcs_get_packet(Sealed(q)).peer

LEMMA BuildRespIs ==
    ASSUME NEW q, Proper(q), cfg.method \in Methods
    PROVE  Replied(q, BuildResp(q))
<1> DEFINE b == BuildResp(q)
           s == Sealed(q)
           g == tls_funcs_get_packet(s)
           a == [peer |-> q, packet |-> Ack]
<1>1. /\ Typed(q) /\ Steady(q) /\ Typed(s) /\ Steady(s)
      /\ s.reply = <<>> /\ s.fed = q.fed /\ s.selected = q.selected
      /\ s.sendAck = q.sendAck
    BY SealedIs DEF Proper
<1>2. q.reply = <<>> => s = q
    BY DEF Sealed
<1>3. ~q.done => q.reply = <<>>
    BY DEF Proper
<1>4. /\ IsResult(g) /\ Typed(g.peer) /\ Steady(g.peer)
      /\ g.peer.reply = <<>> /\ g.peer.fed = q.fed
      /\ g.peer.selected = q.selected
      /\ \/ s.outq # NULL
         \/ g.packet = NULL
         \/ s.outq = NULL /\ q.sendAck /\ g.packet = Ack /\ g.peer = s
    <2>1. IsResult(g)
        BY <1>1, GetPacketTyped
    <2>2. CASE s.outq = NULL
        <3>1. \/ q.sendAck /\ g = [peer |-> s, packet |-> Ack]
              \/ ~q.sendAck /\ g = [peer |-> s, packet |-> NULL]
            BY <1>1, <2>2 DEF tls_funcs_get_packet
        <3> HIDE DEF g, s
        <3> QED
            BY <1>1, <2>1, <2>2, <3>1
    <2>3. CASE s.outq # NULL
        <3>1. /\ Typed(g.peer) /\ Steady(g.peer)
              /\ g.peer.fed = s.fed /\ g.peer.selected = s.selected
              /\ g.peer.reply = s.reply
            BY <1>1, <2>3, GetPacketIs
        <3> HIDE DEF g, s
        <3> QED
            BY <1>1, <2>1, <2>3, <3>1
    <2> QED
        BY <2>2, <2>3
<1>5. CASE b = g
    <2> HIDE DEF b
    <2> QED
        BY <1>4, <1>5 DEF Replied, b
<1>6. CASE q.done /\ q.reply = <<>> /\ b = a
    <2>1. b.peer = q /\ b.packet = Ack
        BY <1>6
    <2> HIDE DEF b
    <2> QED
        BY <1>6, <2>1 DEF Replied, b
<1>7. CASE cfg.method = "TLS"
    <2>1. q.reply = <<>> /\ s = q
        BY <1>2, <1>7 DEF Proper
    <2>2. b = IF q.done THEN a
              ELSE IF g.packet = NULL
                   THEN [g EXCEPT !.peer = eap_type_common_fail(@)] ELSE g
        BY <1>7, <2>1 DEF BuildResp, eaptls_buildResp
    <2>3. CASE ~q.done /\ g.packet = NULL
        <3> DEFINE f == eap_type_common_fail(g.peer)
        <3>1. /\ Typed(f) /\ Alike(g.peer, f) /\ f.reply = g.peer.reply
            BY <1>4, AdjustedIs, EmptyWhole
        <3>2. /\ Steady(f) /\ f.fed = q.fed /\ f.selected = q.selected
              /\ f.reply = <<>>
            BY <1>4, <3>1, AlikeSteady DEF Alike
        <3> HIDE DEF f
        <3>3. b = [g EXCEPT !.peer = f]
            BY <2>2, <2>3 DEF f
        <3>4. b.packet = NULL /\ b.peer = f
            BY <1>4, <2>3, <3>3 DEF IsResult
        <3> HIDE DEF b
        <3> QED
            BY <3>1, <3>2, <3>4 DEF Replied, b
    <2> QED
        BY <1>5, <1>6, <2>1, <2>2, <2>3
<1>8. CASE cfg.method # "TLS"
    <2>1. b = IF q.done /\ q.reply = <<>>
                 /\ (cfg.method = "TTLS" \/ q.outq = NULL)
              THEN a ELSE tls_funcs_get_packet(IF q.done THEN s ELSE q)
        BY <1>8 DEF BuildResp, TunnelBuildResp, Sealed
    <2>2. (IF q.done THEN s ELSE q) = s
        BY <1>2, <1>3
    <2> QED
        BY <1>5, <1>6, <2>1, <2>2
<1> QED
    BY <1>7, <1>8

\* The next fragment, or the last one, of what the server has begun to get.
LEMMA SendIs ==
    ASSUME TypeInv, NEW s, Typed(s), Steady(s), s.outq # NULL,
           srv.off = Len(srv.flight), Midway(s, 0), OpenLate(s),
           Whole(s.outq.buf, srv.conv),
           srv.got = SubSeq(s.outq.buf, 1, s.outq.off),
           srv.total = IF s.outq.off = 0 THEN 0 ELSE Len(s.outq.buf)
    PROVE  LET g == tls_funcs_get_packet(s) IN Answered(g.peer, g.packet)
<1> DEFINE g == tls_funcs_get_packet(s)
           p == g.peer
           buf == s.outq.buf
           off == s.outq.off
           f == Fragment(buf, off, Chunk)
           n == Len(f.data)
           end == Len(buf)
<1>1. /\ buf \in Data /\ off \in Nat /\ off < end /\ end \in Nat
      /\ Chunk \in Nat \ {0}
    BY ChunkAssumption, DataGrows DEF Typed, TypedBut, IsOut
<1>2. /\ f.more \in BOOLEAN /\ f.data \in Data
      /\ f.data = SubSeq(buf, off + 1, off + n)
      /\ off + n <= end /\ n \in Nat /\ n > 0
      /\ f.more <=> off + n < end
      /\ f.len = IF off = 0 /\ f.more THEN end ELSE 0
    <2>1. /\ IsFrame(f) /\ f.start = FALSE
          /\ f.more \in BOOLEAN /\ f.data \in Data
          /\ f.data = SubSeq(buf, off + 1, off + n)
          /\ off + n <= end /\ n \in Nat
          /\ off < end => n > 0
          /\ f.more <=> off + n < end
          /\ f.len = IF off = 0 /\ f.more THEN end ELSE 0
        <3>1. off <= Len(buf)
            BY <1>1
        <3> QED
            BY <1>1, <3>1, FragmentIs
    <2> QED
        BY <1>1, <2>1
<1>3. /\ g.packet = f
      /\ p.ssl = s.ssl /\ p.bio = s.bio /\ p.soFar = s.soFar
      /\ p.expected = s.expected /\ p.inq = s.inq
      /\ p.outq = IF f.more THEN [buf |-> buf, off |-> off + n] ELSE NULL
    BY GetPacketIs
<1> HIDE DEF g, p, f
<1>4. Midway(p, 0) /\ OpenLate(p)
    BY <1>3 DEF Midway, EmptyIn, OpenLate
<1>5. Got(f) = SubSeq(buf, 1, off + n)
    <2>1. SubSeq(buf, 1, off) \o SubSeq(buf, off + 1, off + n)
            = SubSeq(buf, 1, off + n)
        <3>1. /\ buf \in Seq(Units)
              /\ 1 \in 1 .. Len(buf) + 1
              /\ off \in 1 - 1 .. Len(buf)
              /\ off + n \in off .. Len(buf)
            BY <1>1, <1>2, SMTT(30) DEF Data
        <3> HIDE DEF n, buf, off
        <3> QED
            BY <3>1, ConcatAdjacentSubSeq
    <2> QED
        BY <1>2, <2>1 DEF Got
<1> HIDE DEF n, buf, off, end
<1>6. CASE f.more
    <2>1. p.outq = [buf |-> buf, off |-> off + n]
        BY <1>3, <1>6
    <2>2. p.outq.buf = buf /\ p.outq.off = off + n
        BY <2>1
    <2>3. Total(f) = end
        <3>1. srv.total = IF off = 0 THEN 0 ELSE end
            BY DEF off, end, buf
        <3>2. f.len = IF off = 0 THEN end ELSE 0
            BY <1>2, <1>6
        <3> QED
            BY <1>1, <3>1, <3>2 DEF Total
    <2>4. off + n \in 1 .. Len(buf) /\ off + n < Len(buf)
        BY <1>1, <1>2, <1>6 DEF end
    <2>5. Whole(buf, srv.conv)
        BY DEF buf
    <2>6. HalfSent(p, Got(f), Total(f))
        BY <1>1, <1>5, <2>2, <2>3, <2>4, <2>5 DEF HalfSent, end
    <2> QED
        BY <1>3, <1>4, <1>6, <2>6 DEF Answered, Accepted, p, g
<1>7. CASE ~f.more
    <2>1. p.outq = NULL
        BY <1>3, <1>7
    <2>2. off + n = end
        <3>1. ~(off + n < end)
            BY <1>2, <1>7
        <3>2. off + n \in Nat
            BY <1>1, <1>2
        <3> QED
            BY <1>1, <1>2, <3>1, <3>2
    <2>3. Got(f) = buf
        BY <1>1, <1>5, <2>2, SubSeqFull DEF Data, end
    <2>4. Whole(Got(f), srv.conv)
        BY <2>3 DEF buf
    <2> QED
        BY <1>3, <1>4, <1>7, <2>1, <2>4 DEF Answered, Accepted, p, g
<1> QED
    BY <1>2, <1>6, <1>7

LEMMA SealedStands ==
    ASSUME NEW q, Proper(q)
    PROVE  LET s == Sealed(q)
           IN  /\ OpenLate(q) => OpenLate(s)
               /\ OpenInner(q) => OpenInner(s)
               /\ EmptyIn(q) => EmptyIn(s)
               /\ \A n \in Nat \ {0} :
                      Midway(q, n) /\ (q.reply # <<>> => q.ssl = "open")
                         => Midway(s, n)
<1> DEFINE s == Sealed(q)
<1>1. /\ s.ssl = q.ssl /\ s.soFar = q.soFar /\ s.inq = q.inq
      /\ s.expected = q.expected
      /\ q.reply = <<>> => s.bio = q.bio
    BY SealedIs
<1> HIDE DEF s
<1>2. \A n \in Nat \ {0} :
          Midway(q, n) /\ (q.reply # <<>> => q.ssl = "open") => Midway(s, n)
    BY <1>1 DEF Midway, EmptyIn
<1> QED
    BY <1>1, <1>2 DEF OpenLate, OpenInner, EmptyIn, s

LEMMA RepliedTyped ==
    ASSUME NEW q, Proper(q), NEW b, Replied(q, b)
    PROVE  /\ Typed(b.peer) /\ Steady(b.peer) /\ b.peer.reply = <<>>
           /\ b.peer.fed = q.fed /\ b.peer.selected = q.selected
<1> DEFINE s == Sealed(q)
           g == tls_funcs_get_packet(s)
<1>1. /\ Typed(s) /\ Steady(s) /\ s.reply = <<>> /\ s.fed = q.fed
      /\ s.selected = q.selected
    BY SealedIs
<1>2. s.outq # NULL => /\ Typed(g.peer) /\ Steady(g.peer)
                       /\ g.peer.fed = s.fed /\ g.peer.reply = s.reply
                       /\ g.peer.selected = s.selected
    BY <1>1, GetPacketIs
<1>3. Typed(q) /\ Steady(q)
    BY DEF Proper
<1> QED
    BY <1>1, <1>2, <1>3 DEF Replied

LEMMA SpokenAnswers ==
    ASSUME TypeInv, NEW q, Proper(q), Spoken(q), NEW b, Replied(q, b)
    PROVE  b.packet = NULL \/ Answered(b.peer, b.packet)
<1> DEFINE s == Sealed(q)
           g == tls_funcs_get_packet(s)
<1>1. /\ Typed(s) /\ Steady(s)
      /\ s.ssl = q.ssl /\ s.soFar = q.soFar /\ s.inq = q.inq
      /\ s.bio = IF q.reply = <<>> THEN q.bio ELSE <<>>
      /\ s.outq = Speaks(q.outq, q.reply)
    BY SealedIs
<1>2. q.reply = <<>> => s = q
    BY DEF Sealed
<1> HIDE DEF s
<1>3. /\ srv.off = Len(srv.flight) /\ Nothing /\ OpenLate(q)
      /\ q.ssl \in {"shaking", "open"} /\ EmptyIn(q)
      /\ q.ssl = "open" => q.soFar = 0
      /\ q.reply = <<>> => q.bio = <<>>
      /\ srv.stage = "flight2" /\ cfg.method # "TTLS"
            => q.outq = NULL /\ q.reply = <<>>
    BY DEF Spoken
<1>4. ~(srv.off < Len(srv.flight))
    BY <1>3 DEF TypeInv, IsServer
<1>5. SubSeq(srv.flight, 1, 0) = <<>>
    BY SubSeqEmpty
<1>6. Midway(s, 0) /\ OpenLate(s)
    BY <1>1, <1>3, <1>5 DEF Midway, EmptyIn, OpenLate
<1>7. Accepted(Ack) => /\ Whole(Got(Ack), srv.conv) /\ q.outq = NULL
                       /\ s = q
    BY <1>2, <1>3, AckAccepted
<1>8. CASE b.packet = Ack /\ b.peer = q /\ q.reply = <<>>
    BY <1>2, <1>3, <1>4, <1>6, <1>7, <1>8, AckAnswers
<1>9. CASE b.packet = Ack /\ b.peer = s
    BY <1>3, <1>4, <1>6, <1>7, <1>9, AckAnswers
<1>10. CASE s.outq # NULL /\ b.packet = g.packet /\ b.peer = g.peer
    <2>1. Whole(s.outq.buf, srv.conv) /\ s.outq.off = 0
        <3>1. /\ Whole(q.reply, srv.conv) /\ q.reply \in Data
              /\ \/ q.outq = NULL
                 \/ /\ q.outq = [buf |-> q.outq.buf, off |-> 0]
                    /\ Whole(q.outq.buf, srv.conv)
            BY DEF Spoken, Proper, Typed, TypedBut
        <3>2. CASE q.outq = NULL
            <4>1. s.outq = [buf |-> q.reply, off |-> 0]
                BY <1>1, <1>10, <3>2 DEF Speaks, Behind
            <4> QED
                BY <3>1, <4>1
        <3>3. CASE q.outq # NULL /\ q.reply = <<>>
            <4>1. s.outq = q.outq /\ q.outq.off = 0
                BY <1>1, <3>1, <3>3 DEF Speaks
            <4> QED
                BY <3>1, <3>3, <4>1
        <3>4. CASE q.outq # NULL /\ q.reply # <<>>
            <4> DEFINE both == q.outq.buf \o q.reply
            <4>1. s.outq = [buf |-> both, off |-> q.outq.off]
                BY <1>1, <3>4 DEF Speaks, Behind
            <4>2. q.outq.off = 0 /\ Whole(q.outq.buf, srv.conv)
                BY <3>1, <3>4
            <4>3. q.outq.buf \in Data
                BY <3>4 DEF Proper, Typed, TypedBut, IsOut
            <4>4. Whole(both, srv.conv)
                BY <3>1, <4>2, <4>3, WholeAppended
            <4> HIDE DEF both
            <4>5. s.outq.buf = both /\ s.outq.off = q.outq.off
                BY <4>1
            <4> QED
                BY <4>2, <4>4, <4>5
        <3> QED
            BY <3>2, <3>3, <3>4
    <2>2. srv.got = SubSeq(s.outq.buf, 1, s.outq.off) /\ srv.total = 0
        <3>1. SubSeq(s.outq.buf, 1, 0) = <<>>
            BY SubSeqEmpty
        <3> QED
            BY <1>3, <2>1, <3>1 DEF Nothing
    <2>3. Answered(g.peer, g.packet)
        BY <1>1, <1>3, <1>6, <1>10, <2>1, <2>2, SendIs
    <2> QED
        BY <1>10, <2>3
<1> QED
    BY <1>8, <1>9, <1>10 DEF Replied, s

LEMMA QuietAnswers ==
    ASSUME TypeInv, NEW q, Proper(q), Quiet(q), NEW b, Replied(q, b)
    PROVE  b.packet = NULL \/ Answered(b.peer, b.packet)
<1>1. /\ srv.off = Len(srv.flight) /\ Nothing /\ OpenLate(q)
      /\ q.outq = NULL /\ q.reply = <<>>
      /\ srv.stage = "flight2" => ~q.done /\ ~q.sendAck
    BY DEF Quiet
<1>2. Sealed(q) = q
    BY <1>1 DEF Sealed
<1>3. ~(srv.off < Len(srv.flight))
    BY <1>1 DEF TypeInv, IsServer
<1>4. CASE b.packet = Ack /\ b.peer = q /\ (q.done \/ q.sendAck)
    <2>1. ~Accepted(Ack)
        BY <1>1, <1>4, AckAccepted
    <2> QED
        BY <1>1, <1>3, <1>4, <2>1, AckAnswers
<1> QED
    BY <1>1, <1>2, <1>4 DEF Replied

LEMMA ReadingAnswers ==
    ASSUME TypeInv, NEW q, Proper(q), Reading(q), NEW b, Replied(q, b)
    PROVE  b.packet = NULL \/ Answered(b.peer, b.packet)
<1> DEFINE s == Sealed(q)
           g == tls_funcs_get_packet(s)
<1>1. /\ srv.off \in Nat /\ srv.off \in Nat \ {0}
      /\ srv.off < Len(srv.flight)
      /\ Nothing /\ q.outq = NULL /\ Midway(q, srv.off) /\ OpenInner(q)
      /\ q.reply # <<>> => q.ssl = "open"
    BY DEF Reading, TypeInv, IsServer
<1>2. OpenInner(s) /\ Midway(s, srv.off)
    BY <1>1, SealedStands
<1>3. Typed(s) /\ Steady(s)
    BY SealedIs
<1> HIDE DEF s
<1>4. \A p : OpenInner(p) => OpenLate(p)
    BY DEF OpenInner, OpenLate, HasOpened
<1>5. ~Accepted(Ack)
    BY <1>1 DEF Accepted, TypeInv, IsServer
<1>6. CASE b.packet = Ack /\ b.peer = q
    BY <1>1, <1>4, <1>5, <1>6, AckAnswers
<1>7. CASE b.packet = Ack /\ b.peer = s /\ s.outq = NULL
    BY <1>1, <1>2, <1>4, <1>5, <1>7, AckAnswers
<1>8. CASE s.outq # NULL /\ b.packet = g.packet /\ b.peer = g.peer
    <2> DEFINE f == Fragment(s.outq.buf, s.outq.off, Chunk)
    <2>1. g.packet = f /\ g.peer.ssl = s.ssl
        BY <1>3, <1>8, GetPacketIs
    <2>2. f # Ack
        <3>1. /\ s.outq.buf \in Data /\ s.outq.off \in Nat
              /\ s.outq.off < Len(s.outq.buf) /\ Len(s.outq.buf) \in Nat
              /\ Chunk \in Nat \ {0}
            BY <1>3, <1>8, ChunkAssumption, DataGrows
               DEF Typed, TypedBut, IsOut
        <3>2. s.outq.off <= Len(s.outq.buf)
            BY <3>1
        <3>3. s.outq.off < Len(s.outq.buf) => Len(f.data) > 0
            BY <3>1, <3>2, FragmentIs
        <3>4. Len(<<>>) = 0
            OBVIOUS
        <3> HIDE DEF f
        <3> QED
            BY <3>1, <3>3, <3>4, AckIs
    <2> HIDE DEF f
    <2>3. OpenLate(g.peer)
        BY <1>2, <1>4, <2>1 DEF OpenLate
    <2>4. ~(srv.off = Len(srv.flight))
        BY <1>1
    <2> QED
        BY <1>1, <1>8, <2>1, <2>2, <2>3, <2>4 DEF Answered, Accepted
<1> QED
    BY <1>6, <1>7, <1>8 DEF Replied, s

LEMMA SendingAnswers ==
    ASSUME TypeInv, NEW q, Proper(q), Sending(q), NEW b, Replied(q, b)
    PROVE  b.packet = NULL \/ Answered(b.peer, b.packet)
<1> DEFINE buf == q.outq.buf
           off == q.outq.off
           g == tls_funcs_get_packet(q)
<1>1. /\ srv.off = Len(srv.flight) /\ q.reply = <<>>
      /\ Midway(q, 0) /\ OpenLate(q)
      /\ buf \in Data /\ Whole(buf, srv.conv)
      /\ off \in 1 .. Len(buf) /\ off < Len(buf)
      /\ srv.got = SubSeq(buf, 1, off)
      /\ srv.total = Len(buf)
    BY DEF Sending, HalfSent
<1>2. Sealed(q) = q
    BY <1>1 DEF Sealed
<1>3. ~(srv.off < Len(srv.flight))
    BY <1>1 DEF TypeInv, IsServer
<1>4. Typed(q) /\ Steady(q)
    BY DEF Proper
<1>5. ~Accepted(Ack)
    <2>1. Len(srv.got) = off /\ Len(buf) \in Nat
        <3>1. \A i \in 1 .. off : buf[i] \in Units
            BY <1>1, ElementOfSeq DEF Data
        <3>2. Len(buf) \in Nat
            BY <1>1 DEF Data
        <3> HIDE DEF buf, off
        <3> QED
            BY <1>1, <3>1, <3>2, SubSeqProperties
    <2> HIDE DEF buf, off
    <2> QED
        BY <1>1, <2>1, AckAccepted
<1> HIDE DEF buf, off
<1>6. CASE b.packet = Ack /\ b.peer = q
    BY <1>1, <1>3, <1>5, <1>6, AckAnswers
<1>7. CASE q.outq # NULL /\ b.packet = g.packet /\ b.peer = g.peer
    <2>1. srv.total = IF off = 0 THEN 0 ELSE Len(buf)
        BY <1>1
    <2>2. Answered(g.peer, g.packet)
        BY <1>1, <1>4, <1>7, <2>1, SendIs DEF buf, off
    <2> QED
        BY <1>7, <2>2
<1> QED
    BY <1>2, <1>6, <1>7 DEF Replied

LEMMA EndedAnswers ==
    ASSUME NEW q, Proper(q), Ended(q), cfg.method = "TLS",
           NEW b, Replied(q, b)
    PROVE  b.packet = NULL \/ Answered(b.peer, b.packet)
<1>1. /\ q.reply = <<>> /\ q.outq = NULL
      /\ q.done \/ q.sendAck => Answered(q, Ack)
    BY DEF Proper, Ended
<1>2. Sealed(q) = q
    BY <1>1 DEF Sealed
<1> QED
    BY <1>1, <1>2 DEF Replied

LEMMA BuildRespState ==
    ASSUME NEW q, Proper(q), cfg.method \in Methods
    PROVE  BuildResp(q).peer.methodState = q.methodState
<1> DEFINE s == Sealed(q)
           g == tls_funcs_get_packet(s)
           a == [peer |-> q, packet |-> Ack]
           u == [q EXCEPT !.bio = <<>>, !.made = @ + 1]
           v == Queued(u, q.reply)
<1>1. IsPeer(q) /\ (~q.done => q.reply = <<>>)
      /\ (cfg.method = "TLS" => q.reply = <<>>)
    BY DEF Proper, Typed, TypedBut
<1>2. IsPeer(u) /\ u.methodState = q.methodState
    BY <1>1 DEF IsPeer, Fields
<1>3. s = IF q.reply = <<>> THEN q ELSE [v EXCEPT !.reply = <<>>]
    BY DEF Sealed, tls_funcs_encrypt
<1> HIDE DEF u
<1>4. IsPeer(v) /\ v.methodState = q.methodState
    <2>1. /\ IsPeer(v) /\ \A f \in Fields \ {"outq"} : v[f] = u[f]
        BY <1>2, QueuedIs
    <2> HIDE DEF v
    <2> QED
        BY <1>2, <2>1 DEF Fields
<1> HIDE DEF v, s
<1>5. IsPeer(s) /\ s.methodState = q.methodState
    BY <1>1, <1>3, <1>4 DEF IsPeer, Fields
<1>6. IsResult(g) /\ g.peer.methodState = q.methodState
    <2>1. PICK n : g.peer = [s EXCEPT !.outq = n] \/ g.peer = s
        BY DEF tls_funcs_get_packet
    <2>2. IsResult(g)
        <3>1. Typed(s)
            BY SealedIs DEF s
        <3> QED
            BY <3>1, GetPacketTyped
    <2> HIDE DEF g
    <2> QED
        BY <1>5, <2>1, <2>2 DEF IsPeer, Fields
<1> DEFINE f == [g EXCEPT !.peer = eap_type_common_fail(@)]
<1>7. f.peer.methodState = q.methodState
    <2> HIDE DEF g
    <2>1. f.peer = [g.peer EXCEPT !.ignore = TRUE]
        BY <1>6 DEF IsResult, eap_type_common_fail
    <2>2. IsPeer(g.peer)
        <3>1. Typed(s)
            BY SealedIs DEF s
        <3> QED
            BY <3>1, GetPacketTyped DEF g, Typed, TypedBut
    <2> HIDE DEF f
    <2> QED
        BY <1>6, <2>1, <2>2 DEF IsPeer, Fields
<1>8. BuildResp(q) \in {a, g, f}
    <2>1. q.reply = <<>> => s = q
        BY <1>3
    <2>2. CASE cfg.method = "TLS"
        <3>1. s = q
            BY <1>1, <2>1, <2>2
        <3> QED
            BY <2>2, <3>1 DEF BuildResp, eaptls_buildResp
    <2>3. CASE cfg.method # "TLS"
        <3>1. BuildResp(q) \in
                {a, tls_funcs_get_packet(IF q.done THEN s ELSE q)}
            BY <2>3 DEF BuildResp, TunnelBuildResp, Sealed, s
        <3>2. (IF q.done THEN s ELSE q) = s
            BY <1>1, <2>1
        <3> QED
            BY <3>1, <3>2
    <2> QED
        BY <2>2, <2>3
<1>9. a.peer.methodState = q.methodState
    OBVIOUS
<1> HIDE DEF a, g, f
<1> QED
    BY <1>6, <1>7, <1>8, <1>9

\* A reply is never left with a request that is ignored.
LEMMA ReplyIsHeeded ==
    ASSUME NEW p, NEW x, IsInput(x), IsSome(req), cfg.method \in Methods,
           Typed(Entered(p)), Steady(Entered(p)), Entered(p).reply = <<>>,
           req.start => Entered(p).done = FALSE
    PROVE  LET q == Processed(Checked(p), req, x)
           IN  q.reply = <<>> \/ q.ignore = Entered(p).ignore
<1> DEFINE d == Entered(p)
           q == Processed(Checked(p), req, x)
           t == tls_funcs_process(d, req, cfg.resume, x.hello, x.ssl)
           two == PhaseTwo(d, req, x.reply)
           u == [t EXCEPT !.ignore = FALSE]
           s == [t EXCEPT !.reply = x.reply]
           f == eap_type_common_fail(t)
           g == eap_type_common_fail(d)
<1>1. /\ Typed(d) /\ Steady(d) /\ d.reply = <<>>
      /\ req.start => d.done = FALSE
      /\ x.hello \in Data /\ x.hello # <<>> /\ x.reply \in Data
      /\ x.ssl.kind \in Kinds /\ x.ssl.out \in Data
    BY DEF IsInput
<1>2. q \in {u, g, f, t, two, s}
    BY ProcessedIs
<1> HIDE DEF d, q
<1>3. Typed(t) /\ Aside(d, t)
    <2>1. CASE req.start
        <3>1. t = ossl_funcs_do_start(d, cfg.resume, x.hello)
            BY <2>1 DEF tls_funcs_process
        <3> HIDE DEF t
        <3> QED
            BY <1>1, <2>1, <3>1, StartIs
    <2>2. CASE ~req.start
        <3>1. t = ossl_funcs_process_other(d, req, x.ssl)
            BY <2>2 DEF tls_funcs_process
        <3> HIDE DEF t
        <3> QED
            BY <1>1, <3>1, OtherIs
    <2> QED
        BY <2>1, <2>2
<1>4. two.reply = <<>> \/ two.ignore = d.ignore
    <2> DEFINE queue == InQueue(d, req)
               buf == queue.buf \o req.data
               length == IF req.len > 0 THEN req.len ELSE d.expected
               data == d.bio \o buf
               size == data[1].last
    <2>1. /\ Typed(two) /\ Steady(two) /\ buf \in Data
          /\ two.ssl = d.ssl /\ two.outq = d.outq /\ two.soFar = d.soFar
          /\ two.expected = length
          /\ two.selected = d.selected /\ two.done = d.done
          /\ \/ /\ two.reply = d.reply /\ two.fed = d.fed /\ two.bio = d.bio
                /\ Spoilt(queue) \/ buf = <<>> \/ Len(buf) < length
                /\ ~Spoilt(queue) => /\ two.inq = Gathered(queue, req)
                                     /\ two.inq.buf = buf
             \/ /\ buf # <<>> /\ Len(buf) >= length
                /\ data[1].at = 1 /\ size <= Len(data)
                /\ two.fed = SubSeq(data, 1, size)
                /\ two.bio = SubSeq(data, size + 1, Len(data))
                /\ two.inq = NULL /\ two.reply = x.reply
                /\ two.ignore = d.ignore
             \/ /\ buf # <<>> /\ Len(buf) >= length
                /\ ~(data[1].at = 1 /\ size <= Len(data))
                /\ two.ignore = TRUE /\ two.reply = d.reply
                /\ two.fed = data
        <3>1. Typed(d) /\ Steady(d) /\ x.reply \in Data
            BY <1>1
        <3> QED
            BY <3>1, PhaseTwoIs, Zenon
    <2> QED
        BY <1>1, <2>1
<1> HIDE DEF t, two
<1>5. /\ u.reply = t.reply /\ f.reply = t.reply /\ s.ignore = t.ignore
    BY <1>1, <1>3, AdjustedIs
<1>6. g.reply = d.reply
    BY <1>1, AdjustedIs, EmptyWhole
<1> HIDE DEF u, f, g, s
<1> QED
    BY <1>1, <1>2, <1>3, <1>4, <1>5, <1>6 DEF Aside, d, q

\* The method handles the request.
LEMMA MethodFlows ==
    ASSUME TypeInv, Resumes, IsSome(req), IsMessage(srv.flight),
           NEW p, Typed(p), Backed(p), Kept(p), p.selected = TRUE,
           p.reply = <<>>,
           AtStart(req) \/ AtAck(p, req) \/ AtFragment(p, req),
           req.start => p.methodState = "INIT",
           NEW x \in Inputs
    PROVE  LET m == eap_sm_change_to_method(p, req, x)
           IN  /\ Backed(m.peer) /\ Kept(m.peer) /\ m.peer.reply = <<>>
               /\ m.peer.fed \in {p.fed, srv.flight}
               /\ m.packet = NULL \/ Answered(m.peer, m.packet)
<1> DEFINE c == Checked(p)
           d == Entered(p)
           q == Processed(c, req, x)
           b == BuildResp(q)
           m == eap_sm_change_to_method(p, req, x)
           Fit(u) == /\ Backed(u) /\ Kept(u) /\ u.reply = <<>>
                     /\ u.fed \in {p.fed, srv.flight}
<1>1. cfg.method \in Methods
    BY MethodIsKnown DEF TypeInv
<1>2. /\ IsInput(x)
      /\ Whole(x.hello, srv.conv) /\ Whole(x.ssl.out, srv.conv)
      /\ Whole(x.reply, srv.conv)
      /\ x.ssl.kind = "opens" => srv.stage \in {"flight2", "resumed"}
      /\ srv.stage = "flight2" => x.ssl.out = <<>>
    BY InputsAre
<1>3. /\ Typed(d) /\ Steady(d)
      /\ d.ssl = "none" \/ Same(p, d)
      /\ d.fed = p.fed /\ d.reply = <<>> /\ d.selected = TRUE
      /\ p.methodState = "INIT" => d.done = FALSE
      /\ cfg.method = "TLS" /\ p.methodState = "INIT"
            => d.ssl = "none" /\ d.ctx = TRUE
    BY <1>1, EnteredIs
<1>4. \/ c = d
      \/ cfg.method = "TLS" /\ c = p
    <2>1. cfg.method = "TLS" => c = p
        BY DEF Checked
    <2>2. cfg.method # "TLS" => c = d
        BY DEF Entered
    <2> QED
        BY <2>1, <2>2
<1>5. m = IF c.ignore THEN [peer |-> c, packet |-> NULL]
          ELSE IF q.ignore THEN [peer |-> q, packet |-> NULL]
          ELSE IF b.peer.ignore THEN [b EXCEPT !.packet = NULL]
          ELSE IF b.peer.methodState = "DONE" /\ cfg.method # "TLS"
          THEN [packet |-> NULL, peer |-> [b.peer EXCEPT !.failed = TRUE]]
          ELSE b
    BY DEF eap_sm_change_to_method
<1>6. q.reply = <<>> \/ q.ignore = d.ignore
    BY <1>1, <1>2, <1>3, ReplyIsHeeded
<1>7. /\ Proper(q) /\ q.fed \in {p.fed, srv.flight}
      /\ Settled(q) \/ Sending(q)
    <2>1. CASE AtStart(req)
        <3>1. req.start
            BY <2>1, StartPacketIs DEF AtStart
        <3>2. /\ d.done = FALSE
              /\ cfg.method = "TLS" => d.ssl = "none" /\ d.ctx = TRUE
            BY <1>3, <3>1
        <3>3. /\ Proper(q) /\ q.fed = d.fed
              /\ Over(q) \/ Spoken(q) \/ Quiet(q)
            BY <1>2, <1>3, <2>1, <3>2, StartProcessed
        <3> QED
            BY <1>3, <3>3 DEF Settled
    <2>2. CASE AtAck(p, req)
        <3>1. /\ Proper(q) /\ q.fed = d.fed
              /\ Over(q) \/ Sending(q)
            BY <1>2, <1>3, <2>2, AckProcessed
        <3> QED
            BY <1>3, <3>1 DEF Settled
    <2>3. CASE AtFragment(p, req)
        <3>1. /\ Proper(q) /\ q.fed \in {d.fed, srv.flight}
              /\ Settled(q)
            BY <1>2, <1>3, <2>3, FragmentProcessed
        <3> QED
            BY <1>3, <3>1
    <2> QED
        BY <2>1, <2>2, <2>3
<1> HIDE DEF c, d, q
<1>8. Replied(q, b) /\ b.peer.methodState = q.methodState /\ IsResult(b)
    <2>1. Typed(q)
        BY <1>7 DEF Proper
    <2> QED
        BY <1>1, <1>7, <2>1, BuildRespIs, BuildRespState, BuildRespTyped
<1> HIDE DEF b
<1>9. /\ Typed(b.peer) /\ Steady(b.peer) /\ b.peer.reply = <<>>
      /\ b.peer.fed = q.fed
    BY <1>7, <1>8, RepliedTyped
<1>10. \A u : Steady(u) => Backed(u) /\ Kept(u)
    BY DEF Steady, Kept
<1> HIDE DEF m
<1>11. CASE c.ignore
    <2>1. m.peer = c /\ m.packet = NULL
        BY <1>5, <1>11
    <2>2. Fit(c)
        BY <1>3, <1>4, <1>10
    <2> QED
        BY <2>1, <2>2 DEF m
<1>12. CASE ~c.ignore /\ q.ignore
    <2>1. m.peer = q /\ m.packet = NULL
        BY <1>5, <1>12
    <2>2. q.reply = <<>>
        <3>1. CASE cfg.method = "TLS"
            BY <1>7, <3>1 DEF Proper
        <3>2. CASE cfg.method # "TLS"
            BY <1>4, <1>6, <1>12, <3>2
        <3> QED
            BY <3>1, <3>2
    <2>3. Fit(q)
        BY <1>7, <1>10, <2>2 DEF Proper
    <2> QED
        BY <2>1, <2>3 DEF m
<1>13. CASE ~c.ignore /\ ~q.ignore /\ b.peer.ignore
    <2>1. m = [b EXCEPT !.packet = NULL]
        BY <1>5, <1>13
    <2>2. m.peer = b.peer /\ m.packet = NULL
        BY <1>8, <2>1 DEF IsResult
    <2> QED
        BY <1>7, <1>9, <1>10, <2>2 DEF m
<1>14. CASE /\ ~c.ignore /\ ~q.ignore /\ ~b.peer.ignore
            /\ b.peer.methodState = "DONE" /\ cfg.method # "TLS"
    <2> DEFINE u == [b.peer EXCEPT !.failed = TRUE]
    <2>1. m.peer = u /\ m.packet = NULL
        BY <1>5, <1>14
    <2>2. /\ u.ssl = b.peer.ssl /\ u.outq = b.peer.outq
          /\ u.done = b.peer.done /\ u.resumable = b.peer.resumable
          /\ u.reply = b.peer.reply /\ u.fed = b.peer.fed
        BY <1>9 DEF Typed, TypedBut, IsPeer, Fields
    <2> HIDE DEF u
    <2>3. Steady(u)
        BY <1>9, <2>2 DEF Steady, Backed
    <2> QED
        BY <1>7, <1>9, <1>10, <2>1, <2>2, <2>3 DEF m
<1>15. CASE /\ ~c.ignore /\ ~q.ignore /\ ~b.peer.ignore
            /\ ~(b.peer.methodState = "DONE" /\ cfg.method # "TLS")
    <2>1. m = b
        BY <1>5, <1>15
    <2>2. \/ Reading(q) \/ Quiet(q) \/ Spoken(q) \/ Sending(q)
          \/ Ended(q) /\ cfg.method = "TLS"
        BY <1>7, <1>8, <1>15 DEF Settled, Over, Ended
    <2>3. b.packet = NULL \/ Answered(b.peer, b.packet)
        BY <1>7, <1>8, <2>2, ReadingAnswers, QuietAnswers, SpokenAnswers,
           SendingAnswers, EndedAnswers
    <2> QED
        BY <1>7, <1>9, <1>10, <2>1, <2>3 DEF m
<1> QED
    BY <1>11, <1>12, <1>13, <1>14, <1>15

(***************************************************************************)
(* The steps.                                                              *)
(***************************************************************************)
\* With the server as it was.
LEMMA HeldOver ==
    ASSUME cfg' = cfg, srv' = srv
    PROVE  /\ Answered(peer', rsp') => Answered(peer, rsp)'
           /\ AtStart(req') => AtStart(req)'
           /\ AtAck(peer', req') => AtAck(peer, req)'
           /\ AtFragment(peer', req') => AtFragment(peer, req)'
<1>1. /\ Nothing' <=> Nothing
      /\ OpenLate(peer)' <=> OpenLate(peer')
      /\ OpenInner(peer)' <=> OpenInner(peer')
    BY DEF Nothing, OpenLate, OpenInner
<1>2. /\ Midway(peer, 0)' <=> Midway(peer', 0)
      /\ Midway(peer, srv.off)' <=> Midway(peer', srv.off)
      /\ Midway(peer, srv.off - Len(req.data))'
            <=> Midway(peer', srv.off - Len(req'.data))
    BY DEF Midway, EmptyIn
<1>3. /\ Got(rsp)' = Got(rsp') /\ Total(rsp)' = Total(rsp')
      /\ Accepted(rsp)' <=> Accepted(rsp')
    BY DEF Accepted, Got, Total
<1>4. /\ HalfSent(peer, Got(rsp), Total(rsp))'
            <=> HalfSent(peer', Got(rsp'), Total(rsp'))
      /\ HalfSent(peer, srv.got, srv.total)'
            <=> HalfSent(peer', srv.got, srv.total)
    BY <1>3 DEF HalfSent
<1>5. Answered(peer', rsp') => Answered(peer, rsp)'
    BY <1>1, <1>2, <1>3, <1>4 DEF Answered
<1>6. AtStart(req') => AtStart(req)'
    BY <1>1 DEF AtStart
<1>7. AtAck(peer', req') => AtAck(peer, req)'
    BY <1>1, <1>2, <1>4 DEF AtAck
<1>8. AtFragment(peer', req') => AtFragment(peer, req)'
    BY <1>1, <1>2 DEF AtFragment
<1> QED
    BY <1>5, <1>6, <1>7, <1>8

LEMMA FlowInit == Init => Flow
BY EmptyWhole
   DEF Init, Flow, NewPeer, NewServer, Backed, Kept, IsMessage

\* What the peer has been given in this step.
FedWhole == peer'.fed \in {peer.fed, <<>>, srv.flight}

LEMMA HandlesFlow ==
    ASSUME TypeInv, SessionInv, Resumes, Flow, PeerHandlesRequest
    PROVE  Flow' /\ FedWhole
<1> DEFINE p == Selected(peer)
<1>1. /\ req # NULL /\ req' = NULL /\ cfg' = cfg /\ srv' = srv
      /\ IsSome(req) /\ Typed(p)
      /\ \/ peer' = peer /\ rsp' = NULL
         \/ \E x \in Inputs :
                LET b == eap_sm_change_to_method(p, req, x)
                IN  peer' = b.peer /\ rsp' = b.packet
    BY HandlesIs
<1>2. /\ Backed(peer) /\ Kept(peer) /\ peer.reply = <<>>
      /\ AtStart(req) \/ AtAck(peer, req) \/ AtFragment(peer, req)
      /\ IsMessage(srv.flight) /\ Whole(srv.taken, srv.conv)
    BY <1>1 DEF Flow
<1>3. CASE peer' = peer /\ rsp' = NULL
    <2>1. Backed(peer)' /\ Kept(peer)' /\ peer'.reply = <<>>
        BY <1>2, <1>3 DEF Backed, Kept
    <2>2. IsMessage(srv.flight)' /\ Whole(srv.taken, srv.conv)'
        BY <1>1, <1>2 DEF IsMessage
    <2>3. rsp' = NULL /\ req' = NULL
        BY <1>1, <1>3
    <2>4. Flow'
        BY <2>1, <2>2, <2>3 DEF Flow
    <2> QED
        BY <1>3, <2>4 DEF FedWhole
<1>4. ASSUME NEW x \in Inputs,
             peer' = eap_sm_change_to_method(p, req, x).peer,
             rsp' = eap_sm_change_to_method(p, req, x).packet
      PROVE  Flow' /\ FedWhole
    <2> DEFINE m == eap_sm_change_to_method(p, req, x)
    <2>1. /\ p.ssl = peer.ssl /\ p.outq = peer.outq /\ p.bio = peer.bio
          /\ p.soFar = peer.soFar /\ p.expected = peer.expected
          /\ p.inq = peer.inq /\ p.resumable = peer.resumable
          /\ p.done = peer.done /\ p.reply = peer.reply /\ p.fed = peer.fed
          /\ p.selected = TRUE
          /\ peer.selected => p = peer
          /\ ~peer.selected => p.methodState = "INIT"
        BY DEF Selected, TypeInv, Typed, TypedBut, IsPeer, Fields
    <2> HIDE DEF p
    <2>2. /\ Backed(p) /\ Kept(p) /\ p.reply = <<>>
        BY <1>2, <2>1 DEF Backed, Kept
    <2>3. Same(peer, p)
        BY <2>1 DEF Same
    <2>4. AtStart(req) \/ AtAck(p, req) \/ AtFragment(p, req)
        BY <1>2, <2>3, SameAnswered
    <2>5. req.start => p.methodState = "INIT"
        BY <1>1, <2>1 DEF SessionInv
    <2>6. /\ Backed(m.peer) /\ Kept(m.peer) /\ m.peer.reply = <<>>
          /\ m.peer.fed \in {p.fed, srv.flight}
          /\ m.packet = NULL \/ Answered(m.peer, m.packet)
        BY <1>1, <1>2, <2>1, <2>2, <2>4, <2>5, MethodFlows
    <2>7. peer' = m.peer /\ rsp' = m.packet
        BY <1>4
    <2> HIDE DEF m
    <2>8. Backed(peer)' /\ Kept(peer)' /\ peer'.reply = <<>> /\ FedWhole
        BY <2>1, <2>6, <2>7 DEF Backed, Kept, FedWhole
    <2>9. rsp' = NULL \/ Answered(peer, rsp)'
        BY <1>1, <2>6, <2>7, HeldOver
    <2>10. IsMessage(srv.flight)' /\ Whole(srv.taken, srv.conv)'
        BY <1>1, <1>2 DEF IsMessage
    <2> QED
        BY <1>1, <2>8, <2>9, <2>10 DEF Flow
<1> QED
    BY <1>1, <1>3, <1>4

LEMMA RestartsFlow ==
    ASSUME TypeInv, Flow, PeerRestarts
    PROVE  Flow' /\ FedWhole
<1>1. /\ peer' = eap_sm_change_to_initialize(peer)
      /\ cfg' = cfg /\ srv' = srv /\ req' = req /\ rsp' = rsp
    BY DEF PeerRestarts
<1>2. /\ Same(peer, peer') /\ peer'.selected = FALSE
      /\ peer'.resumable = peer.resumable /\ peer'.reply = peer.reply
      /\ peer'.fed = peer.fed
    BY <1>1 DEF eap_sm_change_to_initialize, Same, TypeInv, Typed,
                TypedBut, IsPeer, Fields
<1>3. Backed(peer)' /\ Kept(peer)' /\ peer'.reply = <<>>
    BY <1>2 DEF Flow, Backed, Kept, Same
<1>4. req = NULL \/ AtStart(req) \/ AtAck(peer', req) \/ AtFragment(peer', req)
    BY <1>2, SameAnswered DEF Flow
<1>5. rsp = NULL \/ Answered(peer', rsp)
    BY <1>2, SameAnswered DEF Flow
<1>6. /\ req' = NULL \/ AtStart(req)' \/ AtAck(peer, req)'
         \/ AtFragment(peer, req)'
      /\ rsp' = NULL \/ Answered(peer, rsp)'
    BY <1>1, <1>4, <1>5, HeldOver
<1>7. IsMessage(srv.flight)' /\ Whole(srv.taken, srv.conv)'
    BY <1>1 DEF Flow, IsMessage
<1> QED
    BY <1>2, <1>3, <1>6, <1>7 DEF Flow, FedWhole

LEMMA RebuiltFlow ==
    ASSUME TypeInv, Flow, MachineIsRebuilt
    PROVE  Flow' /\ FedWhole
<1>1. /\ peer' = [NewPeer EXCEPT !.made = peer.made]
      /\ srv' = [srv EXCEPT !.verdict = "failed"]
      /\ req' = NULL /\ rsp' = NULL
    BY DEF MachineIsRebuilt
<1>2. /\ Backed(peer)' /\ Kept(peer)' /\ peer'.reply = <<>>
      /\ peer'.fed = <<>>
    BY <1>1 DEF NewPeer, Backed, Kept
<1>3. srv'.flight = srv.flight /\ srv'.taken = srv.taken
      /\ srv'.conv = srv.conv
    BY <1>1 DEF TypeInv, IsServer, ServerFields
<1>4. IsMessage(srv.flight)' /\ Whole(srv.taken, srv.conv)'
    BY <1>3 DEF Flow, IsMessage
<1> QED
    BY <1>1, <1>2, <1>4 DEF Flow, FedWhole

\* A message is on its way from its first fragment.
LEMMA SendsFlow ==
    ASSUME TypeInv, Flow, rsp # NULL, Accepted(rsp),
           peer' = peer, cfg' = cfg, rsp' = NULL,
           NEW stage, NEW n \in Nat \ {0}, Sends(stage, n),
           stage = "inner" => srv.inner < MaxInner,
           stage = "inner" \/ srv.stage \notin HasOpened
    PROVE  Flow'
<1>1. /\ IsServer(srv') /\ IsSome(req') /\ ~req'.start
      /\ srv'.stage = stage /\ srv'.conv = srv.conv
      /\ srv'.verdict = srv.verdict
      /\ srv'.got = <<>> /\ srv'.total = 0
      /\ srv'.taken = srv.got \o rsp.data
      /\ srv'.flight = Message("server", srv.conv, srv.sent + 1, n)
      /\ srv'.off = Len(req'.data) /\ req'.data # <<>>
      /\ req'.data = SubSeq(srv'.flight, 1, srv'.off)
      /\ req'.more <=> srv'.off < Len(srv'.flight)
      /\ req'.len \in {0, Len(srv'.flight)}
      /\ req'.more => req'.len = Len(srv'.flight)
    BY SendsIs
<1>2. /\ Backed(peer) /\ Kept(peer) /\ peer.reply = <<>>
      /\ OpenLate(peer) /\ Whole(Got(rsp), srv.conv)
      /\ peer.outq = NULL /\ Midway(peer, 0)
    BY DEF Flow, Answered
<1>3. /\ srv'.flight # <<>> /\ srv'.flight[1].at = 1
      /\ srv'.flight[1].last = Len(srv'.flight)
    <2>1. srv.conv \in 0 .. MaxConvs /\ srv.sent + 1 \in Nat
        BY DEF TypeInv, IsServer
    <2> DEFINE m == Message("server", srv.conv, srv.sent + 1, n)
    <2>2. m # <<>> /\ Len(m) = n /\ m[1].at = 1 /\ m[1].last = n
        BY <2>1, MessageIsData
    <2>3. srv'.flight = m
        BY <1>1
    <2> HIDE DEF m
    <2> QED
        BY <2>2, <2>3
<1>4. IsMessage(srv.flight)' /\ Whole(srv.taken, srv.conv)'
    BY <1>1, <1>2, <1>3 DEF IsMessage, Got
<1>5. Midway(peer, 0)'
    <2>1. SubSeq(srv.flight, 1, 0) = <<>> /\ SubSeq(srv'.flight, 1, 0) = <<>>
        <3>1. srv.flight \in Seq(Units) /\ srv'.flight \in Seq(Units)
            BY <1>1 DEF TypeInv, IsServer, Data
        <3> QED
            BY <3>1, SubSeqEmpty
    <2>2. ~(0 > 0)
        OBVIOUS
    <2> QED
        BY <1>2, <2>1, <2>2 DEF Midway, EmptyIn
<1>6. OpenInner(peer)'
    BY <1>1, <1>2 DEF OpenLate, OpenInner
<1>7. AtFragment(peer, req)'
    <2> DEFINE before == srv'.off - Len(req'.data)
    <2>1. before = 0
        BY <1>1 DEF IsServer
    <2>2. Midway(peer, srv.off - Len(req.data))'
        BY <1>5, <2>1 DEF Midway, EmptyIn
    <2>3. before + 1 = 1 /\ before \in Nat /\ ~(before > 0)
        BY <2>1
    <2>4. req'.data = SubSeq(srv'.flight, before + 1, srv'.off)
        BY <1>1, <2>3
    <2> QED
        BY <1>1, <1>2, <1>6, <2>2, <2>3, <2>4 DEF AtFragment, Nothing
<1>8. Backed(peer)' /\ Kept(peer)' /\ peer'.reply = <<>>
    BY <1>2 DEF Backed, Kept
<1> QED
    BY <1>4, <1>7, <1>8 DEF Flow

LEMMA EndsFlow ==
    ASSUME TypeInv, Flow, rsp # NULL, peer' = peer, rsp' = NULL,
           NEW verdict, Ends(verdict),
           verdict = "success" => Accepted(rsp)
    PROVE  Flow'
<1>1. /\ req' = NULL /\ srv'.conv = srv.conv /\ srv'.flight = srv.flight
      /\ srv'.taken = IF verdict = "success" THEN srv.got \o rsp.data
                      ELSE srv.taken
    BY EndsIs
<1>2. Backed(peer)' /\ Kept(peer)' /\ peer'.reply = <<>>
    BY DEF Flow, Backed, Kept
<1>3. Whole(srv'.taken, srv'.conv)
    BY <1>1 DEF Flow, Answered, Got
<1>4. IsMessage(srv.flight)'
    BY <1>1 DEF Flow, IsMessage
<1> QED
    BY <1>1, <1>2, <1>3, <1>4 DEF Flow

LEMMA TakesFlow ==
    ASSUME TypeInv, Flow, ServerTakes
    PROVE  Flow' /\ FedWhole
<1> DEFINE got == srv.got \o rsp.data
           total == IF rsp.len > 0 THEN rsp.len ELSE srv.total
<1>1. /\ rsp # NULL /\ rsp' = NULL /\ IsSome(rsp)
      /\ cfg' = cfg /\ peer' = peer
      /\ \/ /\ srv.off < Len(srv.flight) /\ rsp = Ack
            /\ req' = ServerFragment(srv)
            /\ srv' = [srv EXCEPT !.off = @ + Len(req'.data)]
         \/ /\ srv.off = Len(srv.flight) /\ rsp.more
            /\ req' = Ack
            /\ srv' = [srv EXCEPT !.got = got, !.total = total]
         \/ /\ srv.off = Len(srv.flight) /\ ~rsp.more
            /\ total \in {0, Len(got)}
            /\ Expected /\ ServerGoesOn
         \/ Ends("failed")
    BY TakesIs
<1>2. FedWhole
    BY <1>1 DEF FedWhole
<1>3. /\ Backed(peer)' /\ Kept(peer)' /\ peer'.reply = <<>>
      /\ Answered(peer, rsp)
      /\ IsMessage(srv.flight) /\ Whole(srv.taken, srv.conv)
    BY <1>1 DEF Flow, Backed, Kept
<1>4. CASE /\ srv.off < Len(srv.flight) /\ rsp = Ack
           /\ req' = ServerFragment(srv)
           /\ srv' = [srv EXCEPT !.off = @ + Len(req'.data)]
    <2> DEFINE f == ServerFragment(srv)
    <2>1. /\ IsSome(f) /\ ~f.start
          /\ f.data = SubSeq(srv.flight, srv.off + 1, srv.off + Len(f.data))
          /\ srv.off + Len(f.data) <= Len(srv.flight)
          /\ Len(f.data) \in Nat /\ Len(srv.flight) \in Nat
          /\ srv.off < Len(srv.flight) => Len(f.data) > 0
          /\ f.more <=> srv.off + Len(f.data) < Len(srv.flight)
          /\ f.len \in {0, Len(srv.flight)}
          /\ srv.off > 0 => f.len = 0
          /\ srv.off = 0 /\ f.more => f.len = Len(srv.flight)
        BY ServerFragmentIs DEF TypeInv
    <2>2. req' = f
        BY <1>4
    <2> HIDE DEF f
    <2>3. /\ srv'.off = srv.off + Len(f.data) /\ srv'.flight = srv.flight
          /\ srv'.got = srv.got /\ srv'.total = srv.total
          /\ srv'.stage = srv.stage /\ srv'.conv = srv.conv
          /\ srv'.taken = srv.taken /\ srv.off \in Nat
        BY <1>4, <2>2 DEF TypeInv, IsServer, ServerFields
    <2>4. /\ Nothing /\ peer.outq = NULL /\ Midway(peer, srv.off)
          /\ OpenInner(peer)
        BY <1>3, <1>4 DEF Answered
    <2>5. srv'.off - Len(req'.data) = srv.off
        BY <2>1, <2>2, <2>3
    <2>6. Midway(peer, srv.off - Len(req.data))'
        BY <1>1, <2>3, <2>4, <2>5 DEF Midway, EmptyIn
    <2>7. Nothing' /\ OpenInner(peer)' /\ peer'.outq = NULL
        BY <1>1, <2>3, <2>4 DEF Nothing, OpenInner
    <2>8. f.data # <<>>
        BY <1>4, <2>1
    <2>9. AtFragment(peer, req)'
        BY <2>1, <2>2, <2>3, <2>5, <2>6, <2>7, <2>8 DEF AtFragment
    <2>10. IsMessage(srv.flight)' /\ Whole(srv.taken, srv.conv)'
        BY <1>3, <2>3 DEF IsMessage
    <2> QED
        BY <1>1, <1>2, <1>3, <2>9, <2>10 DEF Flow
<1>5. CASE /\ srv.off = Len(srv.flight) /\ rsp.more
           /\ req' = Ack
           /\ srv' = [srv EXCEPT !.got = got, !.total = total]
    <2>1. HalfSent(peer, got, total) /\ Midway(peer, 0) /\ OpenLate(peer)
        BY <1>3, <1>5 DEF Answered, Got, Total
    <2> HIDE DEF got, total
    <2>2. /\ srv'.off = srv.off /\ srv'.flight = srv.flight
          /\ srv'.got = got /\ srv'.total = total
          /\ srv'.stage = srv.stage /\ srv'.conv = srv.conv
          /\ srv'.taken = srv.taken
        BY <1>5 DEF TypeInv, IsServer, ServerFields
    <2>3. HalfSent(peer, srv.got, srv.total)'
        BY <1>1, <2>1, <2>2 DEF HalfSent
    <2>4. Midway(peer, 0)' /\ OpenLate(peer)'
        BY <1>1, <2>1, <2>2 DEF Midway, EmptyIn, OpenLate
    <2>5. AtAck(peer, req)'
        BY <1>5, <2>2, <2>3, <2>4 DEF AtAck
    <2>6. IsMessage(srv.flight)' /\ Whole(srv.taken, srv.conv)'
        BY <1>3, <2>2 DEF IsMessage
    <2> QED
        BY <1>1, <1>2, <1>3, <2>5, <2>6 DEF Flow
<1>6. CASE /\ srv.off = Len(srv.flight) /\ ~rsp.more
           /\ total \in {0, Len(got)}
           /\ Expected /\ ServerGoesOn
    <2>1. Accepted(rsp)
        BY <1>6 DEF Accepted, Expected, Total, Got
    <2> HIDE DEF got, total
    <2>2. CASE Ends("success")
        BY <1>1, <1>2, <2>1, <2>2, EndsFlow
    <2>3. ASSUME NEW n \in Nat \ {0}, Sends("inner", n), srv.inner < MaxInner
          PROVE  Flow'
        BY <1>1, <2>1, <2>3, SendsFlow
    <2>4. ASSUME NEW n \in Nat \ {0},
                 NEW stage \in {"flight1", "flight2", "resumed"},
                 Sends(stage, n), srv.stage \in {"start", "flight1"}
          PROVE  Flow'
        <3>1. srv.stage \notin HasOpened
            BY <2>4 DEF HasOpened
        <3> QED
            BY <1>1, <2>1, <2>4, <3>1, SendsFlow
    <2>5. \/ Ends("success")
          \/ \E n \in Nat \ {0} : Sends("inner", n) /\ srv.inner < MaxInner
          \/ \E n \in Nat \ {0}, stage \in {"flight1", "flight2", "resumed"} :
                 Sends(stage, n) /\ srv.stage \in {"start", "flight1"}
        BY <1>6, GoesOnIs
    <2> QED
        BY <1>2, <2>2, <2>3, <2>4, <2>5
<1>7. CASE Ends("failed")
    BY <1>1, <1>2, <1>7, EndsFlow
<1> QED
    BY <1>1, <1>4, <1>5, <1>6, <1>7

LEMMA BeginsFlow ==
    ASSUME TypeInv, Flow, ServerBegins
    PROVE  Flow' /\ FedWhole
<1> DEFINE p == IF srv.verdict # "open" \/ peer.failed \/ peer.reinit
                THEN eap_sm_change_to_initialize(peer) ELSE peer
           d == IF p.selected THEN Deinit(p) ELSE p
           i == eap_sm_change_to_identity(p)
<1>1. /\ peer' = [i EXCEPT !.made = 0, !.fed = <<>>]
      /\ srv' = [NewServer EXCEPT !.conv = srv.conv + 1, !.stage = "start",
                                  !.verdict = "open"]
      /\ req' = Start /\ rsp' = NULL
    BY DEF ServerBegins
<1>2. Typed(p) /\ Backed(p) /\ p.reply = <<>>
    <2>1. Typed(p)
        BY InitializeTyped DEF TypeInv
    <2>2. /\ p.ssl = peer.ssl /\ p.outq = peer.outq
          /\ p.resumable = peer.resumable /\ p.reply = peer.reply
        BY DEF eap_sm_change_to_initialize, TypeInv, Typed, TypedBut,
               IsPeer, Fields
    <2> HIDE DEF p
    <2> QED
        BY <2>1, <2>2 DEF Flow, Backed
<1> HIDE DEF p
<1>3. Typed(d) /\ Backed(d) /\ d.reply = <<>>
    <2> DEFINE t == tls_funcs_deinit(p)
    <2>1. Typed(Deinit(p))
        BY <1>2, DeinitTyped
    <2>2. /\ Typed(t) /\ t.ssl = "none" /\ t.outq = NULL /\ t.reply = <<>>
        <3>1. Typed(t) /\ t.ssl = "none" /\ t.outq = NULL
            BY <1>2, TlsDeinitTyped DEF Typed
        <3>2. t.reply = p.reply
            BY <1>2 DEF tls_funcs_deinit, Typed, TypedBut, IsPeer, Fields
        <3> QED
            BY <1>2, <3>1, <3>2
    <2>3. Deinit(p) = IF p.data = "none" THEN p
                      ELSE [t EXCEPT !.data = IF cfg.method = "TLS"
                                              THEN "freed" ELSE "none"]
        BY DEF Deinit
    <2> HIDE DEF t
    <2>4. Backed(Deinit(p)) /\ Deinit(p).reply = <<>>
        BY <1>2, <2>2, <2>3 DEF Backed, Typed, TypedBut, IsPeer, Fields
    <2> QED
        BY <1>2, <2>1, <2>4
<1> HIDE DEF d
<1>4. i = [d EXCEPT !.selected = FALSE, !.methodState = "INIT"]
    BY DEF eap_sm_change_to_identity, d
<1> HIDE DEF i
<1>5. /\ Backed(peer)' /\ Kept(peer)' /\ peer'.reply = <<>>
      /\ peer'.fed = <<>>
    <2>1. IsPeer(i) /\ i.ssl = d.ssl /\ i.outq = d.outq /\ i.reply = d.reply
          /\ i.resumable = d.resumable /\ i.selected = FALSE
        BY <1>3, <1>4 DEF Typed, TypedBut, IsPeer, Fields
    <2>2. /\ peer'.ssl = i.ssl /\ peer'.outq = i.outq
          /\ peer'.reply = i.reply /\ peer'.resumable = i.resumable
          /\ peer'.selected = FALSE /\ peer'.fed = <<>>
        BY <1>1, <2>1 DEF IsPeer, Fields
    <2> QED
        BY <1>3, <2>1, <2>2 DEF Backed, Kept
<1>6. /\ srv'.stage = "start" /\ srv'.flight = <<>> /\ srv'.off = 0
      /\ srv'.got = <<>> /\ srv'.total = 0 /\ srv'.taken = <<>>
    BY <1>1 DEF NewServer
<1>7. AtStart(req)'
    BY <1>1, <1>6 DEF AtStart, Nothing
<1>8. IsMessage(srv.flight)' /\ Whole(srv.taken, srv.conv)'
    BY <1>6, EmptyWhole DEF IsMessage
<1> QED
    BY <1>1, <1>5, <1>7, <1>8 DEF Flow, FedWhole

LEMMA FlowStep ==
    ASSUME Resumes, TypeInv, SessionInv, Flow, [Next]_vars
    PROVE  Flow' /\ FedWhole
<1>1. CASE UNCHANGED vars
    <2>1. /\ cfg' = cfg /\ peer' = peer /\ srv' = srv
          /\ req' = req /\ rsp' = rsp
        BY <1>1 DEF vars
    <2>2. /\ Backed(peer)' /\ Kept(peer)' /\ peer'.reply = <<>>
          /\ IsMessage(srv.flight)' /\ Whole(srv.taken, srv.conv)'
        BY <2>1 DEF Flow, Backed, Kept, IsMessage
    <2>3. /\ req' = NULL \/ AtStart(req)' \/ AtAck(peer, req)'
             \/ AtFragment(peer, req)'
          /\ rsp' = NULL \/ Answered(peer, rsp)'
        BY <2>1, HeldOver DEF Flow
    <2> QED
        BY <2>1, <2>2, <2>3 DEF Flow, FedWhole
<1> QED
    BY <1>1, HandlesFlow, RestartsFlow, RebuiltFlow, TakesFlow, BeginsFlow
       DEF Next

\* What of a message the other end has got, and what a conversation that
\* breaks off leaves behind for the next (ossl_tls_funcs.c:585), is told by
\* Flow in every reachable state when EAP-TTLS resumes its sessions.
THEOREM FlowInductive ==
    ASSUME Resumes PROVE Spec => [](TypeInv /\ SessionInv /\ Flow)
<1>1. Init => TypeInv /\ SessionInv /\ Flow
    BY TypeInvInit, SessionInit, FlowInit
<1>2. TypeInv /\ SessionInv /\ Flow /\ [Next]_vars
        => (TypeInv /\ SessionInv /\ Flow)'
    BY TypeInvStep, SessionStep, FlowStep
<1> QED
    BY <1>1, <1>2, PTL DEF Spec

\* What the server takes for a complete message of the peer is one: none of
\* what was queued for an earlier conversation, no hole and nothing twice,
\* however the fragments fall and wherever the conversation before broke off.
THEOREM IntactTheorem ==
    ASSUME Resumes PROVE Spec => []Intact
<1>1. Flow => Intact
    BY DEF Flow, Intact
<1> QED
    BY <1>1, FlowInductive, PTL

\* OpenSSL is given what the server has sent and all of it, or nothing: the
\* counters and queues a broken conversation leaves in struct tls_vars never
\* let a part of a message through, or the parts of two.
THEOREM HandedWholeTheorem ==
    ASSUME Resumes PROVE Spec => HandedWhole
<1>1. TypeInv /\ SessionInv /\ Flow /\ [Next]_vars
        => [peer'.fed \in {peer.fed, <<>>, srv.flight}]_vars
    BY FlowStep DEF FedWhole
<1> QED
    BY <1>1, FlowInductive, PTL DEF Spec, HandedWhole
=============================================================================

------------------------------ MODULE TlsFuncs ------------------------------
(***************************************************************************)
(* What EAP-TLS, EAP-PEAP and EAP-TTLS share: struct tls_vars, its two     *)
(* queues, and the functions of ossl_tls_funcs.c, each an operator from    *)
(* the old value of the peer to the new one.                               *)
(*                                                                         *)
(* Data is a sequence of units, each of which names the message it is a    *)
(* part of.  OpenSSL is external: an outcome says what it makes of the     *)
(* data it is given.                                                       *)
(***************************************************************************)
EXTENDS Naturals, Sequences

CONSTANTS Chunk,     \* data in a fragment of the peer
          AckSlack,  \* data a packet without flags may hold and be an ACK
          NULL

ASSUME ChunkAssumption == Chunk \in Nat \ {0} /\ AckSlack \in Nat

\* The k-th message of one side in a conversation.
Message(side, conv, k, n) ==
    [i \in 1 .. n |-> [of |-> <<side, conv, k>>, at |-> i, last |-> n]]

Least(m, n) == IF m < n THEN m ELSE n

Packet(len, more, data) ==
    [start |-> FALSE, len |-> len, more |-> more, data |-> data]

Ack == Packet(0, FALSE, <<>>)

Start == [Ack EXCEPT !.start = TRUE]

\* The fragment at an offset, with the length if it is the first of several.
Fragment(buf, off, size) ==
    LET end == Least(off + size, Len(buf))
    IN  Packet(IF off = 0 /\ end < Len(buf) THEN Len(buf) ELSE 0,
               end < Len(buf), SubSeq(buf, off + 1, end))

(***************************************************************************)
(* struct tls_vars when it has been allocated: expected is expected_in,    *)
(* soFar in_so_far, bio what OpenSSL has not read of ssl_in, outq and inq  *)
(* the queues, and an SSL object is new, shaking hands, or open.  session  *)
(* says whether the one it offers is complete.  Of the rest, fed is what   *)
(* OpenSSL was given last, made counts its messages, and asked says that   *)
(* the peer has asked the authenticator to start over.                     *)
(***************************************************************************)
Allocated(p) ==
    [p EXCEPT !.data = "live", !.ctx = FALSE, !.ssl = "none",
              !.session = FALSE, !.resumable = FALSE, !.phase2 = FALSE,
              !.done = FALSE, !.expected = 0, !.soFar = 0, !.sendAck = FALSE,
              !.outq = NULL, !.inq = NULL, !.bio = <<>>]

\* Data goes behind what is queued already.
Queued(p, data) ==
    [p EXCEPT !.outq = IF @ = NULL THEN [buf |-> data, off |-> 0]
                       ELSE [buf |-> @.buf \o data, off |-> @.off]]

\* The context of a session that may be resumed is kept.
tls_funcs_init(p) ==
    IF p.resumable THEN p ELSE [p EXCEPT !.ssl = "none", !.ctx = TRUE]

tls_funcs_deinit(p) ==
    [p EXCEPT !.inq = NULL, !.outq = NULL, !.ssl = "none", !.ctx = FALSE,
              !.phase2 = FALSE]

\* Without a context there is no SSL object.
tls_funcs_build_new_session(p) ==
    LET q == IF p.ctx THEN p ELSE tls_funcs_init(p)
    IN  [q EXCEPT !.ssl = IF q.ctx THEN "new" ELSE "none",
                  !.session = FALSE,
                  !.resumable = IF q.ctx THEN TRUE ELSE @]

\* The SSL object of do_start: a new one, or if there is one already and
\* nothing is to be resumed, the one there is.
StartedSession(p, resume) ==
    IF p.ssl = "none" \/ (resume /\ ~p.resumable)
    THEN tls_funcs_build_new_session(p)
    ELSE IF resume
         THEN [p EXCEPT !.ssl = "new", !.session = (p.ssl = "open")]
         ELSE p

\* A mutant of ossl_funcs_do_start: what came before is still in ssl_in.
StartKeepingBio(p, resume, hello) ==
    LET q == StartedSession(p, resume)
    IN  CASE q.ssl = "none" -> [q EXCEPT !.methodState = "EAP_FAIL"]
          [] q.ssl = "new" ->
               [q EXCEPT !.ssl = "shaking", !.inq = NULL,
                         !.outq = [buf |-> hello, off |-> 0],
                         !.made = @ + 1, !.asked = FALSE,
                         !.methodState = "CONT"]
          [] OTHER -> [q EXCEPT !.bio = <<>>, !.methodState = "EAP_FAIL"]

\* A mutant of ossl_funcs_do_start: the queues are not destroyed.
StartKeepingQueues(p, resume, hello) ==
    LET q == StartedSession(p, resume)
    IN  CASE q.ssl = "none" -> [q EXCEPT !.methodState = "EAP_FAIL"]
          [] q.ssl = "new" ->
               [Queued(q, hello) EXCEPT !.ssl = "shaking", !.bio = <<>>,
                         !.made = @ + 1, !.asked = FALSE,
                         !.methodState = "CONT"]
          [] OTHER -> [q EXCEPT !.bio = <<>>, !.methodState = "EAP_FAIL"]

\* An SSL object that has started before has nothing to say, and what was
\* queued stays.
ossl_funcs_do_start(p, resume, hello) ==
    LET q == StartedSession(p, resume)
    IN  CASE q.ssl = "none" -> [q EXCEPT !.methodState = "EAP_FAIL"]
          [] q.ssl = "new" ->
               [q EXCEPT !.ssl = "shaking", !.bio = <<>>, !.inq = NULL,
                         !.outq = [buf |-> hello, off |-> 0],
                         !.made = @ + 1, !.asked = FALSE,
                         !.methodState = "CONT"]
          [] OTHER -> [q EXCEPT !.bio = <<>>, !.methodState = "EAP_FAIL"]

(***************************************************************************)
(* ossl_funcs_process_other                                                *)
(***************************************************************************)
IsAck(r) == r.len = 0 /\ ~r.more /\ Len(r.data) <= AckSlack

\* The packet is written to ssl_in and counted.
Written(p, r) ==
    [p EXCEPT !.sendAck = r.more, !.soFar = @ + Len(r.data),
              !.bio = @ \o r.data,
              !.expected = IF r.len > 0 THEN r.len
                           ELSE IF ~r.more /\ @ = 0 THEN Len(r.data)
                           ELSE @]

\* OpenSSL reads the data: it goes on, opens the session, finds the name in
\* the certificate wrong, or refuses it.  An unexpected message sends an
\* EAPOL-Start on a wire; another error unbinds the connection.
Handed(p, o) ==
    LET q == [p EXCEPT !.bio = <<>>, !.fed = p.bio, !.made = @ + 1]
        r == IF o.out = <<>> THEN q ELSE Queued(q, o.out)
    IN  CASE o.kind = "goes_on" -> [r EXCEPT !.methodState = "MAY_CONT"]
          [] o.kind = "opens" ->
               [r EXCEPT !.ssl = "open", !.done = TRUE,
                         !.methodState = "MAY_CONT"]
          [] o.kind = "wrong_name" ->
               [r EXCEPT !.ssl = "open", !.outq = NULL, !.inq = NULL,
                         !.methodState = "DONE"]
          [] o.kind = "unexpected" ->
               [tls_funcs_deinit(q) EXCEPT !.methodState = "DONE",
                                           !.asked = TRUE]
          [] o.kind = "fails" ->
               [tls_funcs_deinit(q) EXCEPT !.methodState = "DONE",
                                           !.bound = FALSE]

\* After an open session the handshake has nothing left to read, but the name
\* is looked at again.
NothingHanded(p, o) ==
    CASE p.ssl # "open" -> [p EXCEPT !.methodState = "MAY_CONT"]
      [] p.ssl = "open" /\ o.kind = "wrong_name" ->
           [p EXCEPT !.outq = NULL, !.inq = NULL, !.methodState = "DONE"]
      [] p.ssl = "open" /\ o.kind # "wrong_name" ->
           [p EXCEPT !.done = TRUE, !.methodState = "MAY_CONT"]

\* A mutant of ossl_funcs_process_other: the length of a message that is
\* complete is kept.
ProcessOtherKeepingLength(p, r, o) ==
    LET q == Written(p, r)
        cleared == [q EXCEPT !.soFar = 0]
    IN  CASE p.ssl # "none" /\ IsAck(r) ->
               [p EXCEPT !.sendAck = FALSE, !.methodState = "CONT"]
          [] p.ssl # "none" /\ ~IsAck(r) /\ r.more -> NothingHanded(q, o)
          [] OTHER ->
               IF q.soFar # q.expected
               THEN [cleared EXCEPT !.methodState = "DONE"]
               ELSE IF p.ssl = "open" THEN NothingHanded(cleared, o)
               ELSE Handed(cleared, o)

ossl_funcs_process_other(p, r, o) ==
    LET q == Written(p, r)
        cleared == [q EXCEPT !.soFar = 0, !.expected = 0]
    IN  CASE p.ssl = "none" ->  \* statemachine_reinit
               [p EXCEPT !.methodState = "DONE", !.reinit = TRUE]
          [] p.ssl # "none" /\ IsAck(r) ->
               [p EXCEPT !.sendAck = FALSE, !.methodState = "CONT"]
          [] p.ssl # "none" /\ ~IsAck(r) /\ r.more -> NothingHanded(q, o)
          [] OTHER ->
               IF q.soFar # q.expected
               THEN [cleared EXCEPT !.methodState = "DONE"]
               ELSE IF p.ssl = "open" THEN NothingHanded(cleared, o)
               ELSE Handed(cleared, o)

tls_funcs_process(p, r, resume, hello, o) ==
    IF r.start THEN ossl_funcs_do_start(p, resume, hello)
    ELSE ossl_funcs_process_other(p, r, o)

\* A mutant of tls_funcs_get_packet: a queue that is sent is not destroyed.
GetPacketKeeping(p) ==
    CASE p.outq = NULL /\ p.sendAck -> [peer |-> p, packet |-> Ack]
      [] p.outq = NULL /\ ~p.sendAck -> [peer |-> p, packet |-> NULL]
      [] p.outq # NULL ->
           LET f == Fragment(p.outq.buf, p.outq.off, Chunk)
           IN  [packet |-> f,
                peer |-> [p EXCEPT !.outq.off = @ + Len(f.data)]]

\* The next fragment or an ACK, and the peer after it; the packet is NULL on
\* an error.
tls_funcs_get_packet(p) ==
    CASE p.outq = NULL /\ p.sendAck -> [peer |-> p, packet |-> Ack]
      [] p.outq = NULL /\ ~p.sendAck -> [peer |-> p, packet |-> NULL]
      [] p.outq # NULL ->
           LET f == Fragment(p.outq.buf, p.outq.off, Chunk)
           IN  [packet |-> f,
                peer |-> [p EXCEPT !.outq =
                    IF f.more
                    THEN [buf |-> @.buf, off |-> @.off + Len(f.data)]
                    ELSE NULL]]

(***************************************************************************)
(* Data of phase 2.  A queue that was given nothing takes nothing more     *)
(* (queue.c:71): it has memory, and no size.                               *)
(***************************************************************************)
NewQueue == [buf |-> <<>>, memory |-> FALSE]

InQueue(p, r) == IF r.len > 0 /\ p.inq # NULL THEN p.inq ELSE NewQueue

Spoilt(queue) == queue.memory /\ queue.buf = <<>>

tls_funcs_buffer(p, r) ==
    LET queue == InQueue(p, r)
    IN  [p EXCEPT
           !.expected = IF r.len > 0 THEN r.len ELSE @,
           !.inq = IF Spoilt(queue) THEN queue
                   ELSE [buf |-> queue.buf \o r.data, memory |-> TRUE]]

tls_funcs_decrypt_ready(p) ==
    p.inq.buf # <<>> /\ Len(p.inq.buf) >= p.expected

\* SSL_read gives back the first message in ssl_in, if it is whole.
tls_funcs_decrypt(p) ==
    LET data == p.bio \o p.inq.buf
        size == data[1].last
        whole == data[1].at = 1 /\ size <= Len(data)
    IN  [read |-> whole,
         peer |-> [p EXCEPT
             !.inq = NULL,
             !.fed = IF whole THEN SubSeq(data, 1, size) ELSE data,
             !.bio = IF whole THEN SubSeq(data, size + 1, Len(data))
                     ELSE data]]

\* The reply goes behind what is queued, and ssl_in is emptied.
tls_funcs_encrypt(p, reply) ==
    Queued([p EXCEPT !.bio = <<>>, !.made = @ + 1], reply)
=============================================================================

--------------------------- MODULE TlsProperties ---------------------------
(***************************************************************************)
(* What fragmentation and resumption must not change: OpenSSL and the      *)
(* server each get what the other one has sent.                            *)
(***************************************************************************)
EXTENDS TlsMethods

\* The units of whole messages of one conversation, one after the other.
Whole(data, conv) ==
    \A j \in DOMAIN data :
        LET u == data[j]
        IN  /\ u.of[2] = conv
            /\ \/ u.at = 1
               \/ j > 1 /\ data[j - 1] = [u EXCEPT !.at = @ - 1]
            /\ \/ u.at = u.last
               \/ j < Len(data) /\ data[j + 1] = [u EXCEPT !.at = @ + 1]

\* OpenSSL is never given a part of a message, or parts of two, whatever is
\* left in the counters and queues of struct tls_vars by a conversation that
\* broke off (in_so_far and expected_in, ossl_tls_funcs.c:885).
HandedWhole == [][peer'.fed \in {peer.fed, <<>>, srv.flight}]_vars

\* What the server takes for a complete message is one: nothing that was
\* queued for an earlier conversation, and no hole (tls_funcs_get_packet).
Intact == Whole(srv.taken, srv.conv)

\* handshake_done is read as "there is a session to take keys from"
\* (eaptls_isKeyAvailable, tls_funcs_gen_keyblock).
KeysHaveSession == peer.data = "live" /\ peer.done => peer.ssl = "open"

\* A conversation with a server that keeps to the protocol ends well.
Completes == srv.verdict = "open" ~> srv.verdict = "success"
=============================================================================

------------------------------- MODULE MCTls -------------------------------
(***************************************************************************)
(* Small instances of TlsMethods for TLC.                                  *)
(***************************************************************************)
EXTENDS TlsProperties

Config(method, resume, always, replies) ==
    [method |-> method, resume |-> resume, always |-> always,
     replies |-> replies]

\* EAP-TTLS without resumption answers a Start with what is left of the
\* conversation that broke off; it is left out.
MCAnyOrder ==
    {Config(m, r, a, {2, 3}) : m \in {"TLS", "PEAP"}, r, a \in BOOLEAN}
    \cup {Config("TTLS", TRUE, a, {2, 3}) : a \in BOOLEAN}

\* A tunnel without resumption keeps its open session and cannot start
\* again; EAP-TTLS does not send a reply in pieces, and neither does EAP-PEAP
\* with a server that gives a length it need not give.
MCOrderly ==
    {Config("TLS", r, a, {2}) : r, a \in BOOLEAN}
    \cup {Config("TTLS", TRUE, a, {2}) : a \in BOOLEAN}
    \cup {Config("PEAP", TRUE, FALSE, {2, 5}),
          Config("PEAP", TRUE, TRUE, {2})}
=============================================================================

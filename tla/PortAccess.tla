----------------------------- MODULE PortAccess -----------------------------
(***************************************************************************)
(* What the supplicant promises about its port: it opens only because the  *)
(* current EAP conversation ended in success, or because 802.1X was given  *)
(* up (force authorised).  A conversation that starts again leaves an open *)
(* port open, but the proof that opened it is gone: once the port is       *)
(* closed, only a new proof opens it.                                      *)
(***************************************************************************)
VARIABLES port,     \* "open" or "closed"
          mode,     \* "auto", or "forced": the port is not under 802.1X
          proof     \* the current conversation ended in success

vars == <<port, mode, proof>>

TypeOK ==
    /\ port \in {"open", "closed"} /\ mode \in {"auto", "forced"}
    /\ proof \in BOOLEAN

Init == port = "closed" /\ mode = "auto" /\ proof = FALSE

\* The conversation succeeds; the port is told about it later.
Prove == mode = "auto" /\ proof' = TRUE /\ UNCHANGED <<port, mode>>

Grant == mode = "auto" /\ proof /\ port' = "open" /\ UNCHANGED <<mode, proof>>

GiveUp == mode' = "forced" /\ port' = "open" /\ proof' \in {proof, FALSE}

\* Failure, logoff, another connection.
Close == mode' = "auto" /\ port' = "closed" /\ proof' \in {proof, FALSE}

StartAgain == mode = "auto" /\ proof' = FALSE /\ UNCHANGED <<port, mode>>

Next == Prove \/ Grant \/ GiveUp \/ Close \/ StartAgain

Spec == Init /\ [][Next]_vars
=============================================================================

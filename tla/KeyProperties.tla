--------------------------- MODULE KeyProperties ---------------------------
(***************************************************************************)
(* What the handshakes are for: both sides use the same keys, and the user *)
(* interface hears the truth about a pre-shared key.                       *)
(***************************************************************************)
EXTENDS KeyHandshake

Up == link = "up"

Complete == Up /\ ap.stage = "done" /\ ~ap.rekeys

\* When the access point is done with the four-way handshake, the supplicant
\* has installed the same key and still has what it needs to check the next
\* message, whatever arrives late or twice (eapol_key_type2.c:1219).
SharedKey ==
    Up /\ ap.stage = "done" => sup.tk = ap.ptk /\ sup.ptk = ap.ptk

\* A new nonce for every message 1 must not make message 3 unreadable: on an
\* orderly link the access point may repeat what it likes.
CanFinish ==
    Up /\ orderly /\ ap.stage = "negotiating" => sup.ptk = ap.ptk

\* When the access point is done with a group key the card has it, on an
\* orderly link.
GroupAgrees ==
    orderly /\ Complete => sup.gtk[ap.gtk % 2] = ap.gtk

\* On an orderly link the user interface is not told that the pre-shared key
\* failed when both handshakes are complete (PSK_DEATH_TIMER,
\* WIRELESS_SM_DOING_PSK).
VerdictIsTrue ==
    [][orderly /\ Complete =>
          sup'.told = sup.told \/ sup'.told \in {NULL, "SUCCESS"}]_vars

\* WIRELESS_SM_DOING_PSK is never left set without the timer that clears it:
\* the next lost link would be blamed on the pre-shared key.
DoingIsTimed == sup.doing => sup.timer

\* WPA uses the master key without a look at it (eapol_key_type254.c:204).
MasterKeyIsThere == link # "crashed"
=============================================================================

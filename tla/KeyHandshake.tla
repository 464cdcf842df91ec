---------------------------- MODULE KeyHandshake ----------------------------
(***************************************************************************)
(* The four-way handshake and the group key handshake of WPA2              *)
(* (eapol_key_type2.c) and WPA (eapol_key_type254.c) with an access point, *)
(* over a link that loses frames and, if it is not orderly, repeats them   *)
(* and lets one overtake another.                                          *)
(*                                                                         *)
(* A pairwise transient key is what it is computed from: the master key    *)
(* and a nonce of either side.  A message is authentic if it was made with *)
(* the transient key it is checked with.                                   *)
(***************************************************************************)
EXTENDS Naturals, Sequences, SequencesExt

CONSTANTS
    Networks,    \* records of auth, "PSK" or "EAP", and version
    PskStates,   \* what the user may have configured and typed
    Orderly,     \* may the link keep the order, may it not?
    RefusesIe,   \* may the information elements of message 3 differ?
    EapKeys,     \* the master keys EAP makes, one after the other
    MaxCounter, MaxHandshakes, MaxNonce, MaxGtk,  \* bounds
    Capacity,    \* frames on their way in one direction
    NULL

ASSUME KeyAssumption ==
    /\ Networks \subseteq [auth : {"PSK", "EAP"}, version : {"WPA", "WPA2"}]
    /\ PskStates \subseteq {"right", "wrong", "hex", "none"}
    /\ Orderly \subseteq BOOLEAN /\ RefusesIe \subseteq BOOLEAN
    /\ MaxCounter \in Nat /\ MaxHandshakes \in Nat /\ MaxNonce \in Nat
    /\ MaxGtk \in Nat \ {0} /\ Capacity \in Nat

\* From a pre-shared key or from EAP.
Pmks == {"psk", "other", "zeros"} \cup Range(EapKeys)

Ptks == [pmk : Pmks, anonce : 0 .. MaxHandshakes, snonce : 0 .. MaxNonce]

ASSUME PmksAssumption ==
    EapKeys \in Seq(Range(EapKeys)) /\ NULL \notin Pmks \cup Ptks

\* struct wpa2_key_packet: message 1 and 3 and the group message, and the
\* answers to them.
Frames ==
    [kind : {"M1"}, counter : 0 .. MaxCounter, anonce : 0 .. MaxHandshakes,
     pmkid : Pmks \cup {NULL}]
    \cup [kind : {"M3", "G1"}, counter : 0 .. MaxCounter, mic : Ptks,
          gtk : 0 .. MaxGtk]
Answers ==
    [kind : {"M2"}, counter : 0 .. MaxCounter, mic : Ptks,
     snonce : 0 .. MaxNonce]
    \cup [kind : {"M4", "G2"}, counter : 0 .. MaxCounter, mic : Ptks]

\* The parts of struct dot1x_state and wireless_ctx the handshakes use, the
\* keys in the card (tk, and gtk in two slots), the pre-shared key, and
\* whether the last message to the user interface was good or bad news.
Supplicants ==
    [counter : 0 .. MaxCounter, snonce : 0 .. MaxNonce,
     ptk : Ptks \cup {NULL}, pmk : Pmks \cup {NULL}, tk : Ptks \cup {NULL},
     gtk : [{0, 1} -> 0 .. MaxGtk], doing : BOOLEAN, timer : BOOLEAN,
     psk : PskStates \cup {"none"}, told : {NULL, "SUCCESS", "TIMEOUT", "BAD"}]

AccessPoints ==
    [stage : {"idle", "start", "negotiating", "done"}, rekeys : BOOLEAN,
     counter : 0 .. MaxCounter, anonce : 0 .. MaxHandshakes,
     pmk : Pmks \cup {NULL}, ptk : Ptks \cup {NULL}, gtk : 1 .. MaxGtk,
     eaps : 0 .. Len(EapKeys)]

VARIABLES net,      \* the network of the connection
          orderly,  \* does the link keep the order?
          link,     \* "down"; "new", the machine has not seen it; "up"
          sup,      \* the supplicant
          ap,       \* the access point
          down, up  \* the frames to the supplicant, and those from it

vars == <<net, orderly, link, sup, ap, down, up>>

TypeOK ==
    /\ net \in Networks /\ orderly \in BOOLEAN
    /\ link \in {"down", "new", "up", "crashed"}
    /\ sup \in Supplicants /\ ap \in AccessPoints
    /\ down \in Seq(Frames) /\ Len(down) <= Capacity
    /\ up \in Seq(Answers) /\ Len(up) <= Capacity

Psk == net.auth = "PSK"
Wpa2 == net.version = "WPA2"

\* A connection with EAP has no pre-shared key.
PskOf(n) == IF n.auth = "PSK" THEN PskStates ELSE {"none"}

Ptk(pmk, anonce, snonce) == [pmk |-> pmk, anonce |-> anonce, snonce |-> snonce]

(***************************************************************************)
(* The link.                                                               *)
(***************************************************************************)
\* A frame is lost when the link is full.
Sent(frames, f) == IF Len(frames) < Capacity THEN Append(frames, f) ELSE frames

\* What may be left of the frames when the one at i has been received.
Left(frames, i) ==
    IF orderly THEN {SubSeq(frames, 2, Len(frames))}
    ELSE {RemoveAt(frames, i), frames}

Received(frames) == IF orderly /\ frames # <<>> THEN {1} ELSE DOMAIN frames

LosesFrame ==
    \/ \E i \in DOMAIN down : down' = RemoveAt(down, i) /\ UNCHANGED up
    \/ \E i \in DOMAIN up : up' = RemoveAt(up, i) /\ UNCHANGED down

(***************************************************************************)
(* The access point.                                                       *)
(***************************************************************************)
\* Its next frame, with the next counter, in the stage it is in.
ApFrame(a) ==
    CASE a.stage = "start" ->
           [kind |-> "M1", counter |-> a.counter, anonce |-> a.anonce,
            pmkid |-> IF Wpa2 /\ ~Psk THEN a.pmk ELSE NULL]
      [] a.stage = "negotiating" ->
           [kind |-> "M3", counter |-> a.counter, mic |-> a.ptk,
            gtk |-> IF Wpa2 THEN a.gtk ELSE 0]
      [] a.stage = "done" ->
           [kind |-> "G1", counter |-> a.counter, mic |-> a.ptk,
            gtk |-> a.gtk]

ApSends(a) ==
    /\ link \in {"new", "up"} /\ ap.counter < MaxCounter
    /\ LET next == [a EXCEPT !.counter = ap.counter + 1]
       IN  ap' = next /\ down' = Sent(down, ApFrame(next))

ApStarts ==
    /\ ap.pmk # NULL /\ ~ap.rekeys
    /\ ap.stage \in {"idle", "done"} /\ ap.anonce < MaxHandshakes
    /\ ApSends([ap EXCEPT !.stage = "start", !.anonce = @ + 1, !.ptk = NULL])
    /\ UNCHANGED up

ApRepeats ==
    /\ ap.stage \in {"start", "negotiating"} \/ ap.rekeys
    /\ ApSends(ap)
    /\ UNCHANGED up

ApRekeys ==
    /\ ap.stage = "done" /\ ~ap.rekeys /\ ap.gtk < MaxGtk
    /\ ApSends([ap EXCEPT !.rekeys = TRUE, !.gtk = @ + 1])
    /\ UNCHANGED up

\* An answer counts if it has the counter of the last frame.
ApReceives ==
    \E i \in Received(up) :
      LET f      == up[i]
          fresh  == f.counter = ap.counter
          expect == Ptk(ap.pmk, ap.anonce, f.snonce)
      IN  /\ up' \in Left(up, i)
          /\ \/ /\ fresh /\ ap.stage = "start" /\ f.kind = "M2"
                /\ f.mic = expect
                /\ ApSends([ap EXCEPT !.stage = "negotiating",
                                      !.ptk = expect])
             \/ /\ fresh /\ ap.stage = "negotiating" /\ f.kind = "M4"
                /\ f.mic = ap.ptk
                /\ IF Wpa2
                   THEN ap' = [ap EXCEPT !.stage = "done"] /\ UNCHANGED down
                   ELSE ApSends([ap EXCEPT !.stage = "done",
                                           !.rekeys = TRUE])
             \/ /\ fresh /\ ap.rekeys /\ f.kind = "G2" /\ f.mic = ap.ptk
                /\ ap' = [ap EXCEPT !.rekeys = FALSE] /\ UNCHANGED down

(***************************************************************************)
(* The supplicant.  Each operator gives the supplicant after a frame and   *)
(* what it answers.                                                        *)
(***************************************************************************)
Outcome(s, answers, state) == [sup |-> s, answers |-> answers, link |-> state]

Ignored(s) == Outcome(s, <<>>, "up")

Answered(s, f) == Outcome(s, <<f>>, "up")

\* What a pre-shared key is made to: the digits of a hexadecimal one are
\* never copied.
PmkOf(psk) ==
    CASE psk = "right" -> "psk" [] psk = "wrong" -> "other"
      [] psk = "hex" -> "zeros"

\* The pre-shared key is looked up for every frame, and the user interface is
\* told when it takes too long.
Prepared(s) ==
    IF ~Psk THEN s
    ELSE [s EXCEPT !.doing = TRUE, !.timer = TRUE,
                   !.pmk = IF s.psk = "none" THEN @ ELSE PmkOf(s.psk)]

\* A mutant: a missing master key goes unnoticed.
NeverLacksKey(s) == FALSE

\* WPA2 needs a pre-shared key, WPA a master key.
LacksKey(s) == Psk /\ IF Wpa2 THEN s.psk = "none" ELSE s.pmk = NULL

NotReplayed(s, f) == f.counter > s.counter \/ f.counter = 0

\* A mutant: the transient key is made without a master key.
NoKeyCheck(s, f, found) ==
    LET t   == [s EXCEPT !.snonce = @ + 1,
                         !.pmk = IF found THEN f.pmkid ELSE @]
        ptk == Ptk(t.pmk, f.anonce, t.snonce)
    IN  IF ~NotReplayed(s, f) THEN Ignored(s)
        ELSE Answered([t EXCEPT !.ptk = ptk],
                [kind |-> "M2", counter |-> f.counter, mic |-> ptk,
                 snonce |-> t.snonce])

\* Message 1: a new nonce and a new transient key.  A master key may be found
\* in the cache; WPA follows the pointer to it even if there is none.
DoType1(s, f, found) ==
    LET t   == [s EXCEPT !.snonce = @ + 1,
                         !.pmk = IF found THEN f.pmkid ELSE @]
        ptk == Ptk(t.pmk, f.anonce, t.snonce)
    IN  IF ~NotReplayed(s, f) THEN Ignored(s)
        ELSE IF t.pmk = NULL
        THEN Outcome(t, <<>>, IF Wpa2 THEN "up" ELSE "crashed")
        ELSE Answered([t EXCEPT !.ptk = ptk],
                [kind |-> "M2", counter |-> f.counter, mic |-> ptk,
                 snonce |-> t.snonce])

\* A mutant: "we don't know the index, so for now we will use 1".
AlwaysOne(gtk) == 1

\* The group key goes into the slot of its index.
KeyIndex(gtk) == gtk % 2

GtkInstalled(s, gtk) == [s EXCEPT !.gtk[KeyIndex(gtk)] = gtk]

\* A mutant: the flag is cleared and the timer left to run.
TimerLeft(s) ==
    IF s.doing THEN [s EXCEPT !.doing = FALSE, !.told = "SUCCESS"] ELSE s

PskDone(s) ==
    IF s.doing THEN [s EXCEPT !.doing = FALSE, !.timer = FALSE,
                              !.told = "SUCCESS"]
    ELSE s

\* A mutant: the replay counter is not kept.
CounterNotKept(s, f, refuses) ==
    LET m4 == [kind |-> "M4", counter |-> f.counter, mic |-> s.ptk]
        ready == [s EXCEPT !.tk = s.ptk]
    IN  IF ~NotReplayed(s, f) THEN Ignored([s EXCEPT !.doing = FALSE])
        ELSE IF refuses
        THEN Outcome([s EXCEPT !.doing = FALSE], <<m4>>, "down")
        ELSE IF Wpa2 THEN Answered(PskDone(GtkInstalled(ready, f.gtk)), m4)
        ELSE Answered([ready EXCEPT !.doing = FALSE], m4)

\* A mutant: the transient key is freed once it is in the card.
PtkFreed(s, f, refuses) ==
    LET t == [s EXCEPT !.counter = f.counter]
        m4 == [kind |-> "M4", counter |-> f.counter, mic |-> s.ptk]
        ready == [t EXCEPT !.tk = s.ptk, !.ptk = NULL]
    IN  IF ~NotReplayed(s, f) THEN Ignored([s EXCEPT !.doing = FALSE])
        ELSE IF refuses
        THEN Outcome([t EXCEPT !.doing = FALSE], <<m4>>, "down")
        ELSE IF Wpa2 THEN Answered(PskDone(GtkInstalled(ready, f.gtk)), m4)
        ELSE Answered([ready EXCEPT !.doing = FALSE], m4)

\* Message 3: the answer goes out first.  On Linux the flag is cleared even
\* if the message was discarded.
DoType3(s, f, refuses) ==
    LET t == [s EXCEPT !.counter = f.counter]
        m4 == [kind |-> "M4", counter |-> f.counter, mic |-> s.ptk]
        ready == [t EXCEPT !.tk = s.ptk]
    IN  IF ~NotReplayed(s, f) THEN Ignored([s EXCEPT !.doing = FALSE])
        ELSE IF refuses
        THEN Outcome([t EXCEPT !.doing = FALSE], <<m4>>, "down")
        ELSE IF Wpa2 THEN Answered(PskDone(GtkInstalled(ready, f.gtk)), m4)
        ELSE Answered([ready EXCEPT !.doing = FALSE], m4)

\* The counter is looked at and not kept.
DoGtk(s, f) ==
    IF ~NotReplayed(s, f) THEN Ignored(s)
    ELSE Answered(PskDone(GtkInstalled(s, f.gtk)),
            [kind |-> "G2", counter |-> f.counter, mic |-> s.ptk])

\* eapol_key_type2_determine_key, eapol_key_type254_determine_key.
DetermineKey(s, f, found, refuses) ==
    CASE f.kind = "M1" -> DoType1(s, f, found)
      [] f.kind # "M1" /\ (s.ptk = NULL \/ f.mic # s.ptk) -> Ignored(s)
      [] f.kind = "M3" /\ f.mic = s.ptk -> DoType3(s, f, refuses)
      [] f.kind = "G1" /\ f.mic = s.ptk -> DoGtk(s, f)

\* eapol_key_type2_process, eapol_key_type254_process.
Process(s, f, found, refuses) ==
    LET t == Prepared([s EXCEPT !.told = NULL])
    IN  IF LacksKey(t) THEN Outcome(t, <<>>, IF Wpa2 THEN "up" ELSE "down")
        ELSE DetermineKey(t, f, found, refuses)

\* The pass of event_core in which the machine sees a new association ends
\* with the replay counter cleared.
EndOfPass(s) == IF link = "new" THEN [s EXCEPT !.counter = 0] ELSE s

Receives ==
    \E i \in Received(down), found \in BOOLEAN, refuses \in RefusesIe :
      LET f   == down[i]
          out == Process(sup, f, found, refuses)
      IN  /\ link \in {"new", "up"}
          /\ found => f.kind = "M1" /\ f.pmkid # NULL
          /\ f.kind = "M1" => sup.snonce < MaxNonce
          /\ sup' = EndOfPass(out.sup)
          /\ link' = out.link
          /\ down' \in IF out.link = "up" THEN Left(down, i) ELSE {<<>>}
          /\ up' = IF out.answers = <<>> THEN up
                   ELSE Sent(up, out.answers[1])
          /\ UNCHANGED ap

MachineRuns ==
    /\ link = "new" /\ link' = "up"
    /\ sup' = EndOfPass(sup)
    /\ UNCHANGED <<ap, down, up>>

\* A mutant: the flag stays when the timer expires.
FlagStays ==
    /\ sup.timer
    /\ sup' = [sup EXCEPT !.timer = FALSE, !.told = "TIMEOUT"]
    /\ UNCHANGED <<link, ap, down, up>>

\* eapol_key_type2_psk_timeout.
PskTimeout ==
    /\ sup.timer
    /\ sup' = [sup EXCEPT !.doing = FALSE, !.timer = FALSE, !.told = "TIMEOUT"]
    /\ UNCHANGED <<link, ap, down, up>>

(***************************************************************************)
(* Links, master keys and the user.                                        *)
(***************************************************************************)
Reset(pmk) ==
    ap' = [ap EXCEPT !.stage = "idle", !.rekeys = FALSE, !.counter = 0,
                     !.pmk = pmk, !.ptk = NULL]

\* The netlink event: a handshake that was under way is bad news.
LinkDrops ==
    /\ link \in {"new", "up"} /\ link' = "down"
    /\ sup' = [sup EXCEPT !.doing = FALSE,
                          !.told = IF sup.doing THEN "BAD" ELSE NULL]
    /\ Reset(NULL) /\ down' = <<>> /\ up' = <<>>

\* statemachine_reinit, and the replay counter on the way to ASSOCIATING.
Reinit(s) == [s EXCEPT !.pmk = NULL, !.ptk = NULL, !.counter = 0]

\* What the access point knows of somebody who associates: with a cache, an
\* older master key as well.
KnownPmks ==
    IF Psk THEN {"psk"}
    ELSE {NULL} \cup (IF Wpa2 THEN {EapKeys[n] : n \in 1 .. ap.eaps} ELSE {})

\* The interface joins an access point, or roams to another one.  The keys in
\* the card end with the association before.
Associates ==
    \E reinit \in BOOLEAN, pmk \in KnownPmks :
        /\ IF reinit THEN link = "down" ELSE link \in {"down", "up"}
        /\ link' = "new"
        /\ LET s == [sup EXCEPT !.tk = NULL, !.gtk = [k \in {0, 1} |-> 0],
                                !.snonce = 0, !.told = NULL]
           IN  sup' = IF reinit THEN Reinit(s) ELSE s
        /\ Reset(pmk) /\ down' = <<>> /\ up' = <<>>

\* An EAP conversation on the same link, with its new master key.
EapSucceeds ==
    /\ ~Psk /\ link = "up" /\ ap.eaps < Len(EapKeys)
    /\ sup' = [sup EXCEPT !.pmk = EapKeys[ap.eaps + 1], !.told = NULL]
    /\ ap' = [ap EXCEPT !.stage = "idle", !.rekeys = FALSE, !.ptk = NULL,
                        !.eaps = @ + 1, !.pmk = EapKeys[ap.eaps + 1]]
    /\ IF orderly THEN down' = <<>> /\ up' = <<>> ELSE UNCHANGED <<down, up>>
    /\ UNCHANGED link

\* Request_Connection_Change.
ChangeConnection ==
    \E n \in Networks : \E psk \in PskOf(n) :
        /\ net' = n /\ link' = "down"
        /\ sup' = [Reinit(sup) EXCEPT !.doing = FALSE, !.timer = FALSE,
                                      !.psk = psk, !.told = NULL]
        /\ Reset(NULL) /\ down' = <<>> /\ up' = <<>>

\* Set_Connection_PW, or _UPW.
SetPassword ==
    /\ Psk
    /\ \E psk \in PskStates \cap {"right", "wrong"} :
          sup' = [sup EXCEPT !.psk = psk, !.told = NULL]
    /\ UNCHANGED <<link, ap, down, up>>

Init ==
    /\ net \in Networks /\ orderly \in Orderly /\ link = "down"
    /\ \E psk \in PskOf(net) :
          sup = [counter |-> 0, snonce |-> 0, ptk |-> NULL, pmk |-> NULL,
                 tk |-> NULL, gtk |-> [k \in {0, 1} |-> 0], doing |-> FALSE,
                 timer |-> FALSE, psk |-> psk, told |-> NULL]
    /\ ap = [stage |-> "idle", rekeys |-> FALSE, counter |-> 0, anonce |-> 0,
             pmk |-> NULL, ptk |-> NULL, gtk |-> 1, eaps |-> 0]
    /\ down = <<>> /\ up = <<>>

AccessPointActs == ApStarts \/ ApRepeats \/ ApRekeys \/ ApReceives

Next ==
    /\ UNCHANGED orderly
    /\ \/ /\ UNCHANGED net
          /\ \/ AccessPointActs /\ UNCHANGED <<link, sup>>
             \/ LosesFrame /\ UNCHANGED <<link, sup, ap>>
             \/ Receives \/ MachineRuns \/ PskTimeout
             \/ LinkDrops \/ Associates \/ EapSucceeds \/ SetPassword
       \/ ChangeConnection

Spec == Init /\ [][Next]_vars
=============================================================================

----------------------------- MODULE KeyProofs -----------------------------
(***************************************************************************)
(* Theorems of KeyHandshake, for every number of frames, nonces, keys and  *)
(* networks: what KeyProperties says of the keys and of what the user      *)
(* interface is told.                                                      *)
(***************************************************************************)
EXTENDS KeyProperties, SequenceTheorems, TLAPS

(***************************************************************************)
(* Frames on their way.                                                    *)
(***************************************************************************)
\* The counters go up from frame to frame.
Increasing(q) ==
    \A i, j \in DOMAIN q : i < j => q[i].counter < q[j].counter

\* The elements of a sequence.
LEMMA RangeOf ==
    ASSUME NEW S, NEW q \in Seq(S)
    PROVE  /\ Range(q) = {q[i] : i \in 1 .. Len(q)}
           /\ Range(q) \subseteq S
           /\ Len(q) \in Nat /\ DOMAIN q = 1 .. Len(q)
           /\ \A i \in DOMAIN q : q[i] \in Range(q)
<1>1. DOMAIN q = 1 .. Len(q) /\ Len(q) \in Nat
    BY LenProperties
<1>2. \A i \in 1 .. Len(q) : q[i] \in S
    BY ElementOfSeq
<1> QED
    BY <1>1, <1>2 DEF Range

\* What is left of a sequence without its element at i.
LEMMA Removed ==
    ASSUME NEW S, NEW q \in Seq(S), NEW i \in DOMAIN q
    PROVE  /\ RemoveAt(q, i) \in Seq(S)
           /\ Len(RemoveAt(q, i)) = Len(q) - 1
           /\ \A j \in 1 .. Len(q) - 1 :
                 RemoveAt(q, i)[j] = IF j < i THEN q[j] ELSE q[j + 1]
<1>1. i \in 1 .. Len(q) /\ Len(q) \in Nat
    BY RangeOf
<1> DEFINE a == SubSeq(q, 1, i - 1)
           b == SubSeq(q, i + 1, Len(q))
<1>2. \A j \in 1 .. Len(q) : q[j] \in S
    BY ElementOfSeq
<1>3. /\ a \in Seq(S) /\ Len(a) = i - 1
      /\ \A j \in 1 .. i - 1 : a[j] = q[j]
    <2>1. \A j \in 1 .. i - 1 : q[j] \in S
        BY <1>1, <1>2
    <2>2. /\ a \in Seq(S)
          /\ Len(a) = IF 1 <= i - 1 THEN i - 1 - 1 + 1 ELSE 0
          /\ \A j \in 1 .. i - 1 - 1 + 1 : a[j] = q[1 + j - 1]
        BY <1>1, <2>1, SubSeqProperties
    <2> QED
        BY <1>1, <2>2
<1>4. /\ b \in Seq(S) /\ Len(b) = Len(q) - i
      /\ \A j \in 1 .. Len(q) - i : b[j] = q[i + j]
    <2>1. \A j \in i + 1 .. Len(q) : q[j] \in S
        BY <1>1, <1>2
    <2>2. /\ b \in Seq(S)
          /\ Len(b) = IF i + 1 <= Len(q) THEN Len(q) - (i + 1) + 1 ELSE 0
          /\ \A j \in 1 .. Len(q) - (i + 1) + 1 : b[j] = q[i + 1 + j - 1]
        BY <1>1, <2>1, SubSeqProperties
    <2> QED
        BY <1>1, <2>2
<1>5. RemoveAt(q, i) = a \o b
    BY DEF RemoveAt
<1> HIDE DEF a, b
<1>6. /\ a \o b \in Seq(S) /\ Len(a \o b) = Len(a) + Len(b)
      /\ \A j \in 1 .. Len(a) + Len(b) :
            (a \o b)[j] = IF j <= Len(a) THEN a[j] ELSE b[j - Len(a)]
    BY <1>3, <1>4, ConcatProperties
<1>7. Len(a) + Len(b) = Len(q) - 1
    BY <1>1, <1>3, <1>4
<1>8. ASSUME NEW j \in 1 .. Len(q) - 1
      PROVE  (a \o b)[j] = IF j < i THEN q[j] ELSE q[j + 1]
    <2>1. CASE j < i
        BY <1>1, <1>3, <1>6, <1>7, <2>1
    <2>2. CASE ~ (j < i)
        <3>1. (a \o b)[j] = b[j - (i - 1)]
            BY <1>1, <1>3, <1>6, <1>7, <2>2
        <3>2. j - (i - 1) \in 1 .. Len(q) - i /\ i + (j - (i - 1)) = j + 1
            BY <1>1, <2>2
        <3>3. b[j - (i - 1)] = q[i + (j - (i - 1))]
            BY <1>4, <3>2
        <3> QED
            BY <2>2, <3>1, <3>2, <3>3
    <2> QED
        BY <2>1, <2>2
<1> QED
    BY <1>5, <1>6, <1>7, <1>8

\* A frame is lost, or taken out of its turn.
LEMMA LostFrame ==
    ASSUME NEW S, NEW q \in Seq(S), Len(q) <= Capacity, NEW i \in DOMAIN q
    PROVE  /\ RemoveAt(q, i) \in Seq(S)
           /\ Len(RemoveAt(q, i)) <= Capacity
           /\ Range(RemoveAt(q, i)) \subseteq Range(q)
           /\ Increasing(q) => Increasing(RemoveAt(q, i))
<1> DEFINE r == RemoveAt(q, i)
<1>1. /\ r \in Seq(S) /\ Len(r) = Len(q) - 1
      /\ \A j \in 1 .. Len(q) - 1 :
            r[j] = IF j < i THEN q[j] ELSE q[j + 1]
    BY Removed
<1>2. Len(q) \in Nat /\ DOMAIN q = 1 .. Len(q) /\ Capacity \in Nat
    BY RangeOf, KeyAssumption
<1>3. Range(q) = {q[j] : j \in 1 .. Len(q)}
    BY RangeOf
<1> HIDE DEF r
<1>4. Range(r) = {r[j] : j \in 1 .. Len(r)} /\ DOMAIN r = 1 .. Len(r)
    BY <1>1, RangeOf
<1>5. Range(r) \subseteq Range(q)
    BY <1>1, <1>2, <1>3, <1>4
<1>6. ASSUME Increasing(q) PROVE Increasing(r)
    <2>1. ASSUME NEW x \in DOMAIN r, NEW y \in DOMAIN r, x < y
          PROVE  r[x].counter < r[y].counter
        <3>1. x \in 1 .. Len(q) - 1 /\ y \in 1 .. Len(q) - 1
            BY <1>1, <1>4
        <3>2. \E k, l \in 1 .. Len(q) : k < l /\ r[x] = q[k] /\ r[y] = q[l]
            <4>1. CASE y < i
                BY <1>1, <1>2, <2>1, <3>1, <4>1
            <4>2. CASE x < i /\ ~ (y < i)
                <5>1. r[x] = q[x] /\ r[y] = q[y + 1]
                    BY <1>1, <3>1, <4>2
                <5>2. x \in 1 .. Len(q) /\ y + 1 \in 1 .. Len(q) /\ x < y + 1
                    BY <1>2, <2>1, <3>1
                <5> QED
                    BY <5>1, <5>2
            <4>3. CASE ~ (x < i)
                <5>1. ~ (y < i) /\ x + 1 \in 1 .. Len(q)
                      /\ y + 1 \in 1 .. Len(q) /\ x + 1 < y + 1
                    BY <1>2, <2>1, <3>1, <4>3
                <5>2. r[x] = q[x + 1] /\ r[y] = q[y + 1]
                    BY <1>1, <3>1, <4>3, <5>1
                <5> QED
                    BY <5>1, <5>2
            <4> QED
                BY <1>2, <2>1, <3>1, <4>1, <4>2, <4>3
        <3> QED
            BY <1>2, <1>6, <3>2 DEF Increasing
    <2> QED
        BY <2>1 DEF Increasing
<1> QED
    BY <1>1, <1>2, <1>5, <1>6 DEF r

\* The first frame of an orderly link is received: later ones have a greater
\* counter.
LEMMA Rest ==
    ASSUME NEW S, NEW q \in Seq(S), Len(q) <= Capacity, q # <<>>
    PROVE  /\ SubSeq(q, 2, Len(q)) \in Seq(S)
           /\ Len(SubSeq(q, 2, Len(q))) <= Capacity
           /\ Range(SubSeq(q, 2, Len(q))) \subseteq Range(q)
           /\ Increasing(q) =>
                 /\ Increasing(SubSeq(q, 2, Len(q)))
                 /\ \A f \in Range(SubSeq(q, 2, Len(q))) :
                       q[1].counter < f.counter
<1> DEFINE r == SubSeq(q, 2, Len(q))
<1>1. Len(q) \in Nat \ {0} /\ DOMAIN q = 1 .. Len(q) /\ Capacity \in Nat
    BY RangeOf, EmptySeq, KeyAssumption
<1>2. /\ r \in Seq(S) /\ Len(r) = Len(q) - 1
      /\ \A j \in 1 .. Len(q) - 1 : r[j] = q[j + 1]
    <2>1. \A j \in 2 .. Len(q) : q[j] \in S
        BY <1>1, ElementOfSeq
    <2>2. /\ r \in Seq(S)
          /\ Len(r) = IF 2 <= Len(q) THEN Len(q) - 2 + 1 ELSE 0
          /\ \A j \in 1 .. Len(q) - 2 + 1 : r[j] = q[2 + j - 1]
        BY <1>1, <2>1, SubSeqProperties
    <2> QED
        BY <1>1, <2>2
<1>3. Range(q) = {q[j] : j \in 1 .. Len(q)}
    BY RangeOf
<1> HIDE DEF r
<1>4. Range(r) = {r[j] : j \in 1 .. Len(r)} /\ DOMAIN r = 1 .. Len(r)
    BY <1>2, RangeOf
<1>5. Range(r) \subseteq Range(q)
    BY <1>1, <1>2, <1>3, <1>4
<1>6. ASSUME Increasing(q)
      PROVE  /\ Increasing(r)
             /\ \A f \in Range(r) : q[1].counter < f.counter
    <2>1. Increasing(r)
        <3>1. ASSUME NEW x \in DOMAIN r, NEW y \in DOMAIN r, x < y
              PROVE  r[x].counter < r[y].counter
            <4>1. x + 1 \in 1 .. Len(q) /\ y + 1 \in 1 .. Len(q)
                  /\ x + 1 < y + 1
                BY <1>1, <1>2, <1>4, <3>1
            <4>2. r[x] = q[x + 1] /\ r[y] = q[y + 1]
                BY <1>1, <1>2, <1>4
            <4> QED
                BY <1>1, <1>6, <4>1, <4>2 DEF Increasing
        <3> QED
            BY <3>1 DEF Increasing
    <2>2. \A j \in 1 .. Len(r) : q[1].counter < r[j].counter
        BY <1>1, <1>2, <1>6 DEF Increasing
    <2> QED
        BY <1>4, <2>1, <2>2
<1> QED
    BY <1>1, <1>2, <1>5, <1>6 DEF r

\* A frame is received.
LEMMA LeftFrames ==
    ASSUME NEW S, NEW q \in Seq(S), Len(q) <= Capacity,
           NEW i \in Received(q), NEW r \in Left(q, i)
    PROVE  /\ q[i] \in Range(q) /\ r \in Seq(S) /\ Len(r) <= Capacity
           /\ Range(r) \subseteq Range(q)
           /\ orderly /\ Increasing(q) =>
                 /\ Increasing(r)
                 /\ \A f \in Range(r) : q[i].counter < f.counter
<1>1. i \in DOMAIN q
    BY RangeOf, EmptySeq DEF Received
<1>2. q[i] \in Range(q)
    BY <1>1, RangeOf
<1>3. CASE orderly
    <2>1. q # <<>> /\ i = 1 /\ r = SubSeq(q, 2, Len(q))
        BY <1>1, <1>3, RangeOf, EmptySeq DEF Received, Left
    <2> QED
        BY <1>2, <2>1, Rest
<1>4. CASE ~orderly
    BY <1>1, <1>2, <1>4, LostFrame DEF Left
<1> QED
    BY <1>3, <1>4

\* A frame is sent: it may be lost.
LEMMA SentFrame ==
    ASSUME NEW S, NEW q \in Seq(S), Len(q) <= Capacity, NEW f \in S
    PROVE  /\ Sent(q, f) \in Seq(S) /\ Len(Sent(q, f)) <= Capacity
           /\ Range(Sent(q, f)) \subseteq Range(q) \cup {f}
           /\ Increasing(q) /\ (\A x \in Range(q) : x.counter < f.counter)
                 => Increasing(Sent(q, f))
<1> DEFINE r == Append(q, f)
<1>1. Len(q) \in Nat /\ DOMAIN q = 1 .. Len(q) /\ Capacity \in Nat
    BY RangeOf, KeyAssumption
<1>2. /\ r \in Seq(S) /\ Len(r) = Len(q) + 1
      /\ \A j \in 1 .. Len(q) : r[j] = q[j]
      /\ r[Len(q) + 1] = f
    BY <1>1
<1>3. Range(q) = {q[j] : j \in 1 .. Len(q)}
    BY RangeOf
<1> HIDE DEF r
<1>4. Range(r) = {r[j] : j \in 1 .. Len(r)} /\ DOMAIN r = 1 .. Len(r)
    BY <1>2, RangeOf
<1>5. Range(r) \subseteq Range(q) \cup {f}
    BY <1>1, <1>2, <1>3, <1>4
<1>6. ASSUME Increasing(q), \A x \in Range(q) : x.counter < f.counter
      PROVE  Increasing(r)
    <2>1. \A j \in 1 .. Len(q) : q[j].counter < f.counter
        BY <1>3, <1>6
    <2> QED
        BY <1>1, <1>2, <1>4, <1>6, <2>1 DEF Increasing
<1>7. CASE Len(q) < Capacity
    <2>1. Sent(q, f) = r
        BY <1>7 DEF Sent, r
    <2> QED
        BY <1>1, <1>2, <1>5, <1>6, <1>7, <2>1
<1>8. CASE ~ (Len(q) < Capacity)
    BY <1>8 DEF Sent
<1> QED
    BY <1>7, <1>8

\* No frame is on its way.
LEMMA NoFrames ==
    /\ \A S : <<>> \in Seq(S)
    /\ Len(<<>>) = 0 /\ 0 <= Capacity
    /\ Range(<<>>) = {} /\ Increasing(<<>>)
BY EmptySeq, KeyAssumption DEF Range, Increasing

(***************************************************************************)
(* The inductive invariant.                                                *)
(***************************************************************************)
ToSup == Range(down)
FromSup == Range(up)

\* Before the machine has seen the association nothing has been answered.
NewIsQuiet ==
    link = "new" =>
        /\ up = <<>> /\ ap.stage \in {"idle", "start"}
        /\ \A f \in ToSup : f.kind = "M1"

\* Counters are those of frames the access point sent, which count from one.
Counted ==
    /\ \A f \in ToSup : 0 < f.counter /\ f.counter <= ap.counter
    /\ \A g \in FromSup : g.counter <= ap.counter
    /\ Up => sup.counter <= ap.counter

\* The access point has a master key when it starts, a transient key from
\* message 2 on, and group handshakes afterwards only.
Keyed ==
    /\ ap.stage # "idle" => ap.pmk # NULL
    /\ ap.stage \in {"negotiating", "done"} => ap.ptk \in Ptks
    /\ ap.rekeys => ap.stage = "done"

\* With WPA and EAP nothing is sent before there is a master key.
MasterKnown ==
    ~Psk /\ ~Wpa2 /\ (ToSup # {} \/ ap.pmk # NULL) => sup.pmk # NULL

\* A message 4 that will count was sent by a supplicant that still has the
\* keys, and whose counter makes older frames replays.
Message4Counts ==
    Up /\ ap.stage = "negotiating" =>
        \A g \in FromSup : g.kind = "M4" /\ g.counter = ap.counter
                            /\ g.mic = ap.ptk
            => sup.counter = ap.counter /\ sup.tk = ap.ptk /\ sup.ptk = ap.ptk

OldAreReplays ==
    Up /\ ap.stage = "done" =>
        \A f \in ToSup : f.kind \in {"M1", "M3"} => f.counter <= sup.counter

\* The last frame of a handshake has the group key of the access point.
CarriesGroupKey(f) ==
    \/ f.kind = "M3" /\ Wpa2 /\ ap.stage = "negotiating"
    \/ f.kind = "G1" /\ ap.rekeys

LastHasGroupKey ==
    \A f \in ToSup :
        f.counter = ap.counter /\ CarriesGroupKey(f) => f.gtk = ap.gtk

\* The user interface waits for no verdict with EAP.
EapIsUntimed == ~Psk => ~sup.doing /\ ~sup.timer

\* On an orderly link an answer comes after the frames before it.
InOrder ==
    orderly => /\ Increasing(down)
               /\ \A g \in FromSup, f \in ToSup : g.counter < f.counter

GroupInstalled ==
    sup.gtk[ap.gtk % 2] = ap.gtk /\ ~sup.doing /\ ~sup.timer

Completes(g) ==
    \/ g.kind = "M4" /\ Wpa2 /\ ap.stage = "negotiating"
    \/ g.kind = "G2" /\ ap.rekeys

OrderlyAnswers ==
    orderly /\ Up =>
        \A g \in FromSup : g.counter = ap.counter =>
            /\ g.kind = "M2" => sup.ptk = g.mic
            /\ Completes(g) => GroupInstalled

OrderlyStages ==
    orderly /\ Up =>
        /\ ap.stage = "negotiating" =>
              sup.ptk = ap.ptk /\ \A f \in ToSup : f.kind # "M1"
        /\ ap.stage = "done" /\ ~ap.rekeys => down = <<>> /\ GroupInstalled

Safe ==
    /\ TypeOK /\ NewIsQuiet /\ Counted /\ Keyed /\ MasterKnown
    /\ Message4Counts /\ OldAreReplays /\ SharedKey
    /\ LastHasGroupKey /\ EapIsUntimed /\ DoingIsTimed /\ MasterKeyIsThere

Invariant == Safe /\ InOrder /\ OrderlyAnswers /\ OrderlyStages

(***************************************************************************)
(* The supplicant's answer to a frame.                                     *)
(***************************************************************************)
SameKeys(s, t) ==
    t.ptk = s.ptk /\ t.tk = s.tk /\ t.counter = s.counter /\ t.gtk = s.gtk

\* The flag has its timer, and neither is there with EAP.
TimerOk(s) == (s.doing => s.timer) /\ (Psk \/ (~s.doing /\ ~s.timer))

\* The user interface is told anew, and the pre-shared key is looked up.
LEMMA PreparedOk ==
    ASSUME NEW s \in Supplicants, NEW t, t = Prepared([s EXCEPT !.told = NULL])
    PROVE  /\ t \in Supplicants /\ SameKeys(s, t) /\ t.snonce = s.snonce
           /\ TimerOk(s) => TimerOk(t)
           /\ Psk => t.doing /\ t.timer
           /\ t.pmk = NULL => s.pmk = NULL
<1> DEFINE r == [s EXCEPT !.told = NULL]
<1>1. /\ r \in Supplicants /\ SameKeys(s, r) /\ r.snonce = s.snonce
      /\ r.doing = s.doing /\ r.timer = s.timer /\ r.pmk = s.pmk
      /\ r.psk = s.psk
    BY DEF Supplicants, SameKeys
<1> HIDE DEF r
<1>2. CASE ~Psk
    <2>1. t = r
        BY <1>2 DEF Prepared, r
    <2> QED
        BY <1>1, <1>2, <2>1 DEF TimerOk
<1>3. CASE Psk
    <2> DEFINE key == IF r.psk = "none" THEN r.pmk ELSE PmkOf(r.psk)
    <2>1. key \in Pmks \cup {NULL} /\ (key = NULL => r.pmk = NULL)
        BY <1>1, KeyAssumption, PmksAssumption
        DEF Supplicants, PmkOf, Pmks
    <2>2. t = [r EXCEPT !.doing = TRUE, !.timer = TRUE, !.pmk = key]
        BY <1>3 DEF Prepared, r
    <2> HIDE DEF key
    <2>3. /\ t \in Supplicants /\ SameKeys(r, t) /\ t.snonce = r.snonce
          /\ t.doing /\ t.timer /\ t.pmk = key
        BY <1>1, <2>1, <2>2 DEF Supplicants, SameKeys
    <2> QED
        BY <1>1, <1>3, <2>1, <2>3 DEF TimerOk, SameKeys
<1> QED
    BY <1>2, <1>3

\* What may come of a frame: it is ignored, ...
Ignores(s, out) == out.answers = <<>> /\ SameKeys(s, out.sup)

\* ... message 1 makes a transient key and is answered with it, ...
AnswersM1(s, f, out, m) ==
    /\ f.kind = "M1" /\ NotReplayed(s, f) /\ out.link = "up"
    /\ out.answers = <<m>> /\ m.kind = "M2"
    /\ out.sup.ptk = m.mic
    /\ out.sup.tk = s.tk /\ out.sup.counter = s.counter
    /\ out.sup.gtk = s.gtk

\* ... message 3 installs it, and in WPA2 the group key, ...
AnswersM3(s, f, out, m) ==
    /\ f.kind = "M3" /\ NotReplayed(s, f) /\ out.link = "up"
    /\ out.answers = <<m>> /\ m.kind = "M4" /\ m.mic = s.ptk
    /\ out.sup.ptk = s.ptk /\ out.sup.tk = s.ptk
    /\ out.sup.counter = f.counter
    /\ Wpa2 => /\ out.sup.gtk[f.gtk % 2] = f.gtk
               /\ ~out.sup.doing /\ ~out.sup.timer

\* ... or is refused, and the link is given up, ...
RefusesM3(f, out, m) ==
    f.kind = "M3" /\ out.link = "down" /\ out.answers = <<m>>

\* ... and the group message installs the group key.
AnswersG1(s, f, out, m) ==
    /\ f.kind = "G1" /\ NotReplayed(s, f) /\ out.link = "up"
    /\ out.answers = <<m>> /\ m.kind = "G2"
    /\ out.sup.ptk = s.ptk /\ out.sup.tk = s.tk
    /\ out.sup.counter = s.counter
    /\ out.sup.gtk[f.gtk % 2] = f.gtk
    /\ ~out.sup.doing /\ ~out.sup.timer

AnswersFrame(s, f, out) ==
    \/ Ignores(s, out)
    \/ \E m \in Answers :
          /\ m.counter = f.counter
          /\ \/ AnswersM1(s, f, out, m) \/ AnswersM3(s, f, out, m)
             \/ RefusesM3(f, out, m) \/ AnswersG1(s, f, out, m)

\* A timed supplicant with a flag has both cleared.
LEMMA PskDoneOk ==
    ASSUME NEW s \in Supplicants, TimerOk(s), Psk => s.doing
    PROVE  /\ PskDone(s) \in Supplicants /\ SameKeys(s, PskDone(s))
           /\ ~PskDone(s).doing /\ ~PskDone(s).timer
           /\ PskDone(s).pmk = s.pmk /\ TimerOk(PskDone(s))
<1>1. CASE s.doing
    <2>1. PskDone(s) = [s EXCEPT !.doing = FALSE, !.timer = FALSE,
                                 !.told = "SUCCESS"]
        BY <1>1 DEF PskDone
    <2> QED
        BY <2>1 DEF Supplicants, SameKeys, TimerOk
<1>2. CASE ~s.doing
    <2>1. PskDone(s) = s
        BY <1>2 DEF PskDone
    <2> QED
        BY <1>2, <2>1 DEF SameKeys, TimerOk
<1> QED
    BY <1>1, <1>2

LEMMA GtkInstalledOk ==
    ASSUME NEW s \in Supplicants, NEW gtk \in 0 .. MaxGtk
    PROVE  LET t == GtkInstalled(s, gtk)
           IN  /\ t \in Supplicants /\ t.gtk[gtk % 2] = gtk
               /\ t.ptk = s.ptk /\ t.tk = s.tk /\ t.counter = s.counter
               /\ t.doing = s.doing /\ t.timer = s.timer /\ t.pmk = s.pmk
<1>1. gtk % 2 \in {0, 1}
    BY KeyAssumption
<1> DEFINE slots == [s.gtk EXCEPT ![gtk % 2] = gtk]
<1>2. GtkInstalled(s, gtk) = [s EXCEPT !.gtk = slots]
    BY DEF GtkInstalled, KeyIndex
<1>3. slots \in [{0, 1} -> 0 .. MaxGtk] /\ slots[gtk % 2] = gtk
    BY <1>1 DEF Supplicants
<1> HIDE DEF slots
<1> QED
    BY <1>2, <1>3 DEF Supplicants

\* What a frame may not do: leave a flag without its timer, forget a master
\* key, or make the program follow a NULL pointer unless WPA misses one.
Outcomes(s, f, out) ==
    /\ out.sup \in Supplicants /\ TimerOk(out.sup)
    /\ out.sup.pmk = NULL => s.pmk = NULL
    /\ out.link \in {"up", "down", "crashed"}
    /\ out.link = "crashed" => ~Psk /\ ~Wpa2 /\ s.pmk = NULL
    /\ AnswersFrame(s, f, out)

LEMMA FrameFields ==
    ASSUME NEW f \in Frames
    PROVE  /\ f.kind \in {"M1", "M3", "G1"} /\ f.counter \in 0 .. MaxCounter
           /\ f.kind = "M1" => /\ f.anonce \in 0 .. MaxHandshakes
                               /\ f.pmkid \in Pmks \cup {NULL}
           /\ f.kind # "M1" => f.mic \in Ptks /\ f.gtk \in 0 .. MaxGtk
BY DEF Frames

LEMMA NullIsNoPtk == NULL \notin Ptks
BY PmksAssumption

\* Message 1.
LEMMA DoType1Ok ==
    ASSUME NEW s \in Supplicants, TimerOk(s), NEW f \in Frames,
           f.kind = "M1", NEW found \in BOOLEAN, found => f.pmkid # NULL,
           s.snonce < MaxNonce, Psk /\ ~Wpa2 => s.pmk # NULL
    PROVE  Outcomes(s, f, DoType1(s, f, found))
<1> DEFINE pmk == IF found THEN f.pmkid ELSE s.pmk
           snonce == s.snonce + 1
           t == [s EXCEPT !.snonce = @ + 1,
                          !.pmk = IF found THEN f.pmkid ELSE @]
           ptk == Ptk(t.pmk, f.anonce, t.snonce)
           m == [kind |-> "M2", counter |-> f.counter, mic |-> ptk,
                 snonce |-> t.snonce]
           out == DoType1(s, f, found)
<1>1. /\ f.counter \in 0 .. MaxCounter /\ f.anonce \in 0 .. MaxHandshakes
      /\ f.pmkid \in Pmks \cup {NULL}
    BY FrameFields
<1>2. snonce \in 0 .. MaxNonce
    BY KeyAssumption DEF Supplicants
<1>3. pmk \in Pmks \cup {NULL} /\ (pmk = NULL => s.pmk = NULL)
    BY <1>1 DEF Supplicants
<1>4. t = [s EXCEPT !.snonce = snonce, !.pmk = pmk]
    BY DEF Supplicants
<1> HIDE DEF snonce, pmk
<1>5. /\ t \in Supplicants /\ TimerOk(t) /\ SameKeys(s, t)
      /\ t.pmk = pmk /\ t.snonce = snonce
    BY <1>2, <1>3, <1>4 DEF Supplicants, TimerOk, SameKeys
<1> HIDE DEF t
<1>6. CASE ~NotReplayed(s, f)
    <2>1. out = Ignored(s)
        BY <1>6 DEF DoType1
    <2> QED
        BY <2>1 DEF Ignored, Outcome, Outcomes, AnswersFrame, Ignores,
                    SameKeys
<1>7. CASE NotReplayed(s, f) /\ t.pmk = NULL
    <2>1. out = Outcome(t, <<>>, IF Wpa2 THEN "up" ELSE "crashed")
        BY <1>7 DEF DoType1, t
    <2> QED
        BY <1>3, <1>5, <1>7, <2>1
        DEF Outcome, Outcomes, AnswersFrame, Ignores
<1>8. CASE NotReplayed(s, f) /\ t.pmk # NULL
    <2>1. out = Answered([t EXCEPT !.ptk = ptk], m)
        BY <1>8 DEF DoType1, t
    <2>2. ptk \in Ptks
        BY <1>1, <1>2, <1>3, <1>5, <1>8 DEF Ptks, Ptk
    <2>3. m \in Answers /\ m.kind = "M2" /\ m.counter = f.counter
          /\ m.mic = ptk
        BY <1>1, <1>2, <1>5, <2>2 DEF Answers
    <2> HIDE DEF ptk, m
    <2>4. /\ out.sup = [t EXCEPT !.ptk = ptk] /\ out.answers = <<m>>
          /\ out.link = "up"
        BY <2>1 DEF Answered, Outcome
    <2>5. /\ out.sup \in Supplicants /\ TimerOk(out.sup)
          /\ out.sup.ptk = ptk /\ out.sup.tk = t.tk
          /\ out.sup.counter = t.counter /\ out.sup.gtk = t.gtk
          /\ out.sup.pmk = t.pmk
        BY <1>5, <2>2, <2>4 DEF Supplicants, TimerOk
    <2> HIDE DEF out
    <2>6. AnswersM1(s, f, out, m)
        BY <1>5, <1>8, <2>3, <2>4, <2>5 DEF AnswersM1, SameKeys
    <2> QED
        BY <1>5, <1>8, <2>3, <2>4, <2>5, <2>6 DEF Outcomes, AnswersFrame, out
<1> QED
    BY <1>6, <1>7, <1>8

\* Message 3, authenticated.
LEMMA DoType3Ok ==
    ASSUME NEW s \in Supplicants, TimerOk(s), Psk => s.doing,
           NEW f \in Frames, f.kind = "M3", f.mic = s.ptk,
           NEW refuses \in BOOLEAN
    PROVE  Outcomes(s, f, DoType3(s, f, refuses))
<1> DEFINE t == [s EXCEPT !.counter = f.counter]
           m == [kind |-> "M4", counter |-> f.counter, mic |-> s.ptk]
           ready == [t EXCEPT !.tk = s.ptk]
           out == DoType3(s, f, refuses)
<1>1. /\ f.counter \in 0 .. MaxCounter /\ f.mic \in Ptks
      /\ f.gtk \in 0 .. MaxGtk
    BY FrameFields
<1>2. /\ t \in Supplicants /\ TimerOk(t) /\ t.counter = f.counter
      /\ t.ptk = s.ptk /\ t.pmk = s.pmk /\ t.doing = s.doing
    BY <1>1 DEF Supplicants, TimerOk
<1>3. m \in Answers /\ m.kind = "M4" /\ m.counter = f.counter
      /\ m.mic = s.ptk
    BY <1>1 DEF Answers
<1>4. /\ ready \in Supplicants /\ TimerOk(ready) /\ ready.counter = f.counter
      /\ ready.ptk = s.ptk /\ ready.tk = s.ptk /\ ready.pmk = s.pmk
      /\ ready.doing = s.doing
    BY <1>1, <1>2 DEF Supplicants, TimerOk
<1>5. \A u \in Supplicants : TimerOk(u) =>
          /\ [u EXCEPT !.doing = FALSE] \in Supplicants
          /\ TimerOk([u EXCEPT !.doing = FALSE])
          /\ SameKeys(u, [u EXCEPT !.doing = FALSE])
          /\ [u EXCEPT !.doing = FALSE].pmk = u.pmk
    BY DEF Supplicants, TimerOk, SameKeys
<1>6. CASE ~NotReplayed(s, f)
    <2>1. out = Ignored([s EXCEPT !.doing = FALSE])
        BY <1>6 DEF DoType3
    <2> DEFINE u == [s EXCEPT !.doing = FALSE]
    <2>2. /\ u \in Supplicants /\ TimerOk(u) /\ SameKeys(s, u)
          /\ u.pmk = s.pmk
        BY <1>5
    <2>3. out = Ignored(u)
        BY <2>1
    <2> HIDE DEF u, out
    <2>4. out.sup = u /\ out.answers = <<>> /\ out.link = "up"
        BY <2>3 DEF Ignored, Outcome
    <2> QED
        BY <2>2, <2>4 DEF Outcomes, AnswersFrame, Ignores, out
<1>7. CASE NotReplayed(s, f) /\ refuses
    <2>1. out = Outcome([t EXCEPT !.doing = FALSE], <<m>>, "down")
        BY <1>7 DEF DoType3
    <2> DEFINE u == [t EXCEPT !.doing = FALSE]
    <2>2. u \in Supplicants /\ TimerOk(u) /\ u.pmk = t.pmk
        BY <1>2, <1>5
    <2>3. out = Outcome(u, <<m>>, "down")
        BY <2>1
    <2> HIDE DEF u, m, t, out
    <2>4. out.sup = u /\ out.answers = <<m>> /\ out.link = "down"
        BY <2>3 DEF Outcome
    <2>5. RefusesM3(f, out, m)
        BY <2>4 DEF RefusesM3
    <2> QED
        BY <1>2, <1>3, <2>2, <2>4, <2>5 DEF Outcomes, AnswersFrame, out
<1>8. CASE NotReplayed(s, f) /\ ~refuses /\ Wpa2
    <2> DEFINE g == GtkInstalled(ready, f.gtk)
               d == PskDone(g)
    <2>1. out = Answered(d, m)
        BY <1>8 DEF DoType3
    <2> HIDE DEF m, t, ready
    <2>2. /\ g \in Supplicants /\ g.gtk[f.gtk % 2] = f.gtk
          /\ g.ptk = s.ptk /\ g.tk = s.ptk /\ g.counter = f.counter
          /\ g.doing = s.doing /\ TimerOk(g) /\ g.pmk = s.pmk
        BY <1>1, <1>4, GtkInstalledOk DEF TimerOk
    <2> HIDE DEF g
    <2>3. /\ d \in Supplicants /\ SameKeys(g, d) /\ ~d.doing /\ ~d.timer
          /\ d.pmk = g.pmk /\ TimerOk(d)
        BY <2>2, PskDoneOk
    <2> HIDE DEF d
    <2>4. out.sup = d /\ out.answers = <<m>> /\ out.link = "up"
        BY <2>1 DEF Answered, Outcome
    <2> HIDE DEF out
    <2>5. AnswersM3(s, f, out, m)
        BY <1>3, <1>8, <2>2, <2>3, <2>4 DEF AnswersM3, SameKeys
    <2> QED
        BY <1>3, <2>2, <2>3, <2>4, <2>5 DEF Outcomes, AnswersFrame, out
<1>9. CASE NotReplayed(s, f) /\ ~refuses /\ ~Wpa2
    <2> DEFINE d == [ready EXCEPT !.doing = FALSE]
    <2>1. out = Answered(d, m)
        BY <1>9 DEF DoType3
    <2> HIDE DEF m, t, ready
    <2>2. /\ d \in Supplicants /\ TimerOk(d) /\ SameKeys(ready, d)
          /\ d.pmk = ready.pmk
        BY <1>4, <1>5
    <2> HIDE DEF d
    <2>3. out.sup = d /\ out.answers = <<m>> /\ out.link = "up"
        BY <2>1 DEF Answered, Outcome
    <2> HIDE DEF out
    <2>4. AnswersM3(s, f, out, m)
        BY <1>3, <1>4, <1>9, <2>2, <2>3 DEF AnswersM3, SameKeys
    <2> QED
        BY <1>3, <1>4, <2>2, <2>3, <2>4 DEF Outcomes, AnswersFrame, out
<1> QED
    BY <1>6, <1>7, <1>8, <1>9

\* The group message, authenticated.
LEMMA DoGtkOk ==
    ASSUME NEW s \in Supplicants, TimerOk(s), Psk => s.doing,
           NEW f \in Frames, f.kind = "G1", f.mic = s.ptk
    PROVE  Outcomes(s, f, DoGtk(s, f))
<1> DEFINE m == [kind |-> "G2", counter |-> f.counter, mic |-> s.ptk]
           g == GtkInstalled(s, f.gtk)
           d == PskDone(g)
           out == DoGtk(s, f)
<1>1. /\ f.counter \in 0 .. MaxCounter /\ f.mic \in Ptks
      /\ f.gtk \in 0 .. MaxGtk
    BY FrameFields
<1>2. m \in Answers /\ m.kind = "G2" /\ m.counter = f.counter
    BY <1>1 DEF Answers
<1>3. CASE ~NotReplayed(s, f)
    <2>1. out = Ignored(s)
        BY <1>3 DEF DoGtk
    <2> QED
        BY <2>1 DEF Ignored, Outcome, Outcomes, AnswersFrame, Ignores,
                    SameKeys
<1>4. CASE NotReplayed(s, f)
    <2>1. out = Answered(d, m)
        BY <1>4 DEF DoGtk
    <2> HIDE DEF m
    <2>2. /\ g \in Supplicants /\ g.gtk[f.gtk % 2] = f.gtk
          /\ g.ptk = s.ptk /\ g.tk = s.tk /\ g.counter = s.counter
          /\ g.doing = s.doing /\ TimerOk(g) /\ g.pmk = s.pmk
        BY <1>1, GtkInstalledOk DEF TimerOk
    <2> HIDE DEF g
    <2>3. /\ d \in Supplicants /\ SameKeys(g, d) /\ ~d.doing /\ ~d.timer
          /\ d.pmk = g.pmk /\ TimerOk(d)
        BY <2>2, PskDoneOk
    <2> HIDE DEF d
    <2>4. out.sup = d /\ out.answers = <<m>> /\ out.link = "up"
        BY <2>1 DEF Answered, Outcome
    <2> HIDE DEF out
    <2>5. AnswersG1(s, f, out, m)
        BY <1>2, <1>4, <2>2, <2>3, <2>4 DEF AnswersG1, SameKeys
    <2> QED
        BY <1>2, <2>2, <2>3, <2>4, <2>5 DEF Outcomes, AnswersFrame, out
<1> QED
    BY <1>3, <1>4

\* Any frame.
LEMMA ProcessOk ==
    ASSUME NEW s \in Supplicants, TimerOk(s), NEW f \in Frames,
           NEW found \in BOOLEAN, NEW refuses \in BOOLEAN,
           found => f.kind = "M1" /\ f.pmkid # NULL,
           f.kind = "M1" => s.snonce < MaxNonce
    PROVE  Outcomes(s, f, Process(s, f, found, refuses))
<1> DEFINE t == Prepared([s EXCEPT !.told = NULL])
           out == Process(s, f, found, refuses)
<1>1. /\ t \in Supplicants /\ SameKeys(s, t) /\ t.snonce = s.snonce
      /\ TimerOk(t) /\ (Psk => t.doing /\ t.timer)
      /\ t.pmk = NULL => s.pmk = NULL
    BY PreparedOk
<1>2. out = IF LacksKey(t)
            THEN Outcome(t, <<>>, IF Wpa2 THEN "up" ELSE "down")
            ELSE DetermineKey(t, f, found, refuses)
    BY DEF Process
<1> HIDE DEF t, out
<1>3. CASE LacksKey(t)
    <2>1. /\ out.sup = t /\ out.answers = <<>>
          /\ out.link \in {"up", "down"}
        BY <1>2, <1>3 DEF Outcome
    <2> QED
        BY <1>1, <2>1 DEF Outcomes, AnswersFrame, Ignores, out
<1>4. CASE ~LacksKey(t)
    <2> DEFINE o == DetermineKey(t, f, found, refuses)
    <2>1. Psk /\ ~Wpa2 => t.pmk # NULL
        BY <1>4 DEF LacksKey
    <2>2. f.kind \in {"M1", "M3", "G1"}
        BY FrameFields
    <2>3. Outcomes(t, f, o)
        <3>1. CASE f.kind = "M1"
            <4>1. o = DoType1(t, f, found)
                BY <3>1 DEF DetermineKey
            <4>2. t.snonce < MaxNonce
                BY <1>1, <3>1
            <4> QED
                BY <1>1, <2>1, <3>1, <4>1, <4>2, DoType1Ok
        <3>2. CASE f.kind # "M1" /\ (t.ptk = NULL \/ f.mic # t.ptk)
            <4>1. f.kind # "M1" /\ o = Ignored(t)
                BY <2>2, <3>2, FrameFields, NullIsNoPtk DEF DetermineKey
            <4> QED
                BY <1>1, <4>1 DEF Ignored, Outcome, Outcomes, AnswersFrame,
                                  Ignores, SameKeys
        <3>3. CASE f.kind = "M3" /\ f.mic = t.ptk
            <4>1. o = DoType3(t, f, refuses)
                BY <3>3, FrameFields, NullIsNoPtk DEF DetermineKey
            <4> QED
                BY <1>1, <3>3, <4>1, DoType3Ok
        <3>4. CASE f.kind = "G1" /\ f.mic = t.ptk
            <4>1. o = DoGtk(t, f)
                BY <3>4, FrameFields, NullIsNoPtk DEF DetermineKey
            <4> QED
                BY <1>1, <3>4, <4>1, DoGtkOk
        <3> QED
            BY <2>2, <3>1, <3>2, <3>3, <3>4
    <2>4. out = o
        BY <1>2, <1>4
    <2> HIDE DEF o
    <2>5. NotReplayed(t, f) = NotReplayed(s, f)
        BY <1>1 DEF NotReplayed, SameKeys
    <2>6. AnswersFrame(s, f, o)
        <3>1. CASE Ignores(t, o)
            BY <1>1, <3>1 DEF AnswersFrame, Ignores, SameKeys
        <3>2. ASSUME NEW m \in Answers, m.counter = f.counter,
                     \/ AnswersM1(t, f, o, m) \/ AnswersM3(t, f, o, m)
                     \/ RefusesM3(f, o, m) \/ AnswersG1(t, f, o, m)
              PROVE  AnswersFrame(s, f, o)
            <4>1. \/ AnswersM1(s, f, o, m) \/ AnswersM3(s, f, o, m)
                  \/ RefusesM3(f, o, m) \/ AnswersG1(s, f, o, m)
                BY <1>1, <2>5, <3>2
                DEF AnswersM1, AnswersM3, AnswersG1, SameKeys
            <4> QED
                BY <3>2, <4>1 DEF AnswersFrame
        <3> QED
            BY <2>3, <3>1, <3>2 DEF Outcomes, AnswersFrame
    <2> QED
        BY <1>1, <2>3, <2>4, <2>6 DEF Outcomes, out
<1> QED
    BY <1>3, <1>4

(***************************************************************************)
(* The access point sends a frame.                                         *)
(***************************************************************************)
SentBy(a, f) ==
    /\ f.counter = ap.counter + 1
    /\ a.stage = "start" => f.kind = "M1"
    /\ a.stage = "negotiating" => f.kind = "M3" /\ (Wpa2 => f.gtk = a.gtk)
    /\ a.stage = "done" => f.kind = "G1" /\ f.gtk = a.gtk

\* The frame of the stage the access point is in, with the next counter.
LEMMA ApSendsOk ==
    ASSUME TypeOK, NEW a \in AccessPoints, ApSends(a),
           a.stage \in {"start", "negotiating", "done"},
           a.stage # "start" => a.ptk \in Ptks
    PROVE  /\ link \in {"new", "up"} /\ ap' \in AccessPoints
           /\ ap'.stage = a.stage /\ ap'.rekeys = a.rekeys
           /\ ap'.counter = ap.counter + 1 /\ ap'.pmk = a.pmk
           /\ ap'.ptk = a.ptk /\ ap'.gtk = a.gtk
           /\ \E f \in Frames : SentBy(a, f) /\ down' = Sent(down, f)
<1> DEFINE counter == ap.counter + 1
           next == [a EXCEPT !.counter = counter]
           f == ApFrame(next)
<1>1. /\ link \in {"new", "up"} /\ ap' = next /\ down' = Sent(down, f)
      /\ ap.counter < MaxCounter
    BY DEF ApSends
<1>2. counter \in 0 .. MaxCounter
    BY <1>1, KeyAssumption DEF TypeOK, AccessPoints
<1> HIDE DEF counter
<1>3. /\ next \in AccessPoints /\ next.counter = counter
      /\ next.stage = a.stage /\ next.rekeys = a.rekeys
      /\ next.pmk = a.pmk /\ next.ptk = a.ptk /\ next.gtk = a.gtk
      /\ next.anonce = a.anonce
    BY <1>2 DEF AccessPoints
<1> HIDE DEF next
<1>4. /\ a.pmk \in Pmks \cup {NULL} /\ a.anonce \in 0 .. MaxHandshakes
      /\ a.gtk \in 1 .. MaxGtk
    BY DEF AccessPoints
<1>5. CASE a.stage = "start"
    <2> DEFINE id == IF Wpa2 /\ ~Psk THEN a.pmk ELSE NULL
    <2>1. f = [kind |-> "M1", counter |-> counter, anonce |-> a.anonce,
               pmkid |-> id]
        BY <1>3, <1>5 DEF ApFrame
    <2>2. id \in Pmks \cup {NULL}
        BY <1>4
    <2> HIDE DEF id, f
    <2>3. f \in Frames /\ f.kind = "M1" /\ f.counter = counter
        BY <1>2, <1>4, <2>1, <2>2 DEF Frames
    <2> QED
        BY <1>1, <1>3, <1>5, <2>3 DEF SentBy, counter
<1>6. CASE a.stage = "negotiating"
    <2> DEFINE key == IF Wpa2 THEN a.gtk ELSE 0
    <2>1. f = [kind |-> "M3", counter |-> counter, mic |-> a.ptk,
               gtk |-> key]
        BY <1>3, <1>6 DEF ApFrame
    <2>2. key \in 0 .. MaxGtk /\ (Wpa2 => key = a.gtk)
        BY <1>4, KeyAssumption
    <2> HIDE DEF key, f
    <2>3. /\ f \in Frames /\ f.kind = "M3" /\ f.counter = counter
          /\ f.gtk = key
        BY <1>2, <1>6, <2>1, <2>2 DEF Frames
    <2> QED
        BY <1>1, <1>3, <1>6, <2>2, <2>3 DEF SentBy, counter
<1>7. CASE a.stage = "done"
    <2>1. f = [kind |-> "G1", counter |-> counter, mic |-> a.ptk,
               gtk |-> a.gtk]
        BY <1>3, <1>7 DEF ApFrame
    <2>2. a.gtk \in 0 .. MaxGtk
        BY <1>4, KeyAssumption
    <2> HIDE DEF f
    <2>3. /\ f \in Frames /\ f.kind = "G1" /\ f.counter = counter
          /\ f.gtk = a.gtk
        BY <1>2, <1>7, <2>1, <2>2 DEF Frames
    <2> QED
        BY <1>1, <1>3, <1>7, <2>3 DEF SentBy, counter
<1> QED
    BY <1>5, <1>6, <1>7

\* A frame with a new counter leaves no answer that would count.
LEMMA NewFrameOk ==
    ASSUME Invariant, NEW a \in AccessPoints, ApSends(a),
           UNCHANGED <<net, orderly, link, sup>>,
           a.stage \in {"start", "negotiating", "done"},
           a.stage # "start" => a.ptk \in Ptks,
           a.pmk = ap.pmk, ap.pmk # NULL,
           a.rekeys <=> a.stage = "done",
           link = "new" => a.stage = "start" /\ up' = <<>>,
           up' \in Seq(Answers), Len(up') <= Capacity,
           Range(up') \subseteq Range(up),
           Up /\ a.stage = "done" =>
               /\ sup.tk = a.ptk /\ sup.ptk = a.ptk
               /\ \A f \in ToSup :
                     f.kind \in {"M1", "M3"} => f.counter <= sup.counter,
           orderly /\ Up /\ a.stage = "negotiating" =>
               sup.ptk = a.ptk /\ \A f \in ToSup : f.kind # "M1"
    PROVE  Invariant'
<1>1. /\ TypeOK /\ NewIsQuiet /\ Counted /\ Keyed /\ MasterKnown
      /\ EapIsUntimed /\ DoingIsTimed /\ MasterKeyIsThere /\ InOrder
    BY DEF Invariant, Safe
<1>2. /\ link \in {"new", "up"} /\ ap' \in AccessPoints
      /\ ap'.stage = a.stage /\ ap'.rekeys = a.rekeys
      /\ ap'.counter = ap.counter + 1 /\ ap'.pmk = a.pmk
      /\ ap'.ptk = a.ptk /\ ap'.gtk = a.gtk
      /\ \E f \in Frames : SentBy(a, f) /\ down' = Sent(down, f)
    BY <1>1, ApSendsOk
<1>3. PICK f \in Frames : SentBy(a, f) /\ down' = Sent(down, f)
    BY <1>2
<1>4. /\ f.counter = ap.counter + 1 /\ f.kind \in {"M1", "M3", "G1"}
      /\ ap.counter \in Nat /\ \A x \in ToSup : x.counter \in Nat
      /\ \A g \in FromSup : g.counter \in Nat
      /\ sup.counter \in Nat
    <2>1. f.counter = ap.counter + 1 /\ f.kind \in {"M1", "M3", "G1"}
        BY <1>3, FrameFields DEF SentBy
    <2>2. ap.counter \in Nat /\ sup.counter \in Nat
        BY <1>1, KeyAssumption DEF TypeOK, AccessPoints, Supplicants
    <2>3. ToSup \subseteq Frames /\ FromSup \subseteq Answers
        BY <1>1, RangeOf DEF TypeOK, ToSup, FromSup
    <2>4. /\ \A x \in Frames : x.counter \in Nat
          /\ \A x \in Answers : x.counter \in Nat
        BY KeyAssumption DEF Frames, Answers
    <2> QED
        BY <2>1, <2>2, <2>3, <2>4
<1>5. /\ \A x \in ToSup : 0 < x.counter /\ x.counter <= ap.counter
      /\ \A g \in FromSup : g.counter <= ap.counter
      /\ Up => sup.counter <= ap.counter
    BY <1>1 DEF Counted
<1>6. /\ down' \in Seq(Frames) /\ Len(down') <= Capacity
      /\ ToSup' \subseteq ToSup \cup {f}
      /\ Increasing(down) => Increasing(down')
    <2>1. \A x \in ToSup : x.counter < f.counter
        BY <1>4, <1>5
    <2> QED
        BY <1>1, <1>3, <2>1, SentFrame DEF TypeOK, ToSup
<1>7. FromSup' \subseteq FromSup
    BY DEF FromSup
<1>8. TypeOK'
    BY <1>1, <1>2, <1>6 DEF TypeOK
<1>9. NewIsQuiet'
    BY <1>1, <1>2, <1>3, <1>6 DEF NewIsQuiet, SentBy
<1>10. Counted'
    <2>1. \A x \in ToSup' : 0 < x.counter /\ x.counter <= ap'.counter
        BY <1>2, <1>4, <1>5, <1>6
    <2>2. \A g \in FromSup' : g.counter <= ap'.counter
        BY <1>2, <1>4, <1>5, <1>7
    <2>3. Up' => sup'.counter <= ap'.counter
        BY <1>2, <1>4, <1>5 DEF Up
    <2> QED
        BY <2>1, <2>2, <2>3 DEF Counted
<1>11. Keyed'
    BY <1>2 DEF Keyed
<1>12. MasterKnown'
    BY <1>1 DEF MasterKnown, Psk, Wpa2
<1>13. Message4Counts' /\ OrderlyAnswers'
    <2>1. \A g \in FromSup' : g.counter # ap'.counter
        BY <1>2, <1>4, <1>5, <1>7
    <2> QED
        BY <2>1 DEF Message4Counts, OrderlyAnswers
<1>14. OldAreReplays' /\ SharedKey'
    <2>1. a.stage = "done" => f.kind = "G1"
        BY <1>3 DEF SentBy
    <2> QED
        BY <1>2, <1>6, <2>1 DEF OldAreReplays, SharedKey, Up
<1>15. LastHasGroupKey'
    <2>1. \A x \in ToSup' : x.counter = ap'.counter => x = f
        BY <1>2, <1>4, <1>5, <1>6
    <2>2. CarriesGroupKey(f)' => f.gtk = ap'.gtk
        BY <1>2, <1>3 DEF CarriesGroupKey, SentBy, Wpa2
    <2> QED
        BY <2>1, <2>2 DEF LastHasGroupKey, CarriesGroupKey, Wpa2
<1>16. EapIsUntimed' /\ DoingIsTimed' /\ MasterKeyIsThere'
    BY <1>1 DEF EapIsUntimed, DoingIsTimed, MasterKeyIsThere, Psk
<1>17. InOrder'
    <2>1. ASSUME NEW g \in FromSup', NEW x \in ToSup', orderly
          PROVE  g.counter < x.counter
        <3>1. g \in FromSup /\ (x \in ToSup \/ x = f)
            BY <1>6, <1>7
        <3>2. CASE x \in ToSup
            BY <1>1, <2>1, <3>1, <3>2 DEF InOrder
        <3>3. CASE x = f
            BY <1>4, <1>5, <3>1, <3>3
        <3> QED
            BY <3>1, <3>2, <3>3
    <2> QED
        BY <1>1, <1>6, <2>1 DEF InOrder
<1>18. OrderlyStages'
    <2>1. a.stage = "negotiating" => f.kind = "M3"
        BY <1>3 DEF SentBy
    <2> QED
        BY <1>2, <1>6, <2>1 DEF OrderlyStages, Up
<1> QED
    BY <1>8, <1>9, <1>10, <1>11, <1>12, <1>13, <1>14, <1>15, <1>16, <1>17,
       <1>18
    DEF Invariant, Safe

\* What the invariant says, in a form the steps use.
LEMMA Facts ==
    ASSUME Invariant
    PROVE  /\ TypeOK /\ net \in Networks /\ orderly \in BOOLEAN
           /\ sup \in Supplicants /\ ap \in AccessPoints
           /\ down \in Seq(Frames) /\ Len(down) <= Capacity
           /\ up \in Seq(Answers) /\ Len(up) <= Capacity
           /\ ToSup \subseteq Frames /\ FromSup \subseteq Answers
           /\ ap.counter \in Nat /\ sup.counter \in Nat
           /\ \A f \in ToSup : /\ f.counter \in Nat
                               /\ 0 < f.counter /\ f.counter <= ap.counter
           /\ \A g \in FromSup : g.counter \in Nat /\ g.counter <= ap.counter
<1>1. TypeOK /\ Counted
    BY DEF Invariant, Safe
<1>2. ToSup \subseteq Frames /\ FromSup \subseteq Answers
    BY <1>1, RangeOf DEF TypeOK, ToSup, FromSup
<1>3. /\ \A x \in Frames : x.counter \in Nat
      /\ \A x \in Answers : x.counter \in Nat
    BY KeyAssumption DEF Frames, Answers
<1>4. ap.counter \in Nat /\ sup.counter \in Nat
    BY <1>1, KeyAssumption DEF TypeOK, AccessPoints, Supplicants
<1> QED
    BY <1>1, <1>2, <1>3, <1>4 DEF TypeOK, Counted

LEMMA ApStartsOk ==
    ASSUME Invariant, ApStarts, UNCHANGED <<net, orderly, link, sup>>
    PROVE  Invariant'
<1> DEFINE nonce == ap.anonce + 1
           a == [ap EXCEPT !.stage = "start", !.anonce = nonce, !.ptk = NULL]
<1>1. /\ ap.pmk # NULL /\ ~ap.rekeys /\ ap.anonce < MaxHandshakes
      /\ ApSends(a) /\ up' = up
    BY DEF ApStarts
<1>2. nonce \in 0 .. MaxHandshakes
    BY <1>1, Facts, KeyAssumption DEF AccessPoints
<1> HIDE DEF nonce
<1>3. /\ a \in AccessPoints /\ a.stage = "start" /\ a.pmk = ap.pmk
      /\ ~a.rekeys
    BY <1>1, <1>2, Facts DEF AccessPoints
<1> HIDE DEF a
<1>4. link = "new" => up = <<>>
    BY DEF Invariant, Safe, NewIsQuiet
<1> QED
    BY <1>1, <1>3, <1>4, Facts, NewFrameOk DEF TypeOK, Invariant, Safe

LEMMA ApRepeatsOk ==
    ASSUME Invariant, ApRepeats, UNCHANGED <<net, orderly, link, sup>>
    PROVE  Invariant'
<1>1. /\ ap.stage \in {"start", "negotiating"} \/ ap.rekeys
      /\ ApSends(ap) /\ up' = up
    BY DEF ApRepeats
<1>2. /\ NewIsQuiet /\ Keyed /\ SharedKey /\ OldAreReplays /\ OrderlyStages
      /\ ap \in AccessPoints
    BY Facts DEF Invariant, Safe
<1>3. /\ ap.stage \in {"start", "negotiating", "done"} /\ ap.pmk # NULL
      /\ ap.stage # "start" => ap.ptk \in Ptks
      /\ ap.rekeys => ap.stage = "done"
      /\ ap.stage = "done" => ap.rekeys
    BY <1>1, <1>2 DEF Keyed
<1>4. ap.rekeys <=> ap.stage = "done"
    BY <1>2, <1>3 DEF AccessPoints
<1>5. link = "new" => ap.stage = "start" /\ up = <<>>
    BY <1>2, <1>3 DEF NewIsQuiet
<1>6. Up /\ ap.stage = "done" =>
          /\ sup.tk = ap.ptk /\ sup.ptk = ap.ptk
          /\ \A f \in ToSup :
                f.kind \in {"M1", "M3"} => f.counter <= sup.counter
    BY <1>2 DEF SharedKey, OldAreReplays
<1>7. orderly /\ Up /\ ap.stage = "negotiating" =>
          sup.ptk = ap.ptk /\ \A f \in ToSup : f.kind # "M1"
    BY <1>2 DEF OrderlyStages
<1>8. up' \in Seq(Answers) /\ Len(up') <= Capacity /\ Range(up') = Range(up)
    BY <1>1, Facts
<1> QED
    BY <1>1, <1>2, <1>3, <1>4, <1>5, <1>6, <1>7, <1>8, NewFrameOk

LEMMA ApRekeysOk ==
    ASSUME Invariant, ApRekeys, UNCHANGED <<net, orderly, link, sup>>
    PROVE  Invariant'
<1> DEFINE key == ap.gtk + 1
           a == [ap EXCEPT !.rekeys = TRUE, !.gtk = key]
<1>1. /\ ap.stage = "done" /\ ap.gtk < MaxGtk /\ ApSends(a) /\ up' = up
    BY DEF ApRekeys
<1>2. key \in 1 .. MaxGtk
    BY <1>1, Facts, KeyAssumption DEF AccessPoints
<1> HIDE DEF key
<1>3. /\ a \in AccessPoints /\ a.stage = "done" /\ a.pmk = ap.pmk
      /\ a.rekeys /\ a.ptk = ap.ptk
    BY <1>1, <1>2, Facts DEF AccessPoints
<1> HIDE DEF a
<1>4. /\ NewIsQuiet /\ Keyed /\ SharedKey /\ OldAreReplays
    BY DEF Invariant, Safe
<1>5. link # "new" /\ ap.pmk # NULL /\ ap.ptk \in Ptks
    BY <1>1, <1>4 DEF NewIsQuiet, Keyed
<1>6. Up => /\ sup.tk = a.ptk /\ sup.ptk = a.ptk
            /\ \A f \in ToSup :
                  f.kind \in {"M1", "M3"} => f.counter <= sup.counter
    BY <1>1, <1>3, <1>4 DEF SharedKey, OldAreReplays
<1>7. up' \in Seq(Answers) /\ Len(up') <= Capacity /\ Range(up') = Range(up)
    BY <1>1, Facts
<1> QED
    BY <1>1, <1>3, <1>5, <1>6, <1>7, NewFrameOk

\* An answer that is the last of its handshake: on an orderly link there is
\* nothing on its way to the supplicant.
LEMMA LastAnswer ==
    ASSUME Invariant, orderly, NEW g \in FromSup, g.counter = ap.counter
    PROVE  down = <<>>
<1>1. ToSup = {}
    BY Facts DEF Invariant, InOrder
<1> QED
    BY <1>1, RangeOf, EmptySeq, Facts DEF ToSup

\* The access point is done, with no frame of its own.
LEMMA DoneOk ==
    ASSUME Invariant, NEW a \in AccessPoints, ap' = a,
           UNCHANGED <<net, orderly, link, sup, down>>,
           a.counter = ap.counter, a.pmk = ap.pmk, a.ptk = ap.ptk,
           a.gtk = ap.gtk, a.stage = "done", ~a.rekeys,
           ap.pmk # NULL, ap.ptk \in Ptks, link # "new",
           up' \in Seq(Answers), Len(up') <= Capacity,
           Range(up') \subseteq Range(up),
           Up => /\ sup.tk = ap.ptk /\ sup.ptk = ap.ptk
                 /\ \A f \in ToSup :
                       f.kind \in {"M1", "M3"} => f.counter <= sup.counter,
           orderly /\ Up => down = <<>> /\ GroupInstalled
    PROVE  Invariant'
<1>1. /\ TypeOK /\ NewIsQuiet /\ Counted /\ Keyed /\ MasterKnown
      /\ EapIsUntimed /\ DoingIsTimed /\ MasterKeyIsThere /\ InOrder
      /\ OrderlyAnswers
    BY DEF Invariant, Safe
<1>2. ToSup' = ToSup /\ FromSup' \subseteq FromSup
    BY DEF ToSup, FromSup
<1>3. TypeOK' /\ NewIsQuiet'
    BY <1>1 DEF TypeOK, NewIsQuiet
<1>4. Counted' /\ Keyed' /\ MasterKnown'
    BY <1>1, <1>2 DEF Counted, Keyed, MasterKnown, Up, Psk, Wpa2
<1>5. Message4Counts' /\ OldAreReplays' /\ SharedKey' /\ LastHasGroupKey'
    BY <1>2 DEF Message4Counts, OldAreReplays, SharedKey, LastHasGroupKey,
                CarriesGroupKey, Up
<1>6. EapIsUntimed' /\ DoingIsTimed' /\ MasterKeyIsThere'
    BY <1>1 DEF EapIsUntimed, DoingIsTimed, MasterKeyIsThere, Psk
<1>7. InOrder'
    BY <1>1, <1>2 DEF InOrder, Increasing
<1>8. OrderlyAnswers'
    BY <1>1, <1>2 DEF OrderlyAnswers, Completes, Up
<1>9. OrderlyStages'
    BY <1>2 DEF OrderlyStages, GroupInstalled, Up
<1> QED
    BY <1>3, <1>4, <1>5, <1>6, <1>7, <1>8, <1>9 DEF Invariant, Safe

LEMMA ApReceivesOk ==
    ASSUME Invariant, ApReceives, UNCHANGED <<net, orderly, link, sup>>
    PROVE  Invariant'
<1>1. PICK i \in Received(up) :
         LET f      == up[i]
             fresh  == f.counter = ap.counter
             expect == Ptk(ap.pmk, ap.anonce, f.snonce)
         IN  /\ up' \in Left(up, i)
             /\ \/ /\ fresh /\ ap.stage = "start" /\ f.kind = "M2"
                   /\ f.mic = expect
                   /\ ApSends([ap EXCEPT !.stage = "negotiating",
                                         !.ptk = expect])
                \/ /\ fresh /\ ap.stage = "negotiating" /\ f.kind = "M4"
                   /\ f.mic = ap.ptk
                   /\ IF Wpa2
                      THEN ap' = [ap EXCEPT !.stage = "done"]
                           /\ UNCHANGED down
                      ELSE ApSends([ap EXCEPT !.stage = "done",
                                              !.rekeys = TRUE])
                \/ /\ fresh /\ ap.rekeys /\ f.kind = "G2" /\ f.mic = ap.ptk
                   /\ ap' = [ap EXCEPT !.rekeys = FALSE] /\ UNCHANGED down
    BY DEF ApReceives
<1> DEFINE f == up[i]
           expect == Ptk(ap.pmk, ap.anonce, f.snonce)
<1>2. /\ f \in FromSup /\ up' \in Seq(Answers) /\ Len(up') <= Capacity
      /\ Range(up') \subseteq Range(up)
    BY <1>1, Facts, LeftFrames DEF FromSup
<1>3. f.counter = ap.counter
    BY <1>1
<1>4. /\ NewIsQuiet /\ Keyed /\ SharedKey /\ OldAreReplays /\ Message4Counts
      /\ OrderlyAnswers
    BY DEF Invariant, Safe
<1>5. up # <<>> /\ f \in Answers
    <2>1. FromSup # {}
        BY <1>2
    <2> QED
        BY <1>2, <2>1, Facts, NoFrames DEF FromSup
<1>6. link # "new"
    BY <1>4, <1>5 DEF NewIsQuiet
<1>7. orderly => down = <<>> /\ ToSup = {}
    BY <1>2, <1>3, LastAnswer, NoFrames DEF ToSup
<1>8. CASE /\ ap.stage = "start" /\ f.kind = "M2" /\ f.mic = expect
           /\ ApSends([ap EXCEPT !.stage = "negotiating", !.ptk = expect])
    <2> DEFINE a == [ap EXCEPT !.stage = "negotiating", !.ptk = expect]
    <2>1. ApSends(a)
        BY <1>8
    <2>2. f.mic \in Ptks
        BY <1>5, <1>8 DEF Answers
    <2>3. expect = f.mic
        BY <1>8
    <2> HIDE DEF expect
    <2>4. /\ a \in AccessPoints /\ a.stage = "negotiating"
          /\ a.pmk = ap.pmk /\ a.ptk = f.mic /\ a.rekeys = ap.rekeys
        BY <2>2, <2>3, Facts DEF AccessPoints
    <2>5. ap.pmk # NULL /\ ~ap.rekeys
        BY <1>4, <1>8 DEF Keyed
    <2> HIDE DEF a
    <2>6. orderly /\ Up => sup.ptk = a.ptk
        BY <1>2, <1>3, <1>4, <1>8, <2>4 DEF OrderlyAnswers
    <2>7. orderly => \A x \in ToSup : x.kind # "M1"
        BY <1>7
    <2> HIDE DEF f
    <2> QED
        BY <1>2, <1>6, <2>1, <2>2, <2>4, <2>5, <2>6, <2>7, NewFrameOk
<1>9. CASE ap.stage = "negotiating" /\ f.kind = "M4" /\ f.mic = ap.ptk
    <2>1. ap.pmk # NULL /\ ap.ptk \in Ptks
        BY <1>4, <1>9 DEF Keyed
    <2>2. Up => /\ sup.tk = ap.ptk /\ sup.ptk = ap.ptk
                /\ \A x \in ToSup : x.counter <= sup.counter
        BY <1>2, <1>3, <1>4, <1>9, Facts DEF Message4Counts
    <2>3. CASE ~Wpa2
        <3> DEFINE a == [ap EXCEPT !.stage = "done", !.rekeys = TRUE]
        <3>1. ApSends(a)
            BY <1>1, <1>9, <2>3
        <3>2. /\ a \in AccessPoints /\ a.stage = "done" /\ a.pmk = ap.pmk
              /\ a.ptk = ap.ptk /\ a.rekeys
            BY Facts DEF AccessPoints
        <3> HIDE DEF a, f
        <3> QED
            BY <1>2, <1>6, <2>1, <2>2, <3>1, <3>2, NewFrameOk
    <2>4. CASE Wpa2
        <3> DEFINE a == [ap EXCEPT !.stage = "done"]
        <3>1. ap' = a /\ down' = down
            BY <1>1, <1>9, <2>4
        <3>2. ~ap.rekeys
            BY <1>4, <1>9 DEF Keyed
        <3>3. /\ a \in AccessPoints /\ a.stage = "done" /\ a.pmk = ap.pmk
              /\ a.ptk = ap.ptk /\ ~a.rekeys /\ a.counter = ap.counter
              /\ a.gtk = ap.gtk
            BY <3>2, Facts DEF AccessPoints
        <3>4. orderly /\ Up => down = <<>> /\ GroupInstalled
            <4>1. Completes(f)
                BY <1>9, <2>4 DEF Completes
            <4> QED
                BY <1>2, <1>3, <1>4, <1>7, <4>1 DEF OrderlyAnswers
        <3> HIDE DEF a, f
        <3> QED
            BY <1>2, <1>6, <2>1, <2>2, <3>1, <3>3, <3>4, DoneOk
    <2> QED
        BY <2>3, <2>4
<1>10. CASE /\ ap.rekeys /\ f.kind = "G2" /\ f.mic = ap.ptk
            /\ ap' = [ap EXCEPT !.rekeys = FALSE] /\ down' = down
    <2> DEFINE a == [ap EXCEPT !.rekeys = FALSE]
    <2>1. ap.stage = "done" /\ ap.pmk # NULL /\ ap.ptk \in Ptks
        BY <1>4, <1>10 DEF Keyed
    <2>2. /\ a \in AccessPoints /\ a.stage = "done" /\ a.pmk = ap.pmk
          /\ a.ptk = ap.ptk /\ ~a.rekeys /\ a.counter = ap.counter
          /\ a.gtk = ap.gtk
        BY <2>1, Facts DEF AccessPoints
    <2>3. Up => /\ sup.tk = ap.ptk /\ sup.ptk = ap.ptk
                /\ \A x \in ToSup :
                      x.kind \in {"M1", "M3"} => x.counter <= sup.counter
        BY <1>4, <2>1 DEF SharedKey, OldAreReplays
    <2>4. orderly /\ Up => down = <<>> /\ GroupInstalled
        <3>1. Completes(f)
            BY <1>10 DEF Completes
        <3> QED
            BY <1>2, <1>3, <1>4, <1>7, <3>1 DEF OrderlyAnswers
    <2>5. ap' = a
        BY <1>10
    <2> HIDE DEF a, f
    <2> QED
        BY <1>2, <1>6, <1>10, <2>1, <2>2, <2>3, <2>4, <2>5, DoneOk
<1> QED
    BY <1>1, <1>8, <1>9, <1>10

\* A frame is lost on its way.
LEMMA LosesFrameOk ==
    ASSUME Invariant, LosesFrame, UNCHANGED <<net, orderly, link, sup, ap>>
    PROVE  Invariant'
<1>1. /\ down' \in Seq(Frames) /\ Len(down') <= Capacity
      /\ up' \in Seq(Answers) /\ Len(up') <= Capacity
      /\ ToSup' \subseteq ToSup /\ FromSup' \subseteq FromSup
      /\ Increasing(down) => Increasing(down')
      /\ up = <<>> => up' = <<>>
    <2>1. CASE \E i \in DOMAIN down : down' = RemoveAt(down, i) /\ up' = up
        <3>1. PICK i \in DOMAIN down : down' = RemoveAt(down, i) /\ up' = up
            BY <2>1
        <3>2. down # <<>>
            BY <3>1, RangeOf, EmptySeq, Facts
        <3> QED
            BY <3>1, <3>2, Facts, LostFrame DEF ToSup, FromSup
    <2>2. CASE \E i \in DOMAIN up : up' = RemoveAt(up, i) /\ down' = down
        <3>1. PICK i \in DOMAIN up : up' = RemoveAt(up, i) /\ down' = down
            BY <2>2
        <3>2. up # <<>>
            BY <3>1, RangeOf, EmptySeq, Facts
        <3> QED
            BY <3>1, <3>2, Facts, LostFrame DEF ToSup, FromSup, Increasing
    <2> QED
        BY <2>1, <2>2 DEF LosesFrame
<1>2. /\ TypeOK /\ NewIsQuiet /\ Counted /\ Keyed /\ MasterKnown
      /\ Message4Counts /\ OldAreReplays /\ SharedKey /\ LastHasGroupKey
      /\ EapIsUntimed /\ DoingIsTimed /\ MasterKeyIsThere /\ InOrder
      /\ OrderlyAnswers /\ OrderlyStages
    BY DEF Invariant, Safe
<1>3. down = <<>> => down' = <<>>
    BY <1>1, RangeOf, EmptySeq, NoFrames, Facts DEF ToSup
<1>4. TypeOK' /\ NewIsQuiet'
    BY <1>1, <1>2 DEF TypeOK, NewIsQuiet
<1>5. Counted' /\ Keyed' /\ MasterKnown'
    BY <1>1, <1>2 DEF Counted, Keyed, MasterKnown, Up, Psk, Wpa2
<1>6. Message4Counts' /\ OldAreReplays' /\ SharedKey'
    BY <1>1, <1>2 DEF Message4Counts, OldAreReplays, SharedKey, Up
<1>7. LastHasGroupKey'
    BY <1>1, <1>2 DEF LastHasGroupKey, CarriesGroupKey, Wpa2
<1>8. EapIsUntimed' /\ DoingIsTimed' /\ MasterKeyIsThere'
    BY <1>2 DEF EapIsUntimed, DoingIsTimed, MasterKeyIsThere, Psk
<1>9. InOrder'
    BY <1>1, <1>2 DEF InOrder
<1>10. OrderlyAnswers'
    BY <1>1, <1>2
    DEF OrderlyAnswers, Completes, GroupInstalled, Up, Wpa2
<1>11. OrderlyStages'
    BY <1>1, <1>2, <1>3 DEF OrderlyStages, GroupInstalled, Up
<1> QED
    BY <1>4, <1>5, <1>6, <1>7, <1>8, <1>9, <1>10, <1>11 DEF Invariant, Safe

(***************************************************************************)
(* The supplicant receives a frame.                                        *)
(***************************************************************************)
\* The pass in which the machine sees the association clears the counter.
LEMMA EndOfPassOk ==
    ASSUME NEW s \in Supplicants
    PROVE  /\ EndOfPass(s) \in Supplicants
           /\ EndOfPass(s).ptk = s.ptk /\ EndOfPass(s).tk = s.tk
           /\ EndOfPass(s).gtk = s.gtk /\ EndOfPass(s).doing = s.doing
           /\ EndOfPass(s).timer = s.timer /\ EndOfPass(s).pmk = s.pmk
           /\ EndOfPass(s).counter = IF link = "new" THEN 0 ELSE s.counter
<1>1. 0 \in 0 .. MaxCounter
    BY KeyAssumption
<1>2. CASE link = "new"
    <2>1. EndOfPass(s) = [s EXCEPT !.counter = 0]
        BY <1>2 DEF EndOfPass
    <2> QED
        BY <1>1, <1>2, <2>1 DEF Supplicants
<1>3. CASE link # "new"
    BY <1>3 DEF EndOfPass
<1> QED
    BY <1>2, <1>3

\* The links that are not up ask little of the state.
LEMMA NotUpOk ==
    ASSUME TypeOK', link' = "down", Keyed', MasterKnown', EapIsUntimed',
           DoingIsTimed', down' = <<>>,
           \A g \in FromSup' : g.counter <= ap'.counter
    PROVE  Invariant'
<1>1. ToSup' = {} /\ Increasing(down')
    BY NoFrames DEF ToSup
<1>2. NewIsQuiet' /\ Counted'
    BY <1>1 DEF NewIsQuiet, Counted, Up
<1>3. /\ Message4Counts' /\ OldAreReplays' /\ SharedKey' /\ LastHasGroupKey'
      /\ MasterKeyIsThere'
    BY <1>1 DEF Message4Counts, OldAreReplays, SharedKey, LastHasGroupKey,
                MasterKeyIsThere, Up
<1>4. InOrder' /\ OrderlyAnswers' /\ OrderlyStages'
    BY <1>1 DEF InOrder, OrderlyAnswers, OrderlyStages, Up
<1> QED
    BY <1>2, <1>3, <1>4 DEF Invariant, Safe

\* The conjuncts that do not depend on the kind of frame, when the link stays
\* up.
LEMMA ReceivedOk ==
    ASSUME Invariant, UNCHANGED <<net, orderly, ap>>,
           link \in {"new", "up"}, link' = "up",
           sup' \in Supplicants, TimerOk(sup'),
           sup'.pmk = NULL => sup.pmk = NULL, sup'.counter <= ap.counter,
           down' \in Seq(Frames), Len(down') <= Capacity,
           ToSup' \subseteq ToSup,
           up' \in Seq(Answers), Len(up') <= Capacity,
           NEW f \in ToSup,
           \A g \in FromSup' \ FromSup : g.counter = f.counter,
           orderly => Increasing(down')
                      /\ \A x \in ToSup' : f.counter < x.counter
    PROVE  /\ TypeOK' /\ NewIsQuiet' /\ Counted' /\ Keyed' /\ MasterKnown'
           /\ LastHasGroupKey' /\ EapIsUntimed' /\ DoingIsTimed'
           /\ MasterKeyIsThere' /\ InOrder'
           /\ OldAreReplays /\ SharedKey /\ Message4Counts
           /\ OrderlyStages /\ LastHasGroupKey /\ NewIsQuiet
           /\ orderly => \A g \in FromSup : g.counter < ap.counter
           /\ orderly /\ Up => (ap.stage = "done" => ap.rekeys)
<1>1. /\ TypeOK /\ NewIsQuiet /\ Counted /\ Keyed /\ MasterKnown
      /\ Message4Counts /\ OldAreReplays /\ SharedKey /\ LastHasGroupKey
      /\ InOrder /\ OrderlyStages
    BY DEF Invariant, Safe
<1>2. TypeOK' /\ NewIsQuiet' /\ MasterKeyIsThere'
    BY <1>1 DEF TypeOK, NewIsQuiet, MasterKeyIsThere
<1>3. Counted'
    BY Facts DEF Counted
<1>4. Keyed' /\ MasterKnown'
    BY <1>1 DEF Keyed, MasterKnown, Psk, Wpa2
<1>5. LastHasGroupKey'
    BY <1>1 DEF LastHasGroupKey, CarriesGroupKey, Wpa2
<1>6. EapIsUntimed' /\ DoingIsTimed'
    BY DEF EapIsUntimed, DoingIsTimed, TimerOk, Psk
<1>7. InOrder'
    <2>1. ASSUME orderly, NEW g \in FromSup', NEW x \in ToSup'
          PROVE  g.counter < x.counter
        BY <1>1, <2>1 DEF InOrder
    <2> QED
        BY <2>1 DEF InOrder
<1>8. orderly => \A g \in FromSup : g.counter < ap.counter
    <2>1. ASSUME orderly, NEW g \in FromSup PROVE g.counter < ap.counter
        <3>1. g.counter < f.counter /\ f.counter <= ap.counter
            BY <1>1, <2>1, Facts DEF InOrder
        <3> QED
            BY <3>1, Facts
    <2> QED
        BY <2>1
<1>9. orderly /\ Up => (ap.stage = "done" => ap.rekeys)
    <2>1. down # <<>>
        BY NoFrames DEF ToSup
    <2> QED
        BY <1>1, <2>1 DEF OrderlyStages
<1> QED
    BY <1>1, <1>2, <1>3, <1>4, <1>5, <1>6, <1>7, <1>8, <1>9

LEMMA ReceivesOk ==
    ASSUME Invariant, Receives, UNCHANGED <<net, orderly>>
    PROVE  Invariant'
<1>1. PICK i \in Received(down), found \in BOOLEAN, refuses \in RefusesIe :
         LET f   == down[i]
             out == Process(sup, f, found, refuses)
         IN  /\ link \in {"new", "up"}
             /\ found => f.kind = "M1" /\ f.pmkid # NULL
             /\ f.kind = "M1" => sup.snonce < MaxNonce
             /\ sup' = EndOfPass(out.sup)
             /\ link' = out.link
             /\ down' \in IF out.link = "up" THEN Left(down, i) ELSE {<<>>}
             /\ up' = IF out.answers = <<>> THEN up
                      ELSE Sent(up, out.answers[1])
             /\ UNCHANGED ap
    BY DEF Receives
<1> DEFINE f == down[i]
           out == Process(sup, f, found, refuses)
<1>2. /\ f \in ToSup
      /\ \A r \in Left(down, i) :
            /\ r \in Seq(Frames) /\ Len(r) <= Capacity
            /\ Range(r) \subseteq ToSup
            /\ orderly /\ Increasing(down) =>
                  Increasing(r) /\ \A x \in Range(r) : f.counter < x.counter
    <2>1. down \in Seq(Frames) /\ Len(down) <= Capacity
        BY Facts
    <2>2. ASSUME NEW r \in Left(down, i)
          PROVE  /\ down[i] \in Range(down)
                 /\ r \in Seq(Frames) /\ Len(r) <= Capacity
                 /\ Range(r) \subseteq Range(down)
                 /\ orderly /\ Increasing(down) =>
                       /\ Increasing(r)
                       /\ \A x \in Range(r) : down[i].counter < x.counter
        BY <2>1, <2>2, LeftFrames
    <2>3. down[i] \in Range(down)
        BY <2>1, RangeOf DEF Received
    <2> QED
        BY <2>2, <2>3 DEF ToSup
<1>3. /\ NewIsQuiet /\ EapIsUntimed /\ DoingIsTimed /\ InOrder /\ Keyed
      /\ MasterKnown /\ Message4Counts /\ OrderlyAnswers
    BY DEF Invariant, Safe
<1>4. f \in Frames /\ TimerOk(sup)
    BY <1>2, <1>3, Facts DEF TimerOk, EapIsUntimed, DoingIsTimed
<1>5. Outcomes(sup, f, out)
    <2>1. refuses \in BOOLEAN
        BY KeyAssumption
    <2> QED
        BY <1>1, <1>4, <2>1, Facts, ProcessOk
<1>6. /\ link \in {"new", "up"} /\ sup' = EndOfPass(out.sup)
      /\ link' = out.link /\ ap' = ap
      /\ out.link = "up" => down' \in Left(down, i)
      /\ out.link # "up" => down' = <<>>
      /\ up' = IF out.answers = <<>> THEN up ELSE Sent(up, out.answers[1])
    BY <1>1
<1> HIDE DEF f, out
<1>7. /\ out.sup \in Supplicants /\ TimerOk(out.sup)
      /\ out.sup.pmk = NULL => sup.pmk = NULL
      /\ out.link \in {"up", "down", "crashed"}
      /\ out.link = "crashed" => ~Psk /\ ~Wpa2 /\ sup.pmk = NULL
      /\ AnswersFrame(sup, f, out)
    BY <1>5 DEF Outcomes
<1>8. /\ sup' \in Supplicants /\ TimerOk(sup') /\ sup'.ptk = out.sup.ptk
      /\ sup'.tk = out.sup.tk /\ sup'.gtk = out.sup.gtk
      /\ sup'.doing = out.sup.doing /\ sup'.timer = out.sup.timer
      /\ sup'.pmk = out.sup.pmk
      /\ sup'.counter = IF link = "new" THEN 0 ELSE out.sup.counter
    BY <1>6, <1>7, EndOfPassOk DEF TimerOk
<1>9. out.link # "crashed"
    BY <1>2, <1>3, <1>7 DEF MasterKnown
<1>10. \/ Ignores(sup, out) /\ up' = up
       \/ \E m \in Answers :
             /\ m.counter = f.counter /\ up' = Sent(up, m)
             /\ \/ AnswersM1(sup, f, out, m) \/ AnswersM3(sup, f, out, m)
                \/ RefusesM3(f, out, m) \/ AnswersG1(sup, f, out, m)
    <2>1. CASE Ignores(sup, out)
        BY <1>6, <2>1 DEF Ignores
    <2>2. ASSUME NEW m \in Answers, m.counter = f.counter,
                 \/ AnswersM1(sup, f, out, m) \/ AnswersM3(sup, f, out, m)
                 \/ RefusesM3(f, out, m) \/ AnswersG1(sup, f, out, m)
          PROVE  up' = Sent(up, m)
        <3>1. out.answers = <<m>>
            BY <2>2 DEF AnswersM1, AnswersM3, RefusesM3, AnswersG1
        <3>2. <<m>> # <<>> /\ <<m>>[1] = m
            OBVIOUS
        <3> QED
            BY <1>6, <3>1, <3>2
    <2> QED
        BY <1>7, <2>1, <2>2 DEF AnswersFrame
<1>11. /\ up' \in Seq(Answers) /\ Len(up') <= Capacity
       /\ FromSup \subseteq FromSup' \cup FromSup
       /\ \A g \in FromSup' \ FromSup : g.counter = f.counter
    <2>1. CASE up' = up
        BY <2>1, Facts DEF FromSup
    <2>2. ASSUME NEW m \in Answers, m.counter = f.counter, up' = Sent(up, m)
          PROVE  /\ up' \in Seq(Answers) /\ Len(up') <= Capacity
                 /\ FromSup' \subseteq FromSup \cup {m}
        BY <2>2, Facts, SentFrame DEF FromSup
    <2> QED
        BY <1>10, <2>1, <2>2
<1>12. CASE out.link = "down"
    <2>1. down' = <<>> /\ link' = "down"
        BY <1>6, <1>12
    <2>2. TypeOK'
        BY <1>6, <1>8, <1>11, <2>1, Facts, NoFrames DEF TypeOK
    <2>3. EapIsUntimed' /\ DoingIsTimed' /\ Keyed'
        BY <1>3, <1>6, <1>8 DEF EapIsUntimed, DoingIsTimed, TimerOk, Psk, Keyed
    <2>4. MasterKnown'
        BY <1>2, <1>3, <1>6, <1>7, <1>8 DEF MasterKnown, Psk, Wpa2
    <2>5. \A g \in FromSup' : g.counter <= ap'.counter
        BY <1>2, <1>6, <1>11, Facts
    <2> QED
        BY <2>1, <2>2, <2>3, <2>4, <2>5, NotUpOk
<1>13. CASE out.link = "up"
    <2>1. /\ link' = "up" /\ down' \in Left(down, i)
          /\ down' \in Seq(Frames) /\ Len(down') <= Capacity
          /\ ToSup' \subseteq ToSup
          /\ orderly => Increasing(down')
                        /\ \A x \in ToSup' : f.counter < x.counter
        BY <1>2, <1>3, <1>6, <1>13 DEF InOrder, ToSup
    <2>2. /\ f.counter \in Nat /\ 0 < f.counter /\ f.counter <= ap.counter
          /\ ap.counter \in Nat /\ sup.counter \in Nat
          /\ Up => sup.counter <= ap.counter
        BY <1>2, Facts DEF Invariant, Safe, Counted
    <2>3. sup'.counter <= ap.counter
        <3>1. link # "new" => out.sup.counter \in {sup.counter, f.counter}
            BY <1>10, <1>13
            DEF Ignores, SameKeys, AnswersM1, AnswersM3, RefusesM3, AnswersG1
        <3> QED
            BY <1>6, <1>8, <2>2, <3>1 DEF Up
    <2>4. /\ TypeOK' /\ NewIsQuiet' /\ Counted' /\ Keyed' /\ MasterKnown'
          /\ LastHasGroupKey' /\ EapIsUntimed' /\ DoingIsTimed'
          /\ MasterKeyIsThere' /\ InOrder'
          /\ OldAreReplays /\ SharedKey /\ Message4Counts
          /\ OrderlyStages /\ LastHasGroupKey /\ NewIsQuiet
          /\ orderly => \A g \in FromSup : g.counter < ap.counter
          /\ orderly /\ Up => (ap.stage = "done" => ap.rekeys)
        BY <1>2, <1>6, <1>7, <1>8, <1>11, <2>1, <2>3, ReceivedOk
    <2>5. ASSUME Message4Counts', OldAreReplays', SharedKey',
                 OrderlyAnswers', OrderlyStages'
          PROVE  Invariant'
        BY <2>4, <2>5 DEF Invariant, Safe
    <2>6. NotReplayed(sup, f) => f.counter > sup.counter
        BY <2>2 DEF NotReplayed
    <2>7. orderly => \A g \in FromSup' :
              g.counter = ap'.counter => g \notin FromSup
        BY <1>6, <2>4, Facts
    <2>8. CASE Ignores(sup, out) /\ up' = up
        <3>1. sup'.ptk = sup.ptk /\ sup'.tk = sup.tk
              /\ (link = "up" => sup'.counter = sup.counter)
            BY <1>8, <2>8 DEF Ignores, SameKeys
        <3>2. link = "new" =>
                  FromSup' = {} /\ ap'.stage \in {"idle", "start"}
            BY <1>6, <2>4, <2>8, NoFrames DEF NewIsQuiet, FromSup
        <3>3. FromSup' = FromSup
            BY <2>8 DEF FromSup
        <3>4. Message4Counts' /\ OldAreReplays' /\ SharedKey'
            BY <1>6, <2>1, <2>4, <3>1, <3>2, <3>3
            DEF Message4Counts, OldAreReplays, SharedKey, Up
        <3>5. OrderlyAnswers'
            BY <2>7, <3>3 DEF OrderlyAnswers
        <3>6. OrderlyStages'
            BY <1>6, <2>1, <2>4, <3>1, <3>2 DEF OrderlyStages, Up
        <3> QED
            BY <2>5, <3>4, <3>5, <3>6
    <2>9. ASSUME NEW m \in Answers, m.counter = f.counter,
                 up' = Sent(up, m),
                 \/ AnswersM1(sup, f, out, m) \/ AnswersM3(sup, f, out, m)
                 \/ RefusesM3(f, out, m) \/ AnswersG1(sup, f, out, m)
          PROVE  Invariant'
        <3>1. FromSup' \subseteq FromSup \cup {m}
            BY <2>9, Facts, SentFrame DEF FromSup
        <3>2. orderly =>
                  \A g \in FromSup' : g.counter = ap'.counter => g = m
            BY <2>7, <3>1
        <3>3. CASE AnswersM1(sup, f, out, m)
            <4>1. /\ f.kind = "M1" /\ m.kind = "M2"
                  /\ f.counter > sup.counter /\ sup'.ptk = m.mic
                  /\ sup'.tk = sup.tk
                  /\ (link = "up" => sup'.counter = sup.counter)
                BY <1>8, <2>6, <3>3 DEF AnswersM1
            <4>2. link = "new" => ap'.stage \in {"idle", "start"}
                BY <1>6, <2>4 DEF NewIsQuiet
            <4>3. link = "up" => ap'.stage # "done"
                BY <1>2, <1>6, <2>2, <2>4, <4>1 DEF OldAreReplays, Up
            <4>4. Message4Counts'
                BY <1>6, <2>2, <2>4, <3>1, <4>1, <4>2
                DEF Message4Counts, Up
            <4>5. OldAreReplays' /\ SharedKey'
                BY <1>6, <4>2, <4>3 DEF OldAreReplays, SharedKey
            <4>6. OrderlyAnswers'
                BY <3>2, <4>1 DEF OrderlyAnswers, Completes
            <4>7. orderly /\ link = "up" => ap'.stage # "negotiating"
                BY <1>2, <1>6, <2>4, <4>1 DEF OrderlyStages, Up
            <4>8. OrderlyStages'
                BY <1>6, <4>2, <4>3, <4>7 DEF OrderlyStages
            <4> QED
                BY <2>5, <4>4, <4>5, <4>6, <4>8
        <3>4. CASE AnswersM3(sup, f, out, m)
            <4>1. link = "up"
                BY <1>2, <1>6, <2>4, <3>4 DEF AnswersM3, NewIsQuiet
            <4>2. /\ f.kind = "M3" /\ m.kind = "M4" /\ m.mic = sup.ptk
                  /\ f.counter > sup.counter /\ sup'.ptk = sup.ptk
                  /\ sup'.tk = sup.ptk /\ sup'.counter = f.counter
                BY <1>8, <2>6, <3>4, <4>1 DEF AnswersM3
            <4>3. ap'.stage # "done"
                BY <1>2, <1>6, <2>2, <2>4, <4>1, <4>2 DEF OldAreReplays, Up
            <4>4. Message4Counts'
                <5>1. ASSUME NEW g \in FromSup', ap.stage = "negotiating",
                             g.kind = "M4", g.counter = ap.counter,
                             g.mic = ap.ptk
                      PROVE  sup'.counter = ap.counter /\ sup'.tk = ap.ptk
                             /\ sup'.ptk = ap.ptk
                    <6>1. g = m
                        BY <2>2, <2>4, <3>1, <4>1, <4>2, <5>1
                        DEF Message4Counts, Up
                    <6> QED
                        BY <2>9, <4>2, <5>1, <6>1
                <5> QED
                    BY <1>6, <5>1 DEF Message4Counts
            <4>5. OldAreReplays' /\ SharedKey'
                BY <4>3 DEF OldAreReplays, SharedKey
            <4>6. OrderlyAnswers'
                <5>1. ASSUME orderly, m.counter = ap.counter, Completes(m)'
                      PROVE  GroupInstalled'
                    <6>1. Wpa2 /\ ap.stage = "negotiating"
                        BY <1>6, <4>2, <5>1 DEF Completes, Wpa2
                    <6>2. f.gtk = ap.gtk
                        BY <1>2, <2>4, <2>9, <4>2, <5>1, <6>1
                        DEF LastHasGroupKey, CarriesGroupKey
                    <6>3. /\ sup'.gtk[f.gtk % 2] = f.gtk
                          /\ ~sup'.doing /\ ~sup'.timer
                        BY <1>8, <3>4, <6>1 DEF AnswersM3
                    <6> QED
                        BY <1>6, <6>2, <6>3 DEF GroupInstalled
                <5> QED
                    BY <1>6, <3>2, <4>2, <5>1 DEF OrderlyAnswers
            <4>7. OrderlyStages'
                BY <1>6, <2>1, <2>4, <4>1, <4>2, <4>3 DEF OrderlyStages, Up
            <4> QED
                BY <2>5, <4>4, <4>5, <4>6, <4>7
        <3>5. CASE AnswersG1(sup, f, out, m)
            <4>1. link = "up"
                BY <1>2, <1>6, <2>4, <3>5 DEF AnswersG1, NewIsQuiet
            <4>2. /\ f.kind = "G1" /\ m.kind = "G2"
                  /\ sup'.ptk = sup.ptk /\ sup'.tk = sup.tk
                  /\ sup'.counter = sup.counter
                BY <1>8, <3>5, <4>1 DEF AnswersG1
            <4>3. Message4Counts'
                BY <1>6, <2>4, <3>1, <4>1, <4>2 DEF Message4Counts, Up
            <4>4. OldAreReplays' /\ SharedKey'
                BY <1>6, <2>1, <2>4, <4>1, <4>2
                DEF OldAreReplays, SharedKey, Up
            <4>5. OrderlyAnswers'
                <5>1. ASSUME orderly, m.counter = ap.counter, Completes(m)'
                      PROVE  GroupInstalled'
                    <6>1. ap.rekeys
                        BY <1>6, <4>2, <5>1 DEF Completes
                    <6>2. f.gtk = ap.gtk
                        BY <1>2, <2>4, <2>9, <4>2, <5>1, <6>1
                        DEF LastHasGroupKey, CarriesGroupKey
                    <6>3. /\ sup'.gtk[f.gtk % 2] = f.gtk
                          /\ ~sup'.doing /\ ~sup'.timer
                        BY <1>8, <3>5 DEF AnswersG1
                    <6> QED
                        BY <1>6, <6>2, <6>3 DEF GroupInstalled
                <5> QED
                    BY <1>6, <3>2, <4>2, <5>1 DEF OrderlyAnswers
            <4>6. OrderlyStages'
                BY <1>6, <2>1, <2>4, <4>1, <4>2 DEF OrderlyStages, Up
            <4> QED
                BY <2>5, <4>3, <4>4, <4>5, <4>6
        <3>6. ~RefusesM3(f, out, m)
            BY <1>13 DEF RefusesM3
        <3> QED
            BY <2>9, <3>3, <3>4, <3>5, <3>6
    <2> QED
        BY <1>10, <2>8, <2>9
<1> QED
    BY <1>7, <1>9, <1>12, <1>13

(***************************************************************************)
(* The machine, the timer, links, master keys and the user.                *)
(***************************************************************************)
\* The supplicant changes in what its frames do not depend on.
LEMMA SupOk ==
    ASSUME Invariant, UNCHANGED <<net, orderly, ap, down, up>>,
           link' = link, sup' \in Supplicants, SameKeys(sup, sup'),
           TimerOk(sup'), sup'.pmk = sup.pmk,
           sup'.doing => sup.doing, sup'.timer => sup.timer
    PROVE  Invariant'
<1>1. /\ TypeOK /\ NewIsQuiet /\ Counted /\ Keyed /\ MasterKnown
      /\ Message4Counts /\ OldAreReplays /\ SharedKey /\ LastHasGroupKey
      /\ MasterKeyIsThere /\ InOrder /\ OrderlyAnswers /\ OrderlyStages
    BY DEF Invariant, Safe
<1>2. /\ sup'.ptk = sup.ptk /\ sup'.tk = sup.tk /\ sup'.gtk = sup.gtk
      /\ sup'.counter = sup.counter
    BY DEF SameKeys
<1>3. ToSup' = ToSup /\ FromSup' = FromSup
    BY DEF ToSup, FromSup
<1>4. TypeOK' /\ NewIsQuiet' /\ MasterKeyIsThere' /\ Keyed'
    BY <1>1, <1>3 DEF TypeOK, NewIsQuiet, MasterKeyIsThere, Keyed
<1>5. Counted' /\ MasterKnown'
    BY <1>1, <1>2, <1>3 DEF Counted, MasterKnown, Up, Psk, Wpa2
<1>6. Message4Counts' /\ OldAreReplays' /\ SharedKey'
    BY <1>1, <1>2, <1>3 DEF Message4Counts, OldAreReplays, SharedKey, Up
<1>7. LastHasGroupKey' /\ InOrder'
    BY <1>1, <1>3
    DEF LastHasGroupKey, CarriesGroupKey, Wpa2, InOrder, Increasing
<1>8. EapIsUntimed' /\ DoingIsTimed'
    BY DEF EapIsUntimed, DoingIsTimed, TimerOk, Psk
<1>9. GroupInstalled => GroupInstalled'
    BY <1>2 DEF GroupInstalled
<1>10. OrderlyAnswers' /\ OrderlyStages'
    BY <1>1, <1>2, <1>3, <1>9
    DEF OrderlyAnswers, OrderlyStages, Completes, Up, Wpa2
<1> QED
    BY <1>4, <1>5, <1>6, <1>7, <1>8, <1>10 DEF Invariant, Safe

LEMMA Timed == ASSUME Invariant PROVE TimerOk(sup)
BY DEF Invariant, Safe, EapIsUntimed, DoingIsTimed, TimerOk

LEMMA PskTimeoutOk ==
    ASSUME Invariant, PskTimeout, UNCHANGED <<net, orderly>>
    PROVE  Invariant'
<1> DEFINE s == [sup EXCEPT !.doing = FALSE, !.timer = FALSE,
                            !.told = "TIMEOUT"]
<1>1. sup' = s /\ UNCHANGED <<link, ap, down, up>>
    BY DEF PskTimeout
<1>2. /\ s \in Supplicants /\ SameKeys(sup, s) /\ TimerOk(s)
      /\ s.pmk = sup.pmk /\ ~s.doing /\ ~s.timer
    BY Facts DEF Supplicants, SameKeys, TimerOk
<1> HIDE DEF s
<1> QED
    BY <1>1, <1>2, SupOk

LEMMA SetPasswordOk ==
    ASSUME Invariant, SetPassword, UNCHANGED <<net, orderly>>
    PROVE  Invariant'
<1>1. PICK psk \in PskStates \cap {"right", "wrong"} :
         sup' = [sup EXCEPT !.psk = psk, !.told = NULL]
    BY DEF SetPassword
<1> DEFINE s == [sup EXCEPT !.psk = psk, !.told = NULL]
<1>2. sup' = s /\ UNCHANGED <<link, ap, down, up>>
    BY <1>1 DEF SetPassword
<1>3. /\ s \in Supplicants /\ SameKeys(sup, s) /\ TimerOk(s)
      /\ s.pmk = sup.pmk /\ s.doing = sup.doing /\ s.timer = sup.timer
    BY Facts, Timed DEF Supplicants, SameKeys, TimerOk
<1> HIDE DEF s
<1> QED
    BY <1>2, <1>3, SupOk

\* The machine sees the association, and nothing was answered before.
LEMMA MachineRunsOk ==
    ASSUME Invariant, MachineRuns, UNCHANGED <<net, orderly>>
    PROVE  Invariant'
<1>1. /\ link = "new" /\ link' = "up" /\ sup' = EndOfPass(sup)
      /\ UNCHANGED <<ap, down, up>>
    BY DEF MachineRuns
<1>2. /\ sup' \in Supplicants /\ sup'.counter = 0 /\ TimerOk(sup')
      /\ sup'.pmk = sup.pmk
    BY <1>1, Facts, Timed, EndOfPassOk DEF TimerOk
<1>3. /\ TypeOK /\ NewIsQuiet /\ Counted /\ Keyed /\ MasterKnown
      /\ LastHasGroupKey /\ MasterKeyIsThere /\ InOrder
    BY DEF Invariant, Safe
<1>4. ToSup' = ToSup /\ FromSup' = FromSup
    BY <1>1 DEF ToSup, FromSup
<1>5. FromSup' = {} /\ ap'.stage \in {"idle", "start"}
    BY <1>1, <1>3, <1>4, NoFrames DEF NewIsQuiet, FromSup
<1>6. TypeOK' /\ NewIsQuiet' /\ MasterKeyIsThere' /\ Keyed'
    BY <1>1, <1>2, <1>3
    DEF TypeOK, NewIsQuiet, MasterKeyIsThere, Keyed
<1>7. Counted' /\ MasterKnown'
    <2>1. sup'.counter <= ap'.counter
        BY <1>1, <1>2, Facts
    <2> QED
        BY <1>1, <1>2, <1>3, <1>4, <2>1
        DEF Counted, MasterKnown, Psk, Wpa2
<1>8. Message4Counts' /\ OldAreReplays' /\ SharedKey'
    BY <1>5 DEF Message4Counts, OldAreReplays, SharedKey
<1>9. LastHasGroupKey' /\ InOrder'
    BY <1>1, <1>3, <1>4
    DEF LastHasGroupKey, CarriesGroupKey, Wpa2, InOrder, Increasing
<1>10. EapIsUntimed' /\ DoingIsTimed'
    BY <1>2 DEF EapIsUntimed, DoingIsTimed, TimerOk, Psk
<1>11. OrderlyAnswers' /\ OrderlyStages'
    BY <1>5 DEF OrderlyAnswers, OrderlyStages
<1> QED
    BY <1>6, <1>7, <1>8, <1>9, <1>10, <1>11 DEF Invariant, Safe

\* An access point that knows nothing of a handshake.
LEMMA ResetOk ==
    ASSUME Invariant, NEW pmk \in Pmks \cup {NULL}, Reset(pmk)
    PROVE  /\ ap' \in AccessPoints /\ ap'.stage = "idle" /\ ~ap'.rekeys
           /\ ap'.counter = 0 /\ ap'.pmk = pmk
<1>1. ap' = [ap EXCEPT !.stage = "idle", !.rekeys = FALSE, !.counter = 0,
                       !.pmk = pmk, !.ptk = NULL]
    BY DEF Reset
<1>2. 0 \in 0 .. MaxCounter
    BY KeyAssumption
<1> QED
    BY <1>1, <1>2, Facts DEF AccessPoints

LEMMA LinkDropsOk ==
    ASSUME Invariant, LinkDrops, UNCHANGED <<net, orderly>>
    PROVE  Invariant'
<1> DEFINE told == IF sup.doing THEN "BAD" ELSE NULL
           s == [sup EXCEPT !.doing = FALSE, !.told = told]
<1>1. /\ link' = "down" /\ sup' = s /\ Reset(NULL)
      /\ down' = <<>> /\ up' = <<>>
    BY DEF LinkDrops
<1>2. told \in {NULL, "SUCCESS", "TIMEOUT", "BAD"}
    OBVIOUS
<1> HIDE DEF told
<1>3. s \in Supplicants /\ TimerOk(s) /\ s.pmk = sup.pmk
    BY <1>2, Facts, Timed DEF Supplicants, TimerOk
<1> HIDE DEF s
<1>4. /\ ap' \in AccessPoints /\ ap'.stage = "idle" /\ ~ap'.rekeys
      /\ ap'.pmk = NULL
    BY <1>1, ResetOk
<1>5. TypeOK'
    BY <1>1, <1>3, <1>4, Facts, NoFrames DEF TypeOK
<1>6. Keyed' /\ EapIsUntimed' /\ DoingIsTimed'
    BY <1>1, <1>3, <1>4 DEF Keyed, EapIsUntimed, DoingIsTimed, TimerOk, Psk
<1>7. MasterKnown' /\ FromSup' = {}
    BY <1>1, <1>4, NoFrames DEF MasterKnown, ToSup, FromSup
<1> QED
    BY <1>1, <1>5, <1>6, <1>7, NotUpOk

LEMMA ReinitOk ==
    ASSUME NEW s \in Supplicants
    PROVE  /\ Reinit(s) \in Supplicants
           /\ Reinit(s).doing = s.doing /\ Reinit(s).timer = s.timer
<1>1. 0 \in 0 .. MaxCounter
    BY KeyAssumption
<1> QED
    BY <1>1 DEF Reinit, Supplicants

LEMMA ChangeConnectionOk ==
    ASSUME Invariant, ChangeConnection, UNCHANGED orderly
    PROVE  Invariant'
<1>0. PICK n \in Networks : \E psk \in PskOf(n) :
         /\ net' = n /\ link' = "down"
         /\ sup' = [Reinit(sup) EXCEPT !.doing = FALSE, !.timer = FALSE,
                                       !.psk = psk, !.told = NULL]
         /\ Reset(NULL) /\ down' = <<>> /\ up' = <<>>
    BY DEF ChangeConnection
<1>1. PICK psk \in PskOf(n) :
         /\ net' = n /\ link' = "down"
         /\ sup' = [Reinit(sup) EXCEPT !.doing = FALSE, !.timer = FALSE,
                                       !.psk = psk, !.told = NULL]
         /\ Reset(NULL) /\ down' = <<>> /\ up' = <<>>
    BY <1>0
<1> DEFINE r == Reinit(sup)
           s == [r EXCEPT !.doing = FALSE, !.timer = FALSE, !.psk = psk,
                          !.told = NULL]
<1>2. r \in Supplicants
    BY Facts, ReinitOk
<1>3. psk \in PskStates \cup {"none"}
    BY <1>1 DEF PskOf
<1>4. sup' = s
    BY <1>1
<1> HIDE DEF r
<1>5. s \in Supplicants /\ ~s.doing /\ ~s.timer
    BY <1>2, <1>3 DEF Supplicants
<1> HIDE DEF s
<1>6. /\ ap' \in AccessPoints /\ ap'.stage = "idle" /\ ~ap'.rekeys
      /\ ap'.pmk = NULL
    BY <1>1, ResetOk
<1>7. TypeOK'
    BY <1>1, <1>4, <1>5, <1>6, Facts, NoFrames DEF TypeOK
<1>8. Keyed' /\ EapIsUntimed' /\ DoingIsTimed'
    BY <1>4, <1>5, <1>6 DEF Keyed, EapIsUntimed, DoingIsTimed
<1>9. MasterKnown' /\ FromSup' = {}
    BY <1>1, <1>6, NoFrames DEF MasterKnown, ToSup, FromSup
<1> QED
    BY <1>1, <1>7, <1>8, <1>9, NotUpOk

LEMMA EapKeyOk ==
    ASSUME NEW n \in 1 .. Len(EapKeys)
    PROVE  EapKeys[n] \in Pmks /\ EapKeys[n] # NULL
<1>1. EapKeys[n] \in Range(EapKeys)
    BY PmksAssumption, ElementOfSeq
<1> QED
    BY <1>1, PmksAssumption DEF Pmks

\* An access point that is idle has nothing to compare keys with.
LEMMA IdleOk ==
    ASSUME TypeOK', NewIsQuiet', Counted', MasterKnown', EapIsUntimed',
           DoingIsTimed', link' # "crashed",
           ap'.stage = "idle", ~ap'.rekeys,
           orderly' => down' = <<>> /\ up' = <<>>
    PROVE  Invariant'
<1>1. Keyed' /\ Message4Counts' /\ OldAreReplays' /\ SharedKey'
    BY DEF Keyed, Message4Counts, OldAreReplays, SharedKey
<1>2. LastHasGroupKey' /\ MasterKeyIsThere' /\ OrderlyStages'
    BY DEF LastHasGroupKey, CarriesGroupKey, MasterKeyIsThere, OrderlyStages
<1>3. InOrder' /\ OrderlyAnswers'
    BY NoFrames DEF InOrder, OrderlyAnswers, ToSup, FromSup
<1> QED
    BY <1>1, <1>2, <1>3 DEF Invariant, Safe

LEMMA EapSucceedsOk ==
    ASSUME Invariant, EapSucceeds, UNCHANGED <<net, orderly>>
    PROVE  Invariant'
<1> DEFINE n == ap.eaps + 1
           key == EapKeys[n]
           s == [sup EXCEPT !.pmk = key, !.told = NULL]
           a == [ap EXCEPT !.stage = "idle", !.rekeys = FALSE, !.ptk = NULL,
                           !.eaps = n, !.pmk = key]
<1>1. /\ link = "up" /\ link' = "up" /\ ap.eaps < Len(EapKeys)
      /\ sup' = s
      /\ ap' = [ap EXCEPT !.stage = "idle", !.rekeys = FALSE, !.ptk = NULL,
                          !.eaps = @ + 1, !.pmk = EapKeys[ap.eaps + 1]]
      /\ IF orderly THEN down' = <<>> /\ up' = <<>>
                    ELSE down' = down /\ up' = up
    BY DEF EapSucceeds
<1>2. n \in 1 .. Len(EapKeys) /\ n \in 0 .. Len(EapKeys)
    <2>1. Len(EapKeys) \in Nat /\ ap.eaps \in 0 .. Len(EapKeys)
        BY PmksAssumption, LenProperties, Facts DEF AccessPoints
    <2> QED
        BY <1>1, <2>1
<1>3. key \in Pmks /\ key # NULL
    BY <1>2, EapKeyOk
<1>4. ap' = a
    BY <1>1, Facts DEF AccessPoints
<1> HIDE DEF n, key
<1>5. /\ s \in Supplicants /\ TimerOk(s) /\ SameKeys(sup, s) /\ s.pmk = key
    BY <1>3, Facts, Timed DEF Supplicants, TimerOk, SameKeys
<1>6. /\ a \in AccessPoints /\ a.stage = "idle" /\ ~a.rekeys
      /\ a.counter = ap.counter
    BY <1>2, <1>3, Facts DEF AccessPoints
<1> HIDE DEF s, a
<1>7. /\ down' \in Seq(Frames) /\ Len(down') <= Capacity
      /\ up' \in Seq(Answers) /\ Len(up') <= Capacity
      /\ ToSup' \subseteq ToSup /\ FromSup' \subseteq FromSup
    BY <1>1, Facts, NoFrames DEF ToSup, FromSup
<1>8. TypeOK' /\ NewIsQuiet'
    BY <1>1, <1>4, <1>5, <1>6, <1>7, Facts DEF TypeOK, NewIsQuiet
<1>9. Counted'
    <2>1. Up' => sup'.counter <= ap'.counter
        BY <1>1, <1>4, <1>5, <1>6 DEF Invariant, Safe, Counted, Up, SameKeys
    <2> QED
        BY <1>4, <1>6, <1>7, <2>1, Facts DEF Counted
<1>10. MasterKnown' /\ EapIsUntimed' /\ DoingIsTimed'
    BY <1>1, <1>3, <1>5
    DEF MasterKnown, EapIsUntimed, DoingIsTimed, TimerOk, Psk
<1> QED
    BY <1>1, <1>4, <1>6, <1>8, <1>9, <1>10, IdleOk

LEMMA AssociatesOk ==
    ASSUME Invariant, Associates, UNCHANGED <<net, orderly>>
    PROVE  Invariant'
<1>1. PICK reinit \in BOOLEAN, pmk \in KnownPmks :
         /\ link' = "new"
         /\ LET s == [sup EXCEPT !.tk = NULL, !.gtk = [k \in {0, 1} |-> 0],
                                 !.snonce = 0, !.told = NULL]
            IN  sup' = IF reinit THEN Reinit(s) ELSE s
         /\ Reset(pmk) /\ down' = <<>> /\ up' = <<>>
    BY DEF Associates
<1> DEFINE slots == [k \in {0, 1} |-> 0]
           s == [sup EXCEPT !.tk = NULL, !.gtk = slots, !.snonce = 0,
                            !.told = NULL]
<1>2. slots \in [{0, 1} -> 0 .. MaxGtk] /\ 0 \in 0 .. MaxNonce
    BY KeyAssumption
<1>3. sup' = IF reinit THEN Reinit(s) ELSE s
    BY <1>1
<1> HIDE DEF slots
<1>4. s \in Supplicants /\ TimerOk(s)
    BY <1>2, Facts, Timed DEF Supplicants, TimerOk
<1> HIDE DEF s
<1>5. sup' \in Supplicants /\ TimerOk(sup')
    BY <1>3, <1>4, ReinitOk DEF TimerOk
<1>6. pmk \in Pmks \cup {NULL} /\ (~Psk /\ ~Wpa2 => pmk = NULL)
    <2>1. \A n \in 1 .. ap.eaps : EapKeys[n] \in Pmks
        <3>1. Len(EapKeys) \in Nat /\ ap.eaps \in 0 .. Len(EapKeys)
            BY PmksAssumption, LenProperties, Facts DEF AccessPoints
        <3>2. \A n \in 1 .. ap.eaps : n \in 1 .. Len(EapKeys)
            BY <3>1
        <3> QED
            BY <3>2, EapKeyOk
    <2>2. "psk" \in Pmks
        BY DEF Pmks
    <2> QED
        BY <1>1, <2>1, <2>2 DEF KnownPmks
<1>7. /\ ap' \in AccessPoints /\ ap'.stage = "idle" /\ ~ap'.rekeys
      /\ ap'.counter = 0 /\ ap'.pmk = pmk
    BY <1>1, <1>6, ResetOk
<1>8. ToSup' = {} /\ FromSup' = {} /\ TypeOK'
    BY <1>1, <1>5, <1>7, Facts, NoFrames DEF ToSup, FromSup, TypeOK
<1>9. NewIsQuiet' /\ Counted' /\ MasterKnown'
    BY <1>1, <1>6, <1>7, <1>8
    DEF NewIsQuiet, Counted, MasterKnown, Up, Psk, Wpa2
<1>10. EapIsUntimed' /\ DoingIsTimed'
    BY <1>5 DEF EapIsUntimed, DoingIsTimed, TimerOk, Psk
<1> QED
    BY <1>1, <1>7, <1>8, <1>9, <1>10, IdleOk

(***************************************************************************)
(* The theorems.                                                           *)
(***************************************************************************)
LEMMA InitOk == Init => Invariant
<1> SUFFICES ASSUME Init PROVE Invariant
    OBVIOUS
<1>1. /\ net \in Networks /\ orderly \in BOOLEAN /\ link = "down"
      /\ down = <<>> /\ up = <<>>
      /\ ap = [stage |-> "idle", rekeys |-> FALSE, counter |-> 0,
               anonce |-> 0, pmk |-> NULL, ptk |-> NULL, gtk |-> 1,
               eaps |-> 0]
    BY KeyAssumption DEF Init
<1>2. PICK psk \in PskOf(net) :
         sup = [counter |-> 0, snonce |-> 0, ptk |-> NULL, pmk |-> NULL,
                tk |-> NULL, gtk |-> [k \in {0, 1} |-> 0], doing |-> FALSE,
                timer |-> FALSE, psk |-> psk, told |-> NULL]
    BY DEF Init
<1>3. /\ 0 \in 0 .. MaxCounter /\ 0 \in 0 .. MaxNonce
      /\ 0 \in 0 .. MaxHandshakes /\ 1 \in 1 .. MaxGtk
      /\ 0 \in 0 .. Len(EapKeys)
      /\ [k \in {0, 1} |-> 0] \in [{0, 1} -> 0 .. MaxGtk]
    BY KeyAssumption, PmksAssumption, LenProperties
<1>4. psk \in PskStates \cup {"none"}
    BY <1>2 DEF PskOf
<1>5. sup \in Supplicants /\ ~sup.doing /\ ~sup.timer
    BY <1>2, <1>3, <1>4 DEF Supplicants
<1>6. /\ ap \in AccessPoints /\ ap.stage = "idle" /\ ~ap.rekeys
      /\ ap.pmk = NULL
    BY <1>1, <1>3 DEF AccessPoints
<1>7. ToSup = {} /\ FromSup = {} /\ Increasing(down) /\ TypeOK
    BY <1>1, <1>5, <1>6, NoFrames DEF ToSup, FromSup, TypeOK
<1>8. /\ NewIsQuiet /\ Counted /\ Keyed /\ MasterKnown /\ Message4Counts
      /\ OldAreReplays /\ SharedKey
    BY <1>1, <1>6, <1>7
    DEF NewIsQuiet, Counted, Keyed, MasterKnown, Message4Counts,
        OldAreReplays, SharedKey, Up
<1>9. /\ LastHasGroupKey /\ EapIsUntimed /\ DoingIsTimed /\ MasterKeyIsThere
      /\ InOrder /\ OrderlyAnswers /\ OrderlyStages
    BY <1>1, <1>5, <1>7
    DEF LastHasGroupKey, EapIsUntimed, DoingIsTimed, MasterKeyIsThere,
        InOrder, OrderlyAnswers, OrderlyStages, Up
<1> QED
    BY <1>7, <1>8, <1>9 DEF Invariant, Safe

LEMMA StutterOk == ASSUME Invariant, UNCHANGED vars PROVE Invariant'
<1>1. /\ UNCHANGED <<net, orderly, ap, down, up>> /\ link' = link
      /\ sup' = sup
    BY DEF vars
<1> QED
    BY <1>1, Facts, Timed, SupOk DEF SameKeys

\* Every step keeps the invariant.
LEMMA StepOk == ASSUME Invariant, [Next]_vars PROVE Invariant'
<1>1. CASE AccessPointActs /\ UNCHANGED <<net, orderly, link, sup>>
    BY <1>1, ApStartsOk, ApRepeatsOk, ApRekeysOk, ApReceivesOk
    DEF AccessPointActs
<1>2. CASE LosesFrame /\ UNCHANGED <<net, orderly, link, sup, ap>>
    BY <1>2, LosesFrameOk
<1>3. CASE Receives /\ UNCHANGED <<net, orderly>>
    BY <1>3, ReceivesOk
<1>4. CASE MachineRuns /\ UNCHANGED <<net, orderly>>
    BY <1>4, MachineRunsOk
<1>5. CASE PskTimeout /\ UNCHANGED <<net, orderly>>
    BY <1>5, PskTimeoutOk
<1>6. CASE LinkDrops /\ UNCHANGED <<net, orderly>>
    BY <1>6, LinkDropsOk
<1>7. CASE Associates /\ UNCHANGED <<net, orderly>>
    BY <1>7, AssociatesOk
<1>8. CASE EapSucceeds /\ UNCHANGED <<net, orderly>>
    BY <1>8, EapSucceedsOk
<1>9. CASE SetPassword /\ UNCHANGED <<net, orderly>>
    BY <1>9, SetPasswordOk
<1>10. CASE ChangeConnection /\ UNCHANGED orderly
    BY <1>10, ChangeConnectionOk
<1>11. CASE UNCHANGED vars
    BY <1>11, StutterOk
<1> QED
    BY <1>1, <1>2, <1>3, <1>4, <1>5, <1>6, <1>7, <1>8, <1>9, <1>10, <1>11
    DEF Next

\* The invariant holds in every state of every behaviour.
LEMMA KeysInductive == Spec => []Invariant
BY InitOk, StepOk, PTL DEF Spec

\* The handshakes stay within their types: no answer and no message 3 is ever
\* made without a transient key, and no link carries more than it can hold
\* (eapol_key_type2_do_type1, eapol_key_type2_do_type3).
THEOREM KeysTypeCorrect == Spec => []TypeOK
<1>1. Invariant => TypeOK
    BY DEF Invariant, Safe
<1> QED
    BY <1>1, KeysInductive, PTL

\* Whatever is lost, repeated or overtaken, an access point that is done
\* with the four-way handshake shares the installed key with the supplicant,
\* which can read what comes next (eapol_key_type2.c:1219,
\* eapol_key_type254.c).
THEOREM SharedKeyTheorem == Spec => []SharedKey
<1>1. Invariant => SharedKey
    BY DEF Invariant, Safe
<1> QED
    BY <1>1, KeysInductive, PTL

\* On a link that keeps the order a repeated message 1 never makes message 3
\* unreadable (eapol_key_type2_do_type1).
THEOREM CanFinishTheorem == Spec => []CanFinish
<1>1. Invariant => CanFinish
    BY DEF Invariant, OrderlyStages, CanFinish
<1> QED
    BY <1>1, KeysInductive, PTL

\* On such a link the group key of an access point that is done is in the
\* card, in the slot of its index (eapol_key_type2_do_gtk).
THEOREM GroupAgreesTheorem == Spec => []GroupAgrees
<1>1. Invariant => GroupAgrees
    BY DEF Invariant, OrderlyStages, GroupInstalled, GroupAgrees, Complete
<1> QED
    BY <1>1, KeysInductive, PTL

\* WIRELESS_SM_DOING_PSK is never set without PSK_DEATH_TIMER, which would
\* make the next lost link look like a wrong key (eapol_key_type2.c).
THEOREM DoingIsTimedTheorem == Spec => []DoingIsTimed
<1>1. Invariant => DoingIsTimed
    BY DEF Invariant, Safe
<1> QED
    BY <1>1, KeysInductive, PTL

\* WPA finds a master key whenever it looks for one, so it does not follow a
\* NULL pointer (eapol_key_type254.c:204).
THEOREM MasterKeyTheorem == Spec => []MasterKeyIsThere
<1>1. Invariant => MasterKeyIsThere
    BY DEF Invariant, Safe
<1> QED
    BY <1>1, KeysInductive, PTL

\* A step from a state in which both handshakes are complete.
LEMMA VerdictStep ==
    ASSUME Invariant, [Next]_vars, orderly, Complete
    PROVE  sup'.told = sup.told \/ sup'.told \in {NULL, "SUCCESS"}
<1>1. down = <<>> /\ ~sup.doing /\ ~sup.timer /\ link = "up"
    BY DEF Invariant, OrderlyStages, GroupInstalled, Complete, Up
<1>2. sup \in Supplicants
    BY Facts
<1>3. CASE UNCHANGED sup
    BY <1>3
<1>4. ~Receives
    <2>1. Received(down) = {}
        BY <1>1, RangeOf, EmptySeq, Facts DEF Received
    <2> QED
        BY <2>1 DEF Receives
<1>5. ~MachineRuns /\ ~PskTimeout
    BY <1>1 DEF MachineRuns, PskTimeout
<1>6. CASE LinkDrops
    BY <1>1, <1>2, <1>6 DEF LinkDrops, Supplicants
<1>7. CASE Associates
    BY <1>2, <1>7 DEF Associates, Reinit, Supplicants
<1>8. CASE EapSucceeds
    BY <1>2, <1>8 DEF EapSucceeds, Supplicants
<1>9. CASE SetPassword
    BY <1>2, <1>9 DEF SetPassword, Supplicants
<1>10. CASE ChangeConnection
    BY <1>2, <1>10 DEF ChangeConnection, Reinit, Supplicants
<1> QED
    BY <1>3, <1>4, <1>5, <1>6, <1>7, <1>8, <1>9, <1>10
    DEF Next, LosesFrame, vars

\* On a link that keeps the order the user interface is never told that the
\* pre-shared key failed once both handshakes are complete
\* (eapol_key_type2_psk_timeout, cardif_linux_rtnetlink.c).
THEOREM VerdictIsTrueTheorem == Spec => VerdictIsTrue
<1>1. Invariant /\ [Next]_vars =>
          [orderly /\ Complete =>
             sup'.told = sup.told \/ sup'.told \in {NULL, "SUCCESS"}]_vars
    BY VerdictStep
<1> QED
    BY <1>1, KeysInductive, PTL DEF Spec, VerdictIsTrue
=============================================================================

--------------------------- MODULE WirelessProofs ---------------------------
(***************************************************************************)
(* Theorems of WirelessLink for every configuration: its types, that no    *)
(* wait is without a timer, and that the port follows the link.            *)
(***************************************************************************)
EXTENDS WirelessProperties, TLAPS

(***************************************************************************)
(* Timers.                                                                 *)
(***************************************************************************)
\* The periods are in range, and not zero.
LEMMA Periods ==
    /\ RescanSecs \in Seconds \ {0} /\ AssocSecs \in Seconds \ {0}
    /\ PassiveSecs \in Seconds \ {0} /\ HeldSecs \in Seconds \ {0}
    /\ PollSecs \in Seconds \ {0}
BY WirelessAssumption, ModulusAssumption DEF Seconds

\* timer_add_timer: the kind has a node afterwards, the others as before.
LEMMA AddedTimer ==
    ASSUME NEW l \in TimerLists, NEW t \in Timers, NEW secs \in Seconds \ {0}
    PROVE  /\ AddTimer(l, t, secs) \in TimerLists
           /\ \A u \in Timers : Running(AddTimer(l, t, secs), u)
                                    <=> Running(l, u) \/ u = t
<1>1. secs # Off /\ secs # 0
    BY ModulusAssumption DEF Seconds, Off
<1>2. CASE Running(l, t)
    BY <1>2 DEF AddTimer
<1>3. CASE ~Running(l, t)
    <2> DEFINE before == {u \in Timers : Running(l, u)}
    <2>1. AddTimer(l, t, secs) =
             [l EXCEPT !.left[t] = secs, !.ahead[t] = before]
        BY <1>1, <1>3 DEF AddTimer
    <2>2. before \in SUBSET Timers
        OBVIOUS
    <2> HIDE DEF before
    <2>3. AddTimer(l, t, secs) =
             [left |-> [l.left EXCEPT ![t] = secs],
              ahead |-> [l.ahead EXCEPT ![t] = before]]
        BY <2>1 DEF TimerLists
    <2>4. AddTimer(l, t, secs) \in TimerLists
        BY <2>2, <2>3 DEF TimerLists
    <2>5. \A u \in Timers : Running(AddTimer(l, t, secs), u)
                                <=> Running(l, u) \/ u = t
        BY <1>1, <2>3 DEF TimerLists, Running
    <2> QED
        BY <2>4, <2>5
<1> QED
    BY <1>2, <1>3

\* timer_reset_timer_count: the same nodes.
LEMMA ResetTimers ==
    ASSUME NEW l \in TimerLists, NEW t \in Timers, NEW secs \in Seconds
    PROVE  /\ ResetTimer(l, t, secs) \in TimerLists
           /\ \A u \in Timers : Running(ResetTimer(l, t, secs), u)
                                    <=> Running(l, u)
<1>1. secs # Off
    BY ModulusAssumption DEF Seconds, Off
<1> QED
    BY <1>1 DEF ResetTimer, TimerLists, Running

\* timer_cancel: the kind has no node afterwards, the others as before.
LEMMA CancelledTimer ==
    ASSUME NEW l \in TimerLists, NEW t \in Timers
    PROVE  /\ CancelTimer(l, t) \in TimerLists
           /\ \A u \in Timers : Running(CancelTimer(l, t), u)
                                    <=> Running(l, u) /\ u # t
BY DEF CancelTimer, TimerLists, Running, Off

\* A second less: the same nodes, unless the kind has none.
LEMMA CountedDown ==
    ASSUME NEW l \in TimerLists, NEW t \in Timers, Running(l, t)
    PROVE  /\ CountDown(l, t) \in TimerLists
           /\ \A u \in Timers : Running(CountDown(l, t), u)
                                    <=> Running(l, u)
<1>1. l.left[t] \in Nat /\ l.left[t] < Modulus
    BY ModulusAssumption DEF TimerLists, Running, Seconds
<1>2. (l.left[t] + Modulus - 1) % Modulus \in Seconds
    BY <1>1, ModulusAssumption DEF Seconds
<1>3. \A x \in Seconds : x # Off
    BY ModulusAssumption DEF Seconds, Off
<1> QED
    BY <1>2, <1>3 DEF CountDown, TimerLists, Running

(***************************************************************************)
(* The timers of a context.  The rest of it stays as it is.                *)
(***************************************************************************)
\* What the invariants are about, the timers aside.
SameWait(c, d) ==
    /\ d.state = c.state /\ d.checked = c.checked /\ d.scanning = c.scanning
    /\ d.control = c.control /\ d.conn = c.conn /\ d.port = c.port

\* The same timers, the passive scan's aside.
SameTimers(c, d) ==
    \A u \in Timers \ {"PASSIVE_SCAN"} :
       Running(d.timers, u) <=> Running(c.timers, u)

LEMMA Added ==
    ASSUME NEW c \in Contexts, NEW t \in Timers, NEW secs \in Seconds \ {0}
    PROVE  /\ Add(c, t, secs) \in Contexts
           /\ SameWait(c, Add(c, t, secs))
           /\ \A u \in Timers : Running(Add(c, t, secs).timers, u)
                                    <=> Running(c.timers, u) \/ u = t
<1>1. c.timers \in TimerLists
    BY DEF Contexts
<1>2. Add(c, t, secs).timers = AddTimer(c.timers, t, secs)
    BY DEF Add, Contexts
<1>3. AddTimer(c.timers, t, secs) \in TimerLists
    BY <1>1, AddedTimer
<1>4. Add(c, t, secs) \in Contexts
    BY <1>3 DEF Add, Contexts
<1>5. SameWait(c, Add(c, t, secs))
    BY DEF Add, Contexts, SameWait
<1> QED
    BY <1>1, <1>2, <1>4, <1>5, AddedTimer

LEMMA WasReset ==
    ASSUME NEW c \in Contexts, NEW t \in Timers, NEW secs \in Seconds
    PROVE  /\ Reset(c, t, secs) \in Contexts
           /\ SameWait(c, Reset(c, t, secs))
           /\ \A u \in Timers : Running(Reset(c, t, secs).timers, u)
                                    <=> Running(c.timers, u)
<1>1. c.timers \in TimerLists
    BY DEF Contexts
<1>2. Reset(c, t, secs).timers = ResetTimer(c.timers, t, secs)
    BY DEF Reset, Contexts
<1>3. ResetTimer(c.timers, t, secs) \in TimerLists
    BY <1>1, ResetTimers
<1>4. Reset(c, t, secs) \in Contexts
    BY <1>3 DEF Reset, Contexts
<1>5. SameWait(c, Reset(c, t, secs))
    BY DEF Reset, Contexts, SameWait
<1> QED
    BY <1>1, <1>2, <1>4, <1>5, ResetTimers

LEMMA Cancelled ==
    ASSUME NEW c \in Contexts, NEW t \in Timers
    PROVE  /\ Cancel(c, t) \in Contexts
           /\ SameWait(c, Cancel(c, t))
           /\ \A u \in Timers : Running(Cancel(c, t).timers, u)
                                    <=> Running(c.timers, u) /\ u # t
<1>1. c.timers \in TimerLists
    BY DEF Contexts
<1>2. Cancel(c, t).timers = CancelTimer(c.timers, t)
    BY DEF Cancel, Contexts
<1>3. CancelTimer(c.timers, t) \in TimerLists
    BY <1>1, CancelledTimer
<1>4. Cancel(c, t) \in Contexts
    BY <1>3 DEF Cancel, Contexts
<1>5. SameWait(c, Cancel(c, t))
    BY DEF Cancel, Contexts, SameWait
<1> QED
    BY <1>1, <1>2, <1>4, <1>5, CancelledTimer

LEMMA AddedOrReset ==
    ASSUME NEW c \in Contexts, NEW t \in Timers, NEW secs \in Seconds \ {0}
    PROVE  /\ AddOrReset(c, t, secs) \in Contexts
           /\ SameWait(c, AddOrReset(c, t, secs))
           /\ \A u \in Timers : Running(AddOrReset(c, t, secs).timers, u)
                                    <=> Running(c.timers, u) \/ u = t
BY Added, WasReset DEF AddOrReset

(***************************************************************************)
(* The port machine.                                                       *)
(***************************************************************************)
\* The invariants see the same context; the passive scan timer may change.
Alike(c, d) == d \in Contexts /\ SameWait(c, d) /\ SameTimers(c, d)

LEMMA PassiveScanKilled ==
    ASSUME NEW c \in Contexts
    PROVE  Alike(c, KillPassiveScan(c))
<1>1. "PASSIVE_SCAN" \in Timers
    BY DEF Timers
<1>2. CASE Running(c.timers, "PASSIVE_SCAN")
    BY <1>2 DEF KillPassiveScan, Alike, SameWait, SameTimers
<1>3. CASE ~Running(c.timers, "PASSIVE_SCAN")
    BY <1>1, <1>3, Cancelled DEF KillPassiveScan, Alike, SameTimers
<1> QED
    BY <1>2, <1>3

LEMMA PassiveScanStarted ==
    ASSUME NEW c \in Contexts
    PROVE  Alike(c, StartPassiveScan(c))
<1>1. CASE PassiveScan
    <2>1. "PASSIVE_SCAN" \in Timers
        BY DEF Timers
    <2>2. Alike(c, AddOrReset(c, "PASSIVE_SCAN", PassiveSecs))
        BY <2>1, Periods, AddedOrReset DEF Alike, SameTimers
    <2> QED
        BY <1>1, <2>2 DEF StartPassiveScan
<1>2. CASE ~PassiveScan
    BY <1>2 DEF StartPassiveScan, Alike, SameWait, SameTimers
<1> QED
    BY <1>1, <1>2

\* The change to DISCONNECTED closes the port and keeps the rest.
LEMMA WasDisconnected ==
    ASSUME NEW c \in Contexts
    PROVE  /\ Disconnected(c) \in Contexts
           /\ Disconnected(c).port = "UNAUTHORIZED"
           /\ Disconnected(c).state = c.state
           /\ Disconnected(c).checked = c.checked
           /\ Disconnected(c).control = c.control
           /\ Disconnected(c).conn = c.conn
           /\ SameTimers(c, Disconnected(c))
<1> DEFINE d == KillPassiveScan(c)
<1>1. Alike(c, d)
    BY PassiveScanKilled
<1>2. Disconnected(c) = [d EXCEPT !.port = "UNAUTHORIZED"]
    BY DEF Disconnected
<1> HIDE DEF d
<1> QED
    BY <1>1, <1>2 DEF Alike, SameWait, SameTimers, Contexts

\* A run of the port machine changes the port alone, and keeps it shut when
\* it was shut and portControl says so.
LEMMA PaeRan ==
    ASSUME NEW c \in Contexts,
           NEW verdict \in {"AUTHORIZED", "UNAUTHORIZED", "AS_IS"}
    PROVE  /\ PaeRun(c, verdict) \in Contexts
           /\ PaeRun(c, verdict).state = c.state
           /\ PaeRun(c, verdict).checked = c.checked
           /\ PaeRun(c, verdict).control = c.control
           /\ PaeRun(c, verdict).conn = c.conn
           /\ SameTimers(c, PaeRun(c, verdict))
           /\ c.control = "FORCE_UNAUTHORIZED" /\ c.port = "UNAUTHORIZED"
                 => PaeRun(c, verdict).port = "UNAUTHORIZED"
<1> DEFINE d == StartPassiveScan(c)
<1>1. Alike(c, d)
    BY PassiveScanStarted
<1>2. CASE verdict = "AS_IS"
    BY <1>2 DEF PaeRun, SameTimers
<1>3. CASE c.control # "AUTO" /\ verdict # "AS_IS"
    BY <1>3 DEF PaeRun, ForceAuth, ForceUnauth, SameTimers, Contexts, Controls
<1>4. CASE c.control = "AUTO" /\ verdict = "AUTHORIZED"
    <2>1. PaeRun(c, verdict) = [d EXCEPT !.port = "AUTHORIZED"]
        BY <1>4 DEF PaeRun
    <2> HIDE DEF d
    <2> QED
        BY <1>1, <1>4, <2>1 DEF Alike, SameWait, SameTimers, Contexts
<1>5. CASE c.control = "AUTO" /\ verdict = "UNAUTHORIZED"
    BY <1>5 DEF PaeRun, SameTimers, Contexts
<1> QED
    BY <1>2, <1>3, <1>4, <1>5

\* statemachine_reinit.
LEMMA WasReinit ==
    ASSUME NEW c \in Contexts
    PROVE  /\ Reinit(c) \in Contexts
           /\ Reinit(c).port = "UNAUTHORIZED"
           /\ Reinit(c).state = c.state /\ Reinit(c).checked = c.checked
           /\ Reinit(c).conn = c.conn /\ Reinit(c).timers = c.timers
BY DEF Reinit, Contexts, Controls

(***************************************************************************)
(* What holds of a context: its type, its timers and, when p is "shut",    *)
(* that the port is shut off the link.  A late frame ends the last.        *)
(***************************************************************************)
Sound(c, p) ==
    c \in Contexts /\ Timed(c) /\ (p = "shut" => ShutOffLink(c))

\* A pause needs the rescan timer, a held interface and an association theirs.
LEMMA SoundAlike ==
    ASSUME NEW p, NEW c, NEW d \in Contexts, Sound(c, p), SameTimers(c, d),
           d.state = c.state, d.checked = c.checked, d.control = c.control,
           d.port = "UNAUTHORIZED" \/ d.port = c.port
    PROVE  Sound(d, p)
BY DEF Sound, Timed, ShutOffLink, OpenStates, SameTimers,
       Pausing, Timers

\* The flags and the configuration are none of its business.
LEMMA SoundSame ==
    ASSUME NEW p, NEW c, NEW d \in Contexts, Sound(c, p),
           d.state = c.state, d.checked = c.checked, d.control = c.control,
           d.port = c.port, d.timers = c.timers
    PROVE  Sound(d, p)
BY SoundAlike DEF SameTimers

LEMMA SoundFlags ==
    ASSUME NEW p, NEW c, Sound(c, p), NEW b \in BOOLEAN
    PROVE  /\ Sound([c EXCEPT !.portActive = b], p)
           /\ Sound([c EXCEPT !.assoc = b], p)
           /\ Sound([c EXCEPT !.dropsOut = b], p)
           /\ Sound([c EXCEPT !.discReq = b], p)
           /\ Sound([c EXCEPT !.scanning = b], p)
           /\ Sound([c EXCEPT !.forced = b], p)
           /\ Sound([c EXCEPT !.pasv = b], p)
<1>1. c \in Contexts
    BY DEF Sound
<1>2. ASSUME NEW d \in {[c EXCEPT !.portActive = b], [c EXCEPT !.assoc = b],
                        [c EXCEPT !.dropsOut = b], [c EXCEPT !.discReq = b],
                        [c EXCEPT !.scanning = b], [c EXCEPT !.forced = b],
                        [c EXCEPT !.pasv = b]}
      PROVE  Sound(d, p)
    <2>1. d \in Contexts
        BY <1>1 DEF Contexts
    <2>2. /\ d.state = c.state /\ d.checked = c.checked
          /\ d.control = c.control /\ d.port = c.port
          /\ d.timers = c.timers
        BY <1>1 DEF Contexts
    <2> QED
        BY <2>1, <2>2, SoundSame
<1> QED
    BY <1>2

(***************************************************************************)
(* Changes of state.                                                       *)
(***************************************************************************)
LEMMA ToIntHeld ==
    ASSUME NEW p, NEW c \in Contexts, p = "shut" => c.port = "UNAUTHORIZED"
    PROVE  Sound(ChangeToIntHeld(c), p)
<1> DEFINE d == Add(c, "INT_HELD", HeldSecs)
<1>1. /\ d \in Contexts /\ d.port = c.port
      /\ Running(d.timers, "INT_HELD")
    BY Periods, Added DEF Timers, SameWait
<1>2. ChangeToIntHeld(c) =
         [d EXCEPT !.scanning = FALSE, !.state = "INT_HELD"]
    BY DEF ChangeToIntHeld
<1> HIDE DEF d
<1> QED
    BY <1>1, <1>2
    DEF Sound, Timed, ShutOffLink, OpenStates, Pausing,
                      Contexts, States

\* A scan that starts keeps everything but its flag and its timer.
LEMMA ScanDone ==
    ASSUME NEW c \in Contexts, NEW in \in Inputs
    PROVE  /\ DoScan(c, in) \in Contexts
           /\ DoScan(c, in).state = c.state
           /\ DoScan(c, in).checked = c.checked
           /\ DoScan(c, in).control = c.control
           /\ DoScan(c, in).port = c.port
           /\ \A u \in Timers : Running(c.timers, u)
                                    => Running(DoScan(c, in).timers, u)
<1> DEFINE d == Add(c, "SCANCHECK", AssocSecs)
<1>1. /\ d \in Contexts /\ SameWait(c, d)
      /\ \A u \in Timers : Running(c.timers, u) => Running(d.timers, u)
    <2>1. "SCANCHECK" \in Timers
        BY DEF Timers
    <2> QED
        BY <2>1, Periods, Added
<1>2. CASE c.scanning \/ ~in.scanWorks
    BY <1>2 DEF DoScan
<1>3. CASE ~(c.scanning \/ ~in.scanWorks)
    <2>1. DoScan(c, in) = [d EXCEPT !.scanning = TRUE]
        BY <1>3 DEF DoScan
    <2> HIDE DEF d
    <2> QED
        BY <1>1, <2>1 DEF SameWait, Contexts
<1> QED
    BY <1>2, <1>3

LEMMA ToActiveScan ==
    ASSUME NEW p, NEW c \in Contexts, NEW in \in Inputs
    PROVE  Sound(ChangeToActiveScan(c, in), p)
<1> DEFINE old == [c EXCEPT !.checked = FALSE, !.state = "ACTIVE_SCAN"]
           fresh == Reinit(old)
<1>1. /\ old \in Contexts /\ old.state = "ACTIVE_SCAN" /\ ~old.checked
    BY DEF Contexts, States
<1> HIDE DEF old
<1>2. /\ fresh \in Contexts /\ fresh.state = "ACTIVE_SCAN"
      /\ ~fresh.checked /\ fresh.port = "UNAUTHORIZED"
    BY <1>1, WasReinit
<1> HIDE DEF fresh
<1>3. CASE CanScan(c, in)
    <2>1. ChangeToActiveScan(c, in) = DoScan(fresh, in)
        BY <1>3 DEF ChangeToActiveScan, fresh, old
    <2> QED
        BY <1>2, <2>1, ScanDone
        DEF Sound, Timed, ShutOffLink, OpenStates, Pausing
<1>4. CASE ~CanScan(c, in)
    <2>1. ChangeToActiveScan(c, in)
             = ChangeToIntHeld(Cancel(fresh, "SCANCHECK"))
        BY <1>4 DEF ChangeToActiveScan, fresh, old
    <2>2. /\ Cancel(fresh, "SCANCHECK") \in Contexts
          /\ Cancel(fresh, "SCANCHECK").port = "UNAUTHORIZED"
        BY <1>2, Cancelled DEF Timers, SameWait
    <2> QED
        BY <2>1, <2>2, ToIntHeld
<1> QED
    BY <1>3, <1>4

LEMMA ToUnassociated ==
    ASSUME NEW p, NEW c, Sound(c, p), NEW in \in Inputs
    PROVE  Sound(ChangeToUnassociated(c, in), p)
BY WasDisconnected, ToActiveScan DEF ChangeToUnassociated, Sound

\* Started, the attempt has its timer.
LEMMA AttemptStarted ==
    ASSUME NEW c \in Contexts
    PROVE  /\ StartAssociating(c) \in Contexts
           /\ StartAssociating(c).state = "ASSOCIATING"
           /\ StartAssociating(c).port = c.port
           /\ StartAssociating(c).conn = c.conn
           /\ Running(StartAssociating(c).timers, "ASSOCIATION")
<1> DEFINE d == AddOrReset(c, "ASSOCIATION", AssocSecs)
<1>1. /\ d \in Contexts /\ SameWait(c, d)
      /\ Running(d.timers, "ASSOCIATION")
    BY Periods, AddedOrReset DEF Timers
<1>2. StartAssociating(c) = [d EXCEPT !.state = "ASSOCIATING"]
    BY DEF StartAssociating
<1> HIDE DEF d
<1> QED
    BY <1>1, <1>2 DEF SameWait, Contexts, States

LEMMA ToAssociating ==
    ASSUME NEW p, NEW c \in Contexts, NEW in \in Inputs,
           c.conn = NONE => Sound(c, p)
    PROVE  Sound(ChangeToAssociating(c, in), p)
<1> DEFINE old == Cancel(c, "RESCAN")
           begun == StartAssociating(old)
           started == Reinit(begun)
<1>1. old \in Contexts
    BY Cancelled DEF Timers
<1>2. /\ begun \in Contexts /\ begun.state = "ASSOCIATING"
      /\ Running(begun.timers, "ASSOCIATION")
    BY <1>1, AttemptStarted
<1>3. Sound(started, p)
    BY <1>2, WasReinit
    DEF Sound, Timed, ShutOffLink, OpenStates, Pausing
<1>4. Cancel(started, "ASSOCIATION") \in Contexts
    BY <1>3, Cancelled DEF Sound, Timers
<1>5. Sound(AssociationTimeout(started, in), p)
    BY <1>4, ToActiveScan DEF AssociationTimeout
<1> QED
    BY <1>3, <1>5 DEF ChangeToAssociating

LEMMA ToAssociated ==
    ASSUME NEW p, NEW c, Sound(c, p), NEW in \in Inputs
    PROVE  Sound(ChangeToAssociated(c, in), p)
<1> DEFINE scanOver == IF c.state = "ACTIVE_SCAN" THEN Cancel(c, "RESCAN")
                       ELSE c
           calm == Cancel(Cancel(scanOver, "ASSOCIATION"), "SCANCHECK")
           timed == Add(calm, "SIG_STRENGTH", PollSecs)
           joined == [timed EXCEPT !.state = "ASSOCIATED", !.forced = TRUE]
           psk == c.conn # NONE /\ KindOf[c.conn] = "psk"
           played == IF psk THEN StartPassiveScan(joined) ELSE joined
<1>1. scanOver \in Contexts
    BY Cancelled DEF Sound, Timers
<1>2. Cancel(scanOver, "ASSOCIATION") \in Contexts
    BY <1>1, Cancelled DEF Timers
<1>3. calm \in Contexts
    BY <1>2, Cancelled DEF Timers
<1>4. timed \in Contexts
    BY <1>3, Periods, Added DEF Timers
<1> HIDE DEF timed
<1>5. joined \in Contexts /\ joined.state = "ASSOCIATED"
    BY <1>4 DEF Contexts, States
<1> HIDE DEF joined
<1>6. played \in Contexts /\ played.state = "ASSOCIATED"
    BY <1>5, PassiveScanStarted DEF Alike, SameWait
<1>7. /\ ForceAuth(played) \in Contexts
      /\ ForceAuth(played).state = "ASSOCIATED"
    BY <1>6 DEF ForceAuth, Contexts, Controls
<1>8. Sound(joined, p) /\ Sound(ForceAuth(played), p)
    BY <1>5, <1>7
    DEF Sound, Timed, ShutOffLink, OpenStates, Pausing
<1>9. ChangeToAssociated(c, in) \in {c, joined, ForceAuth(played)}
    BY DEF ChangeToAssociated, joined, timed
<1> QED
    BY <1>8, <1>9

LEMMA ToPortDown ==
    ASSUME NEW p, NEW c \in Contexts
    PROVE  Sound(ChangeToPortDown(c), p)
<1> DEFINE old == [c EXCEPT !.state = "PORT_DOWN"]
           d == ChangeToPortDown(c)
<1>1. old \in Contexts /\ old.state = "PORT_DOWN"
    BY DEF Contexts, States
<1>2. d = Reinit(old)
    BY DEF ChangeToPortDown
<1> HIDE DEF old, d
<1>3. d \in Contexts /\ d.state = "PORT_DOWN" /\ d.port = "UNAUTHORIZED"
    BY <1>1, <1>2, WasReinit
<1>4. Sound(d, p)
    BY <1>3 DEF Sound, Timed, ShutOffLink, OpenStates, Pausing
<1> QED
    BY <1>4 DEF d

(***************************************************************************)
(* wireless_sm_do_state.                                                   *)
(***************************************************************************)
LEMMA AssociatedRan ==
    ASSUME NEW p, NEW c, Sound(c, p), NEW in \in Inputs,
           c.state \in {"ASSOCIATED", "INT_STOPPED"}
    PROVE  Sound(DoAssociated(c, in), p)
<1>1. in.verdict \in {"AUTHORIZED", "UNAUTHORIZED", "AS_IS"}
    BY DEF Inputs
<1>2. Sound(PaeRun(c, in.verdict), p)
    <2> DEFINE d == PaeRun(c, in.verdict)
    <2>1. /\ d \in Contexts /\ d.state = c.state /\ d.control = c.control
          /\ c.control = "FORCE_UNAUTHORIZED" /\ c.port = "UNAUTHORIZED"
                => d.port = "UNAUTHORIZED"
        BY <1>1, PaeRan DEF Sound
    <2>2. p = "shut" /\ c.state = "INT_STOPPED" => c.port = "UNAUTHORIZED"
        BY DEF Sound, ShutOffLink, OpenStates, Contexts
    <2> HIDE DEF d
    <2>3. Sound(d, p)
        BY <2>1, <2>2
        DEF Sound, Timed, ShutOffLink, OpenStates, Pausing
    <2> QED
        BY <2>3 DEF d
<1> QED
    BY <1>2 DEF DoAssociated

LEMMA ToIntStopped ==
    ASSUME NEW p, NEW c \in Contexts, NEW in \in Inputs
    PROVE  Sound(ChangeToIntStopped(c, in), p)
<1> DEFINE d == DoAssociated(c, in)
<1>1. in.verdict \in {"AUTHORIZED", "UNAUTHORIZED", "AS_IS"}
    BY DEF Inputs
<1>2. d \in Contexts
    BY <1>1, PaeRan DEF DoAssociated
<1>3. ChangeToIntStopped(c, in) =
        [ForceUnauth(d) EXCEPT !.state = "INT_STOPPED"]
    BY DEF ChangeToIntStopped
<1> HIDE DEF d
<1> DEFINE shut == ForceUnauth(d)
           e == [shut EXCEPT !.state = "INT_STOPPED"]
<1>4. /\ shut \in Contexts /\ shut.port = "UNAUTHORIZED"
      /\ shut.control = "FORCE_UNAUTHORIZED"
    BY <1>2 DEF ForceUnauth, Contexts, Controls
<1> HIDE DEF shut
<1>5. /\ e \in Contexts /\ e.port = "UNAUTHORIZED"
      /\ e.control = "FORCE_UNAUTHORIZED" /\ e.state = "INT_STOPPED"
    BY <1>4 DEF Contexts, States
<1>6. ChangeToIntStopped(c, in) = e
    BY <1>3 DEF shut
<1> HIDE DEF e
<1>7. Sound(e, p)
    BY <1>5 DEF Sound, Timed, ShutOffLink, OpenStates, Pausing
<1> QED
    BY <1>6, <1>7

LEMMA PortChecked ==
    ASSUME NEW p, NEW c, Sound(c, p)
    PROVE  Sound(CheckPort(c), p)
<1>1. /\ [c EXCEPT !.portActive = FALSE] \in Contexts
      /\ Sound([c EXCEPT !.portActive = TRUE], p)
    BY SoundFlags DEF Sound
<1> QED
    BY <1>1, ToPortDown DEF CheckPort

LEMMA AssociatedChecked ==
    ASSUME NEW p, NEW c, Sound(c, p), NEW in \in Inputs
    PROVE  Sound(CheckAssociated(c, in), p)
<1> DEFINE d == ChangeToAssociated(c, in)
<1>1. Sound(d, p)
    BY ToAssociated
<1> HIDE DEF d
<1>2. Sound([d EXCEPT !.assoc = FALSE], p)
    BY <1>1, SoundFlags
<1> QED
    BY <1>2 DEF CheckAssociated, d

LEMMA GlobalsChecked ==
    ASSUME NEW p, NEW c, Sound(c, p), NEW in \in Inputs
    PROVE  Sound(CheckGlobals(c, in), p)
<1>1. Sound(CheckAssociated(CheckPort(c), in), p)
    BY PortChecked, AssociatedChecked
<1>2. Sound([ForceAuth(c) EXCEPT !.state = "NO_ENC_ASSOCIATION"], p)
    BY
    DEF ForceAuth, Sound, Timed, ShutOffLink, OpenStates, Pausing,
           Contexts, States, Controls
<1> QED
    BY <1>1, <1>2 DEF CheckGlobals

LEMMA PortDownDone ==
    ASSUME NEW p, NEW c, Sound(c, p), NEW in \in Inputs
    PROVE  Sound(DoPortDown(c, in), p)
<1>1. /\ [c EXCEPT !.portActive = TRUE] \in Contexts
      /\ Sound([c EXCEPT !.portActive = FALSE], p)
    BY SoundFlags DEF Sound
<1> QED
    BY <1>1, ToActiveScan DEF DoPortDown

LEMMA UnassociatedDone ==
    ASSUME NEW p, NEW c, Sound(c, p), NEW in \in Inputs,
           c.state = "UNASSOCIATED"
    PROVE  Sound(DoUnassociated(c, in), p)
<1> DEFINE d == IF c.essid # NONE /\ in.otherAp THEN StartAssociating(c)
                ELSE c
<1>1. /\ p = "shut" => c.port = "UNAUTHORIZED"
      /\ c \in Contexts
    BY DEF Sound, ShutOffLink, OpenStates, Contexts
<1>2. Sound(StartAssociating(c), p)
    BY <1>1, AttemptStarted
    DEF Sound, Timed, ShutOffLink, OpenStates, Pausing
<1>3. Sound(d, p)
    BY <1>2
<1> HIDE DEF d
<1>4. Sound([d EXCEPT !.dropsOut = FALSE], p)
    BY <1>3, SoundFlags
<1> QED
    BY <1>1, <1>4, ToActiveScan DEF DoUnassociated, d

\* A connection that is bound changes nothing the invariants see.
LEMMA WasBound ==
    ASSUME NEW p, NEW c \in Contexts, NEW essid \in Essids
    PROVE  /\ Bind(c, essid) \in Contexts
           /\ Sound(c, p) => Sound(Bind(c, essid), p)
<1> DEFINE conn == IF KindOf[essid] = "unconfigured" THEN NONE ELSE essid
<1>1. conn \in Essids \cup {NONE}
    OBVIOUS
<1>2. ProfileOf(conn) \in {"eap", "nomethod", NONE}
    BY DEF ProfileOf
<1>3. Bind(c, essid) = [c EXCEPT !.conn = conn, !.prof = ProfileOf(conn)]
    BY DEF Bind
<1> HIDE DEF conn
<1>4. Bind(c, essid) \in Contexts
    BY <1>1, <1>2, <1>3 DEF Contexts
<1>5. /\ Bind(c, essid).state = c.state
      /\ Bind(c, essid).checked = c.checked
      /\ Bind(c, essid).control = c.control
      /\ Bind(c, essid).port = c.port
      /\ Bind(c, essid).timers = c.timers
    BY <1>3 DEF Contexts
<1> QED
    BY <1>4, <1>5, SoundSame

LEMMA ChosenJoined ==
    ASSUME NEW p, NEW c, Sound(c, p), NEW in \in Inputs,
           c.state = "ACTIVE_SCAN"
    PROVE  Sound(JoinChosen(c, in), p)
<1>1. CASE \/ in.chosen = NONE
           \/ AutoAssociate /\ KindOf[in.chosen] = "unconfigured"
    <2> DEFINE d == Add(c, "RESCAN", RescanSecs)
    <2>1. /\ d \in Contexts /\ SameWait(c, d) /\ Running(d.timers, "RESCAN")
        BY Periods, Added DEF Sound, Timers
    <2>2. JoinChosen(c, in) = [d EXCEPT !.checked = TRUE]
        BY <1>1 DEF JoinChosen
    <2> HIDE DEF d
    <2> QED
        BY <2>1, <2>2
        DEF SameWait, Sound, Timed, ShutOffLink, OpenStates,
        Pausing, Contexts
<1>2. CASE ~(\/ in.chosen = NONE
             \/ AutoAssociate /\ KindOf[in.chosen] = "unconfigured")
    <2> DEFINE d == [c EXCEPT !.essid = in.chosen]
    <2>1. in.chosen \in Essids
        BY <1>2 DEF Inputs
    <2>2. Sound(d, p)
        BY <2>1
        DEF Sound, Timed, ShutOffLink, OpenStates, Pausing,
            Contexts
    <2>3. JoinChosen(c, in) = ChangeToAssociating(Bind(d, in.chosen), in)
        BY <1>2 DEF JoinChosen
    <2> HIDE DEF d
    <2>4. Sound(Bind(d, in.chosen), p) /\ Bind(d, in.chosen) \in Contexts
        BY <2>1, <2>2, WasBound DEF Sound
    <2> QED
        BY <2>3, <2>4, ToAssociating
<1> QED
    BY <1>1, <1>2

LEMMA ForcedJoined ==
    ASSUME NEW p, NEW c, Sound(c, p), NEW in \in Inputs,
           c.state = "ACTIVE_SCAN"
    PROVE  Sound(JoinForced(c, in), p)
<1>1. /\ p = "shut" => c.port = "UNAUTHORIZED"
      /\ c \in Contexts
    BY DEF Sound, ShutOffLink, OpenStates, Contexts
<1>2. CASE Known(c, in)
    <2>1. c.essid \in Essids
        BY <1>1, <1>2 DEF Known, Contexts
    <2>2. Sound(Bind(c, c.essid), p) /\ Bind(c, c.essid) \in Contexts
        BY <1>1, <2>1, WasBound
    <2> QED
        BY <1>2, <2>2, ToAssociating DEF JoinForced
<1>3. CASE ~Known(c, in)
    BY <1>1, <1>3, ToIntHeld DEF JoinForced
<1> QED
    BY <1>2, <1>3

LEMMA StateDone ==
    ASSUME NEW p, NEW c, Sound(c, p), NEW in \in Inputs
    PROVE  Sound(DoState(c, in), p)
<1> DEFINE d == CheckGlobals(c, in)
<1>1. Sound(d, p)
    BY GlobalsChecked
<1>2. DoState(c, in) = DoCurrentState(d, in)
    BY DEF DoState
<1> HIDE DEF d
<1>3. d.state = "ACTIVE_SCAN" => Sound(DoActiveScan(d, in), p)
    BY <1>1, ChosenJoined, ForcedJoined DEF DoActiveScan
<1>4. d.state = "UNASSOCIATED" => Sound(DoUnassociated(d, in), p)
    BY <1>1, UnassociatedDone
<1>5. d.state \in {"ASSOCIATED", "INT_STOPPED"}
          => Sound(DoAssociated(d, in), p)
    BY <1>1, AssociatedRan
<1>6. Sound(DoPortDown(d, in), p)
    BY <1>1, PortDownDone
<1> QED
    BY <1>1, <1>2, <1>3, <1>4, <1>5, <1>6 DEF DoCurrentState

(***************************************************************************)
(* Timers that expire.                                                     *)
(***************************************************************************)
\* A timer can be cancelled when the machine does not wait for it.
LEMMA SoundCancel ==
    ASSUME NEW p, NEW c, Sound(c, p), NEW t \in Timers,
           \/ t \in {"SCANCHECK", "SIG_STRENGTH"}
           \/ t = "INT_HELD" /\ c.state # "INT_HELD"
    PROVE  Sound(Cancel(c, t), p)
<1> DEFINE d == Cancel(c, t)
<1>1. /\ d \in Contexts /\ SameWait(c, d)
      /\ \A u \in Timers : Running(d.timers, u)
                               <=> Running(c.timers, u) /\ u # t
    BY Cancelled DEF Sound
<1> HIDE DEF d
<1>2. Sound(d, p)
    BY <1>1
    DEF SameWait, Sound, Timed, ShutOffLink, OpenStates, Pausing,
                Timers
<1> QED
    BY <1>2 DEF d

LEMMA SoundReset ==
    ASSUME NEW p, NEW c, Sound(c, p), NEW t \in Timers, NEW secs \in Seconds
    PROVE  Sound(Reset(c, t, secs), p)
<1> DEFINE d == Reset(c, t, secs)
<1>1. d \in Contexts /\ SameWait(c, d) /\ SameTimers(c, d)
    BY WasReset DEF Sound, SameTimers
<1> HIDE DEF d
<1>2. Sound(d, p)
    BY <1>1, SoundAlike DEF SameWait
<1> QED
    BY <1>2 DEF d

LEMMA NetsChecked ==
    ASSUME NEW p, NEW c, Sound(c, p), NEW results
    PROVE  Sound(CheckNets(c, results), p)
<1>1. Sound([c EXCEPT !.scanning = FALSE], p)
    BY SoundFlags
<1>2. Sound(Cancel(c, "SCANCHECK"), p)
    BY SoundCancel DEF Timers
<1>3. Sound([Cancel(c, "SCANCHECK") EXCEPT !.scanning = FALSE], p)
    BY <1>2, SoundFlags
<1> QED
    BY <1>1, <1>3 DEF CheckNets

LEMMA Expired ==
    ASSUME NEW p, NEW c, Sound(c, p), NEW t \in Timers, NEW in \in Inputs
    PROVE  Sound(Expire(c, t, in), p)
<1>1. \A u \in Timers : Cancel(c, u) \in Contexts
    BY Cancelled DEF Sound
<1>2. \A u \in Timers : Sound(ChangeToActiveScan(Cancel(c, u), in), p)
    BY <1>1, ToActiveScan
<1>3. CASE t \in {"RESCAN", "ASSOCIATION"}
    BY <1>2, <1>3 DEF Expire, AssociationTimeout
<1>4. CASE t = "INT_HELD"
    BY <1>2, <1>4, SoundCancel DEF Expire, IntHeldTimeout
<1>5. CASE t = "SCANCHECK"
    <2>1. Sound(Cancel(c, "SCANCHECK"), p)
        BY <1>5, SoundCancel
    <2> QED
        BY <1>5, <2>1, SoundFlags DEF Expire
<1>6. CASE t = "SIG_STRENGTH"
    <2>1. Sound(Cancel(c, t), p) /\ Sound(Reset(c, t, PollSecs), p)
        BY <1>6, SoundCancel, SoundReset, Periods
    <2> QED
        BY <1>6, <2>1 DEF Expire, SigStrengthTimeout
<1>7. CASE t = "PASSIVE_SCAN"
    <2>1. /\ Sound(Reset(c, t, PassiveSecs), p)
          /\ Sound(Reset(c, t, PollSecs), p)
        BY SoundReset, Periods
    <2>2. /\ Sound([Reset(c, t, PassiveSecs) EXCEPT !.pasv = FALSE], p)
          /\ Sound([Reset(c, t, PollSecs) EXCEPT !.pasv = TRUE], p)
        BY <2>1, SoundFlags
    <2> QED
        BY <1>7, <2>2 DEF Expire, PassiveScanTimeout
<1> QED
    BY <1>3, <1>4, <1>5, <1>6, <1>7 DEF Timers

LEMMA Ticked ==
    ASSUME NEW p, NEW c, Sound(c, p), NEW t \in Timers, Running(c.timers, t),
           NEW in \in Inputs
    PROVE  Sound(DoTick(c, t, in), p)
<1> DEFINE less == [c EXCEPT !.timers = CountDown(@, t)]
           seen == IF t = "SCANCHECK" THEN CheckNets(less, in.results)
                   ELSE less
<1>1. c \in Contexts /\ c.timers \in TimerLists
    BY DEF Sound, Contexts
<1>2. /\ CountDown(c.timers, t) \in TimerLists
      /\ \A u \in Timers : Running(CountDown(c.timers, t), u)
                               <=> Running(c.timers, u)
    BY <1>1, CountedDown
<1>3. /\ less \in Contexts /\ SameWait(c, less)
      /\ less.timers = CountDown(c.timers, t)
    BY <1>1, <1>2 DEF Contexts, SameWait
<1> HIDE DEF less
<1>4. Sound(less, p)
    BY <1>2, <1>3, SoundAlike DEF SameTimers, SameWait
<1>5. Sound(seen, p)
    BY <1>4, NetsChecked
<1>6. DoTick(c, t, in) \in {Expire(seen, t, in), seen}
    BY DEF DoTick, less
<1> HIDE DEF seen
<1> QED
    BY <1>5, <1>6, Expired

(***************************************************************************)
(* The invariant of the specification, and what every step but a frame     *)
(* keeps besides.  The walk over the timers stands on a node: without that *)
(* CountDown would make one.                                               *)
(***************************************************************************)
WalkIsOnNode == at \in Timers => Running(w.timers, at)

State(p) ==
    /\ Sound(w, p) /\ up \in BOOLEAN
    /\ at \in Timers \cup {"select", "run", "CRASHED"}
    /\ WalkIsOnNode

Invariant == State("any")

LEMMA NodeAfterIsNode ==
    ASSUME NEW l, NEW before, NodeAfter(l, before) # Last
    PROVE  /\ NodeAfter(l, before) \in Timers
           /\ Running(l, NodeAfter(l, before))
BY DEF NodeAfter

LEMMA StepSelect ==
    ASSUME NEW p, State(p), at = "select", UNCHANGED at, Sound(w', p),
           up' \in BOOLEAN
    PROVE  State(p)'
BY DEF State, WalkIsOnNode, Timers

\* The interface starts with a scan, a pause or its port down.
LEMMA InitInvariant ==
    ASSUME NEW p, Init
    PROVE  State(p)
<1> DEFINE new == [state |-> "UNASSOCIATED", scanning |-> FALSE,
                   checked |-> FALSE, portActive |-> FALSE,
                   assoc |-> FALSE, dropsOut |-> FALSE, discReq |-> FALSE,
                   pasv |-> FALSE, forced |-> FALSE, conn |-> NONE,
                   prof |-> NONE, essid |-> NONE, control |-> "AUTO",
                   ptk |-> FALSE,
                   port |-> "UNAUTHORIZED", timers |-> NoTimers]
<1>1. NoTimers \in TimerLists
    BY DEF NoTimers, TimerLists
<1>2. new \in Contexts
    BY <1>1 DEF Contexts, States, Controls
<1>3. PICK in \in Inputs : w = IF up THEN ChangeToActiveScan(new, in)
                               ELSE ChangeToPortDown(new)
    BY DEF Init
<1> HIDE DEF new
<1>4. Sound(w, p)
    BY <1>2, <1>3, ToActiveScan, ToPortDown
<1> QED
    BY <1>4 DEF Init, State, WalkIsOnNode, Timers

\* The walk goes on with a node of the new list, or to the end of the pass.
LEMMA TimerTicksInvariant ==
    ASSUME NEW p, State(p), TimerTicks
    PROVE  State(p)'
<1>1. PICK in \in TickInputs : w' = DoTick(w, at, in)
    BY DEF TimerTicks
<1>2. in \in Inputs
    BY DEF TickInputs
<1>3. Sound(w, p) /\ at \in Timers /\ Running(w.timers, at)
    BY DEF TimerTicks, State, WalkIsOnNode
<1>4. Sound(w', p)
    BY <1>1, <1>2, <1>3, Ticked
<1> DEFINE next == NextOf(w.timers, at)
<1>5. next # Last => next \in Timers
    BY NodeAfterIsNode DEF NextOf
<1>6. at' \in AfterTick(w.timers, w'.timers, next)
    BY DEF TimerTicks
<1> HIDE DEF next
<1>7. \/ at' \in {"run", "CRASHED"}
      \/ at' \in Timers /\ Running(w'.timers, at')
    BY <1>5, <1>6 DEF AfterTick
<1>8. "run" \notin Timers /\ "CRASHED" \notin Timers
    BY DEF Timers
<1>9. up' \in BOOLEAN
    BY DEF TimerTicks, State
<1> QED
    BY <1>4, <1>7, <1>8, <1>9 DEF State, WalkIsOnNode

LEMMA TickStartsInvariant ==
    ASSUME NEW p, State(p), TickStarts
    PROVE  State(p)'
<1>1. Head(w.timers) # Last => /\ Head(w.timers) \in Timers
                               /\ Running(w.timers, Head(w.timers))
    BY NodeAfterIsNode DEF Head
<1>2. w' = w /\ up' = up
    BY DEF TickStarts
<1>3. \/ at' = "run"
      \/ at' \in Timers /\ Running(w.timers, at')
    BY <1>1 DEF TickStarts
<1>4. "run" \notin Timers
    BY DEF Timers
<1> QED
    BY <1>2, <1>3, <1>4 DEF State, WalkIsOnNode

LEMMA MachineRunsInvariant ==
    ASSUME NEW p, State(p), MachineRuns
    PROVE  State(p)'
<1>1. PICK in \in RunInputs : w' = DoState(w, in)
    BY DEF MachineRuns
<1>2. Sound(w', p)
    BY <1>1, StateDone DEF State, RunInputs
<1> QED
    BY <1>2 DEF MachineRuns, State, WalkIsOnNode, Timers

LEMMA ApEventInvariant ==
    ASSUME NEW p, State(p), NEW associated \in BOOLEAN, ApEvent(associated)
    PROVE  State(p)'
<1> DEFINE calm == IF w.scanning
                   THEN [Cancel(w, "SCANCHECK") EXCEPT !.scanning = FALSE]
                   ELSE w
<1>1. Sound(w, p)
    BY DEF State
<1>2. Sound(Cancel(w, "SCANCHECK"), p)
    BY <1>1, SoundCancel DEF Timers
<1>3. Sound(calm, p)
    BY <1>1, <1>2, SoundFlags
<1>4. w' = IF associated /\ w.portActive
           THEN [calm EXCEPT !.assoc = TRUE, !.discReq = FALSE]
           ELSE [calm EXCEPT !.assoc = FALSE]
    BY DEF ApEvent
<1> HIDE DEF calm
<1>5. [calm EXCEPT !.assoc = TRUE, !.discReq = FALSE]
         = [[calm EXCEPT !.assoc = TRUE] EXCEPT !.discReq = FALSE]
    OBVIOUS
<1>6. Sound([calm EXCEPT !.assoc = TRUE], p)
    BY <1>3, SoundFlags
<1>7. Sound([[calm EXCEPT !.assoc = TRUE] EXCEPT !.discReq = FALSE], p)
    BY <1>6, SoundFlags
<1>8. Sound(w', p)
    BY <1>3, <1>4, <1>5, <1>7, SoundFlags
<1> QED
    BY <1>8, StepSelect DEF ApEvent, Event, State

LEMMA OperDownInvariant ==
    ASSUME NEW p, State(p), OperDown
    PROVE  State(p)'
<1>1. Sound(w, p) /\ w \in Contexts
    BY DEF State, Sound
<1>2. CASE \E in \in TickInputs : w' = ChangeToUnassociated(w, in)
    BY <1>1, <1>2, ToUnassociated, StepSelect
    DEF TickInputs, OperDown, Event, State
<1>3. CASE UNCHANGED w
    BY <1>1, <1>3, StepSelect DEF OperDown, Event, State
<1>4. CASE w' = [Disconnected(w) EXCEPT !.state = "UNASSOCIATED",
                                       !.dropsOut = TRUE]
    <2> DEFINE d == Disconnected(w)
    <2>1. d \in Contexts /\ d.port = "UNAUTHORIZED"
        BY <1>1, WasDisconnected
    <2> HIDE DEF d
    <2>2. w' = [d EXCEPT !.state = "UNASSOCIATED", !.dropsOut = TRUE]
        BY <1>4 DEF d
    <2>3. Sound(w', p)
        BY <2>1, <2>2
        DEF Sound, Timed, ShutOffLink, OpenStates, Pausing,
                          Contexts, States
    <2> QED
        BY <2>3, StepSelect DEF OperDown, Event, State
<1> QED
    BY <1>2, <1>3, <1>4 DEF OperDown

\* A frame that comes late opens the port: only the rest is kept.
LEMMA FrameInvariant ==
    ASSUME Invariant, NEW verdict \in {"AUTHORIZED", "UNAUTHORIZED"},
           Frame(verdict)
    PROVE  Invariant'
<1> DEFINE d == PaeRun(w, verdict)
<1>1. Sound(w, "any") /\ w \in Contexts
    BY DEF Invariant, State, Sound
<1>2. /\ d \in Contexts /\ d.state = w.state /\ d.checked = w.checked
      /\ SameTimers(w, d)
    BY <1>1, PaeRan
<1> HIDE DEF d
<1>3. Sound(d, "any")
    BY <1>1, <1>2 DEF Sound, Timed, Pausing, SameTimers, Timers
<1>4. w' = d
    BY DEF d, Frame
<1> QED
    BY <1>3, <1>4, StepSelect DEF Frame, Event, Invariant, State

\* Where the interface was stopped an EAP frame changes nothing: the port
\* machine stays in FORCE_UNAUTH.
LEMMA StoppedFrame ==
    ASSUME NEW p, State(p), NEW verdict \in {"AUTHORIZED", "UNAUTHORIZED"},
           Frame(verdict), w.state = "INT_STOPPED"
    PROVE  State(p)'
<1> DEFINE d == PaeRun(w, verdict)
<1>1. Sound(w, p) /\ w \in Contexts
    BY DEF State, Sound
<1>2. /\ d \in Contexts /\ d.state = w.state /\ d.checked = w.checked
      /\ d.control = w.control /\ SameTimers(w, d)
      /\ w.control = "FORCE_UNAUTHORIZED" /\ w.port = "UNAUTHORIZED"
            => d.port = "UNAUTHORIZED"
    BY <1>1, PaeRan
<1> HIDE DEF d
<1>3. p = "shut" => w.port = "UNAUTHORIZED"
    BY <1>1 DEF Sound, ShutOffLink, OpenStates, Contexts
<1>4. Sound(d, p)
    BY <1>1, <1>2, <1>3
    DEF Sound, Timed, ShutOffLink, OpenStates, Pausing, SameTimers, Timers
<1>5. w' = d
    BY DEF d, Frame
<1> QED
    BY <1>4, <1>5, StepSelect DEF Frame, Event, State

LEMMA KeyFrameInvariant ==
    ASSUME Invariant, KeyFrame
    PROVE  Invariant'
<1>1. Sound(w, "any") /\ w \in Contexts
    BY DEF Invariant, State, Sound
<1>2. /\ w' \in Contexts /\ w'.timers = w.timers
      /\ w'.state = w.state /\ w'.checked = w.checked
    BY <1>1 DEF KeyFrame, ForceAuth, Contexts, Controls
<1>3. Sound(w', "any")
    BY <1>1, <1>2 DEF Sound, Timed, Pausing
<1> QED
    BY <1>3, StepSelect DEF KeyFrame, Event, Invariant, State

(***************************************************************************)
(* Requests of the user interface.                                         *)
(***************************************************************************)
LEMMA RequestInvariant ==
    ASSUME NEW p, State(p), NEW kind, NEW c, Sound(c, p), Request(kind, c)
    PROVE  State(p)'
BY StepSelect DEF Request, State

\* The connection is locked to, and associated with if it is known.
LEMMA ConnectInvariant ==
    ASSUME NEW p, State(p), NEW conn \in Essids, Connect(conn)
    PROVE  State(p)'
<1> DEFINE bound == [w EXCEPT !.forced = TRUE, !.conn = conn]
           given == [bound EXCEPT !.prof = ProfileOf(conn), !.essid = conn]
           ready == Reinit(given)
<1>1. Sound(w, p) /\ w \in Contexts
    BY DEF State, Sound
<1>2. /\ bound \in Contexts /\ bound.state = w.state
      /\ bound.checked = w.checked /\ bound.control = w.control
      /\ bound.port = w.port /\ bound.timers = w.timers
    BY <1>1 DEF Contexts
<1>3. Sound(bound, p)
    BY <1>1, <1>2, SoundSame
<1>4. ProfileOf(conn) \in {"eap", "nomethod", NONE}
    BY DEF ProfileOf
<1>5. bound.conn = conn
    BY <1>1 DEF Contexts
<1> HIDE DEF bound
<1>6. given \in Contexts /\ given.conn = conn
    BY <1>2, <1>4, <1>5 DEF Contexts
<1>7. PICK in \in ConnectInputs :
          Request("connect", IF in.known THEN ChangeToAssociating(ready, in)
                             ELSE bound)
    BY DEF Connect, bound
<1> HIDE DEF given
<1>8. ready \in Contexts /\ ready.conn = conn
    BY <1>6, WasReinit
<1> HIDE DEF ready
<1>9. conn # NONE /\ in \in Inputs
    BY WirelessAssumption DEF ConnectInputs, RunInputs
<1>10. Sound(ChangeToAssociating(ready, in), p)
    BY <1>8, <1>9, ToAssociating
<1> QED
    BY <1>3, <1>7, <1>10, RequestInvariant

LEMMA StopInvariant ==
    ASSUME NEW p, State(p), Stop
    PROVE  State(p)'
BY ToIntStopped, RequestInvariant DEF Stop, RunInputs, State, Sound

LEMMA ScanInvariant ==
    ASSUME NEW p, State(p), Scan
    PROVE  State(p)'
<1>1. PICK in \in TickInputs : Request("scan", DoScan(w, in))
    BY DEF Scan
<1>2. in \in Inputs /\ Sound(w, p) /\ w \in Contexts
    BY DEF TickInputs, State, Sound
<1> DEFINE d == DoScan(w, in)
<1>3. /\ d \in Contexts /\ d.state = w.state /\ d.checked = w.checked
      /\ d.control = w.control /\ d.port = w.port
      /\ \A u \in Timers : Running(w.timers, u) => Running(d.timers, u)
    BY <1>2, ScanDone
<1> HIDE DEF d
<1>4. Sound(d, p)
    BY <1>2, <1>3
    DEF Sound, Timed, ShutOffLink, OpenStates, Pausing, Timers
<1> QED
    BY <1>1, <1>4, RequestInvariant DEF d

\* The other requests touch flags, the configuration and the port.
LEMMA OtherRequestInvariant ==
    ASSUME NEW p, State(p), NEW locked \in BOOLEAN,
           \/ Disassociate \/ SetLock(locked) \/ RequestLogoff
           \/ Disconnect \/ Unbind
    PROVE  State(p)'
<1>1. Sound(w, p) /\ w \in Contexts
    BY DEF State, Sound
<1>2. CASE Disassociate
    BY <1>1, <1>2, SoundFlags, RequestInvariant DEF Disassociate
<1>3. CASE SetLock(locked)
    BY <1>1, <1>3, SoundFlags, RequestInvariant DEF SetLock
<1>4. CASE RequestLogoff
    <2> DEFINE d == Disconnected(w)
               n == [d EXCEPT !.conn = NONE]
    <2>1. /\ d \in Contexts /\ d.port = "UNAUTHORIZED"
          /\ d.state = w.state /\ d.checked = w.checked
          /\ d.control = w.control /\ SameTimers(w, d)
        BY <1>1, WasDisconnected
    <2>2. Sound(d, p)
        BY <1>1, <2>1, SoundAlike
    <2> HIDE DEF d
    <2>3. /\ n \in Contexts /\ n.state = d.state /\ n.checked = d.checked
          /\ n.control = d.control /\ n.port = d.port
          /\ n.timers = d.timers
        BY <2>1 DEF Contexts
    <2>4. Sound(n, p)
        BY <2>2, <2>3, SoundSame
    <2>5. Request("logoff", n)
        BY <1>4 DEF RequestLogoff, d
    <2> QED
        BY <2>4, <2>5, RequestInvariant
<1>5. CASE Disconnect
    <2> DEFINE n == [w EXCEPT !.discReq = TRUE, !.essid = NONE,
                       !.conn = NONE, !.prof = NONE, !.forced = TRUE]
    <2>1. /\ n \in Contexts /\ n.state = w.state /\ n.checked = w.checked
          /\ n.control = w.control /\ n.port = w.port
          /\ n.timers = w.timers
        BY <1>1 DEF Contexts
    <2>2. Sound(n, p)
        BY <1>1, <2>1, SoundSame
    <2> QED
        BY <1>5, <2>2, RequestInvariant DEF Disconnect
<1>6. CASE Unbind
    <2> DEFINE n == [w EXCEPT !.essid = NONE, !.conn = NONE, !.prof = NONE]
    <2>1. /\ n \in Contexts /\ n.state = w.state /\ n.checked = w.checked
          /\ n.control = w.control /\ n.port = w.port
          /\ n.timers = w.timers
        BY <1>1 DEF Contexts
    <2>2. Sound(n, p)
        BY <1>1, <2>1, SoundSame
    <2> QED
        BY <1>6, <2>2, RequestInvariant DEF Unbind
<1> QED
    BY <1>2, <1>3, <1>4, <1>5, <1>6

(***************************************************************************)
(* The counters.  A timer is set to its period at most, and one that has   *)
(* come to zero, the timer zero that is being ticked, is cancelled or set  *)
(* again before the tick is over.  Nothing is said of the passive scan's   *)
(* timer: to except it is to except none.                                  *)
(***************************************************************************)
LeftOk(l, zero) ==
    \A t \in Timers \ {"PASSIVE_SCAN"} :
       Running(l, t) => l.left[t] \in (IF t = zero THEN 0 ELSE 1) .. Period(t)

PacedBut(c, zero) ==
    /\ "timers" \in DOMAIN c
    /\ c.timers \in TimerLists
    /\ LeftOk(c.timers, zero)

Paced(c) == PacedBut(c, "PASSIVE_SCAN")

\* What a timer is set to in the code.
Setting(t, secs) ==
    /\ t \in Timers
    /\ secs \in Seconds \ {0}
    /\ t = "PASSIVE_SCAN" \/ secs = Period(t)

LEMMA Settings ==
    /\ Setting("RESCAN", RescanSecs) /\ Setting("INT_HELD", HeldSecs)
    /\ Setting("ASSOCIATION", AssocSecs) /\ Setting("SCANCHECK", AssocSecs)
    /\ Setting("SIG_STRENGTH", PollSecs)
    /\ Setting("PASSIVE_SCAN", PassiveSecs)
    /\ Setting("PASSIVE_SCAN", PollSecs)
BY Periods DEF Setting, Period, Timers

LEMMA PeriodIsNat == \A t \in Timers : Period(t) \in Nat
BY Periods DEF Period, Timers, Seconds

\* A timer that is set is within its period.
LEMMA LeftSet ==
    ASSUME NEW l \in TimerLists, NEW m, NEW zero, NEW t, NEW secs,
           LeftOk(l, zero), Setting(t, secs),
           m.left = [l.left EXCEPT ![t] = secs]
    PROVE  LeftOk(m, IF t = zero THEN "PASSIVE_SCAN" ELSE zero)
<1> DEFINE rest == IF t = zero THEN "PASSIVE_SCAN" ELSE zero
<1> SUFFICES ASSUME NEW u \in Timers \ {"PASSIVE_SCAN"}, Running(m, u)
             PROVE  m.left[u] \in (IF u = rest THEN 0 ELSE 1) .. Period(u)
    BY DEF LeftOk
<1>1. t \in DOMAIN l.left
    BY DEF TimerLists, Setting
<1>2. CASE u = t
    <2>1. m.left[u] = Period(u) /\ Period(u) \in Seconds \ {0}
        BY <1>1, <1>2 DEF Setting
    <2>2. Period(u) \in Nat /\ Period(u) >= 1
        BY <2>1, ModulusAssumption DEF Seconds
    <2> QED
        BY <2>1, <2>2
<1>3. CASE u # t
    <2>1. m.left[u] = l.left[u]
        BY <1>1, <1>3 DEF TimerLists
    <2>2. l.left[u] \in (IF u = zero THEN 0 ELSE 1) .. Period(u)
        BY <2>1 DEF LeftOk, Running
    <2>3. u = rest <=> u = zero
        BY <1>3
    <2> QED
        BY <2>1, <2>2, <2>3
<1> QED
    BY <1>2, <1>3

LEMMA PacedAdd ==
    ASSUME NEW c, Paced(c), NEW t, NEW secs, Setting(t, secs)
    PROVE  Paced(Add(c, t, secs))
<1> DEFINE l == c.timers
           m == AddTimer(l, t, secs)
<1>1. l \in TimerLists /\ LeftOk(l, "PASSIVE_SCAN") /\ "timers" \in DOMAIN c
    BY DEF Paced, PacedBut
<1>2. t \in Timers /\ secs \in Seconds \ {0}
    BY DEF Setting
<1> HIDE DEF l
<1>3. m \in TimerLists
    BY <1>1, <1>2, AddedTimer
<1>4. m = l \/ m.left = [l.left EXCEPT ![t] = secs]
    BY <1>1 DEF AddTimer, TimerLists
<1>5. LeftOk(m, "PASSIVE_SCAN")
    BY <1>1, <1>4, LeftSet
<1> HIDE DEF m
<1>6. Add(c, t, secs) = [c EXCEPT !.timers = m]
    BY DEF Add, l, m
<1> QED
    BY <1>1, <1>3, <1>5, <1>6 DEF Paced, PacedBut

LEMMA PacedReset ==
    ASSUME NEW c, NEW t, NEW secs, Setting(t, secs), PacedBut(c, t)
    PROVE  Paced(Reset(c, t, secs))
<1> DEFINE l == c.timers
           m == ResetTimer(l, t, secs)
<1>1. l \in TimerLists /\ LeftOk(l, t) /\ "timers" \in DOMAIN c
    BY DEF PacedBut
<1>2. t \in Timers /\ secs \in Seconds
    BY DEF Setting
<1> HIDE DEF l
<1>3. m \in TimerLists
    BY <1>1, <1>2, ResetTimers
<1>4. LeftOk(m, "PASSIVE_SCAN")
    <2>1. CASE Running(l, t)
        <3>1. m.left = [l.left EXCEPT ![t] = secs]
            BY <1>1, <2>1 DEF ResetTimer, TimerLists
        <3> QED
            BY <1>1, <3>1, LeftSet
    <2>2. CASE ~Running(l, t)
        BY <1>1, <2>2 DEF ResetTimer, LeftOk
    <2> QED
        BY <2>1, <2>2
<1> HIDE DEF m
<1>5. Reset(c, t, secs) = [c EXCEPT !.timers = m]
    BY DEF Reset, l, m
<1> QED
    BY <1>1, <1>3, <1>4, <1>5 DEF Paced, PacedBut

\* A timer that is no more is in its period.
LEMMA PacedCancel ==
    ASSUME NEW c, NEW t \in Timers, PacedBut(c, t)
    PROVE  Paced(Cancel(c, t))
<1> DEFINE l == c.timers
           m == CancelTimer(l, t)
<1>1. l \in TimerLists /\ LeftOk(l, t) /\ "timers" \in DOMAIN c
    BY DEF PacedBut
<1> HIDE DEF l
<1>2. m \in TimerLists
    BY <1>1, CancelledTimer
<1>3. \A u \in Timers : u # t => m.left[u] = l.left[u]
    BY <1>1 DEF CancelTimer, TimerLists
<1>4. \A u \in Timers : Running(m, u) => Running(l, u) /\ u # t
    BY <1>1, CancelledTimer
<1> HIDE DEF m
<1>5. LeftOk(m, "PASSIVE_SCAN")
    BY <1>1, <1>3, <1>4 DEF LeftOk
<1>6. Cancel(c, t) = [c EXCEPT !.timers = m]
    BY DEF Cancel, l, m
<1> QED
    BY <1>1, <1>2, <1>5, <1>6 DEF Paced, PacedBut

\* To be within the periods is more than to be so with an exception.
LEMMA PacedWeaker ==
    ASSUME NEW c, Paced(c), NEW t
    PROVE  PacedBut(c, t)
<1>1. LeftOk(c.timers, "PASSIVE_SCAN")
    BY DEF Paced, PacedBut
<1>2. LeftOk(c.timers, t)
    <2> SUFFICES ASSUME NEW u \in Timers \ {"PASSIVE_SCAN"},
                        Running(c.timers, u)
                 PROVE  c.timers.left[u] \in
                            (IF u = t THEN 0 ELSE 1) .. Period(u)
        BY DEF LeftOk
    <2>1. c.timers.left[u] \in 1 .. Period(u)
        BY <1>1 DEF LeftOk
    <2> QED
        BY <2>1
<1> QED
    BY <1>2 DEF Paced, PacedBut

LEMMA PacedCancelOther ==
    ASSUME NEW c, Paced(c), NEW t \in Timers
    PROVE  Paced(Cancel(c, t))
BY PacedWeaker, PacedCancel

LEMMA PacedAddOrReset ==
    ASSUME NEW c, Paced(c), NEW t, NEW secs, Setting(t, secs)
    PROVE  /\ Paced(AddOrReset(c, t, secs))
           /\ Paced(Reset(c, t, secs))
BY PacedWeaker, PacedAdd, PacedReset DEF AddOrReset

\* The other fields do not matter.
LEMMA PacedFields ==
    ASSUME NEW c, Paced(c), NEW x, NEW y, NEW z
    PROVE  /\ Paced([c EXCEPT !.port = x])
           /\ Paced([c EXCEPT !.scanning = x])
           /\ Paced([c EXCEPT !.checked = x])
           /\ Paced([c EXCEPT !.state = x])
           /\ Paced([c EXCEPT !.assoc = x])
           /\ Paced([c EXCEPT !.dropsOut = x])
           /\ Paced([c EXCEPT !.discReq = x])
           /\ Paced([c EXCEPT !.portActive = x])
           /\ Paced([c EXCEPT !.pasv = x])
           /\ Paced([c EXCEPT !.forced = x])
           /\ Paced([c EXCEPT !.ptk = x])
           /\ Paced([c EXCEPT !.conn = x])
           /\ Paced([c EXCEPT !.essid = x])
           /\ Paced([c EXCEPT !.control = x, !.port = y])
           /\ Paced([c EXCEPT !.conn = x, !.prof = y])
           /\ Paced([c EXCEPT !.checked = x, !.state = y])
           /\ Paced([c EXCEPT !.scanning = x, !.state = y])
           /\ Paced([c EXCEPT !.state = x, !.forced = y])
           /\ Paced([c EXCEPT !.state = x, !.dropsOut = y])
           /\ Paced([c EXCEPT !.assoc = x, !.discReq = y])
           /\ Paced([c EXCEPT !.forced = x, !.conn = y])
           /\ Paced([c EXCEPT !.prof = x, !.essid = y])
           /\ Paced([c EXCEPT !.essid = x, !.conn = y, !.prof = z])
           /\ Paced([c EXCEPT !.control = x, !.port = y, !.ptk = z])
BY DEF Paced, PacedBut

(***************************************************************************)
(* Every function of the machine keeps the timers within their periods,    *)
(* whatever the environment answers.                                       *)
(***************************************************************************)
LEMMA PacedPort ==
    ASSUME NEW c, Paced(c), NEW verdict
    PROVE  /\ Paced(KillPassiveScan(c)) /\ Paced(StartPassiveScan(c))
           /\ Paced(Disconnected(c)) /\ Paced(ForceAuth(c))
           /\ Paced(ForceUnauth(c)) /\ Paced(Reinit(c))
           /\ Paced(PaeRun(c, verdict))
<1>1. "PASSIVE_SCAN" \in Timers
    BY DEF Timers
<1>2. Paced(KillPassiveScan(c))
    BY <1>1, PacedCancelOther DEF KillPassiveScan
<1>3. Paced(StartPassiveScan(c))
    BY Settings, PacedAddOrReset DEF StartPassiveScan
<1>4. Paced(Disconnected(c))
    BY <1>2, PacedFields DEF Disconnected
<1>5. /\ Paced(ForceAuth(c)) /\ Paced(ForceUnauth(c)) /\ Paced(Reinit(c))
    BY PacedFields DEF ForceAuth, ForceUnauth, Reinit
<1>6. Paced(PaeRun(c, verdict))
    BY <1>3, <1>5, PacedFields DEF PaeRun
<1> QED
    BY <1>2, <1>3, <1>4, <1>5, <1>6

LEMMA PacedScans ==
    ASSUME NEW c, Paced(c), NEW in
    PROVE  Paced(DoScan(c, in)) /\ Paced(ChangeToIntHeld(c))
<1>1. Paced(Add(c, "SCANCHECK", AssocSecs))
    BY Settings, PacedAdd
<1>2. Paced(Add(c, "INT_HELD", HeldSecs))
    BY Settings, PacedAdd
<1> QED
    BY <1>1, <1>2, PacedFields DEF DoScan, ChangeToIntHeld

\* The check of a scan may find the timer it is called for at zero.
LEMMA PacedCheckNets ==
    ASSUME NEW c, NEW t, PacedBut(c, t), NEW results
    PROVE  PacedBut(CheckNets(c, results), t)
<1>1. CASE ~c.scanning \/ results = "none"
    BY <1>1 DEF CheckNets
<1>2. CASE c.scanning /\ results = "error"
    <2>1. CheckNets(c, results) = [c EXCEPT !.scanning = FALSE]
        BY <1>2 DEF CheckNets
    <2> QED
        BY <2>1 DEF PacedBut
<1>3. CASE c.scanning /\ results \notin {"none", "error"}
    <2> DEFINE l == c.timers
               m == CancelTimer(l, "SCANCHECK")
    <2>1. CheckNets(c, results) =
              [Cancel(c, "SCANCHECK") EXCEPT !.scanning = FALSE]
        BY <1>3 DEF CheckNets
    <2>2. Cancel(c, "SCANCHECK") = [c EXCEPT !.timers = m]
        BY DEF Cancel
    <2>3. l \in TimerLists /\ LeftOk(l, t) /\ "timers" \in DOMAIN c
        BY DEF PacedBut
    <2>4. "SCANCHECK" \in Timers
        BY DEF Timers
    <2> HIDE DEF l
    <2>5. m \in TimerLists
        BY <2>3, <2>4, CancelledTimer
    <2>6. \A u \in Timers : u # "SCANCHECK" => m.left[u] = l.left[u]
        BY <2>3 DEF CancelTimer, TimerLists
    <2>7. \A u \in Timers : Running(m, u) => Running(l, u) /\ u # "SCANCHECK"
        BY <2>3, <2>4, CancelledTimer
    <2> HIDE DEF m
    <2>8. LeftOk(m, t)
        BY <2>3, <2>6, <2>7 DEF LeftOk
    <2> QED
        BY <2>1, <2>2, <2>3, <2>5, <2>8 DEF PacedBut
<1> QED
    BY <1>1, <1>2, <1>3

LEMMA PacedActiveScan ==
    ASSUME NEW c, Paced(c), NEW in
    PROVE  /\ Paced(ChangeToActiveScan(c, in))
           /\ Paced(ChangeToUnassociated(c, in))
<1>1. ASSUME NEW d, Paced(d) PROVE Paced(ChangeToActiveScan(d, in))
    <2> DEFINE old == [d EXCEPT !.checked = FALSE, !.state = "ACTIVE_SCAN"]
               fresh == Reinit(old)
    <2>1. Paced(old)
        BY <1>1, PacedFields
    <2> HIDE DEF old
    <2>2. Paced(fresh)
        BY <2>1, PacedPort
    <2>3. ChangeToActiveScan(d, in) =
              IF CanScan(d, in) THEN DoScan(fresh, in)
              ELSE ChangeToIntHeld(Cancel(fresh, "SCANCHECK"))
        BY DEF ChangeToActiveScan, old
    <2> HIDE DEF fresh
    <2>4. "SCANCHECK" \in Timers
        BY DEF Timers
    <2>5. Paced(Cancel(fresh, "SCANCHECK"))
        BY <2>2, <2>4, PacedCancelOther
    <2>6. Paced(ChangeToIntHeld(Cancel(fresh, "SCANCHECK")))
        BY <2>5, PacedScans
    <2> QED
        BY <2>2, <2>3, <2>6, PacedScans
<1>2. Paced(Disconnected(c))
    BY PacedPort
<1> QED
    BY <1>1, <1>2 DEF ChangeToUnassociated

LEMMA PacedAssociated ==
    ASSUME NEW c, Paced(c), NEW in
    PROVE  Paced(ChangeToAssociated(c, in))
<1>1. {"RESCAN", "ASSOCIATION", "SCANCHECK"} \subseteq Timers
    BY DEF Timers
<1> DEFINE scanOver == IF c.state = "ACTIVE_SCAN" THEN Cancel(c, "RESCAN")
                       ELSE c
           b == Cancel(scanOver, "ASSOCIATION")
           d == Cancel(b, "SCANCHECK")
           e == Add(d, "SIG_STRENGTH", PollSecs)
           joined == [e EXCEPT !.state = "ASSOCIATED", !.forced = TRUE]
           psk == c.conn # NONE /\ KindOf[c.conn] = "psk"
<1>2. ChangeToAssociated(c, in) =
          IF c.scanning /\ ~Known(c, in) THEN c
          ELSE IF c.prof # NONE THEN joined
          ELSE ForceAuth(IF psk THEN StartPassiveScan(joined) ELSE joined)
    BY DEF ChangeToAssociated
<1> HIDE DEF psk
<1>3. Paced(scanOver)
    BY <1>1, PacedCancelOther
<1> HIDE DEF scanOver
<1>4. Paced(b)
    BY <1>1, <1>3, PacedCancelOther
<1> HIDE DEF b
<1>5. Paced(d)
    BY <1>1, <1>4, PacedCancelOther
<1> HIDE DEF d
<1>6. Paced(e)
    BY <1>5, Settings, PacedAdd
<1> HIDE DEF e
<1>7. Paced(joined)
    BY <1>6, PacedFields
<1> HIDE DEF joined
<1>8. Paced(IF psk THEN StartPassiveScan(joined) ELSE joined)
    BY <1>7, PacedPort
<1> QED
    BY <1>2, <1>7, <1>8, PacedPort

LEMMA PacedAssociating ==
    ASSUME NEW c, Paced(c), NEW in
    PROVE  /\ Paced(StartAssociating(c))
           /\ Paced(AssociationTimeout(c, in))
           /\ Paced(ChangeToAssociating(c, in))
<1>1. {"RESCAN", "ASSOCIATION"} \subseteq Timers
    BY DEF Timers
<1>2. ASSUME NEW d, Paced(d) PROVE Paced(StartAssociating(d))
    BY <1>2, Settings, PacedAddOrReset, PacedFields DEF StartAssociating
<1>3. ASSUME NEW d, Paced(d) PROVE Paced(AssociationTimeout(d, in))
    BY <1>1, <1>3, PacedCancelOther, PacedActiveScan DEF AssociationTimeout
<1> DEFINE b == Cancel(c, "RESCAN")
           started == Reinit(StartAssociating(b))
<1>4. Paced(b)
    BY <1>1, PacedCancelOther
<1>5. ChangeToAssociating(c, in) =
          IF c.conn = NONE THEN c
          ELSE IF in.valid THEN started ELSE AssociationTimeout(started, in)
    BY DEF ChangeToAssociating
<1> HIDE DEF b
<1>6. Paced(started)
    BY <1>2, <1>4, PacedPort
<1> HIDE DEF started
<1>7. Paced(ChangeToAssociating(c, in))
    BY <1>3, <1>5, <1>6
<1> QED
    BY <1>2, <1>3, <1>7

LEMMA PacedOtherChanges ==
    ASSUME NEW c, Paced(c), NEW in
    PROVE  /\ Paced(ChangeToPortDown(c)) /\ Paced(DoAssociated(c, in))
           /\ Paced(ChangeToIntStopped(c, in))
<1>1. Paced(ChangeToPortDown(c))
    BY PacedFields, PacedPort DEF ChangeToPortDown
<1>2. Paced(DoAssociated(c, in))
    BY PacedPort DEF DoAssociated
<1>3. Paced(ForceUnauth(DoAssociated(c, in)))
    BY <1>2, PacedPort
<1>4. Paced(ChangeToIntStopped(c, in))
    BY <1>3, PacedFields DEF ChangeToIntStopped
<1> QED
    BY <1>1, <1>2, <1>4

\* The global checks of wireless_sm_do_state.
LEMMA PacedGlobals ==
    ASSUME NEW c, Paced(c), NEW in
    PROVE  Paced(CheckGlobals(c, in))
<1> DEFINE d == CheckPort(c)
<1>1. Paced(d)
    <2>1. Paced([c EXCEPT !.portActive = FALSE])
        BY PacedFields
    <2> QED
        BY <2>1, PacedFields, PacedOtherChanges DEF CheckPort
<1> HIDE DEF d
<1>2. Paced(ChangeToAssociated(d, in))
    BY <1>1, PacedAssociated
<1>3. Paced(CheckAssociated(d, in))
    BY <1>1, <1>2, PacedFields DEF CheckAssociated
<1>4. Paced([ForceAuth(c) EXCEPT !.state = "NO_ENC_ASSOCIATION"])
    BY PacedPort, PacedFields
<1> QED
    BY <1>3, <1>4 DEF CheckGlobals, d

\* The actions of the states.
LEMMA PacedStates ==
    ASSUME NEW c, Paced(c), NEW in
    PROVE  Paced(DoCurrentState(c, in))
<1>1. Paced(DoPortDown(c, in))
    <2>1. Paced([c EXCEPT !.portActive = TRUE])
        BY PacedFields
    <2> QED
        BY <2>1, PacedActiveScan, PacedFields DEF DoPortDown
<1>2. Paced(DoUnassociated(c, in))
    <2>1. Paced(IF c.essid # NONE /\ in.otherAp THEN StartAssociating(c)
                ELSE c)
        BY PacedAssociating
    <2> QED
        BY <2>1, PacedFields, PacedActiveScan DEF DoUnassociated
<1>3. ASSUME NEW d, Paced(d), NEW essid PROVE Paced(Bind(d, essid))
    BY <1>3, PacedFields DEF Bind
<1>4. Paced(JoinChosen(c, in))
    <2>1. Paced([Add(c, "RESCAN", RescanSecs) EXCEPT !.checked = TRUE])
        BY Settings, PacedAdd, PacedFields
    <2>2. Paced([c EXCEPT !.essid = in.chosen])
        BY PacedFields
    <2>3. Paced(Bind([c EXCEPT !.essid = in.chosen], in.chosen))
        BY <1>3, <2>2
    <2> QED
        BY <2>1, <2>3, PacedAssociating DEF JoinChosen
<1>5. Paced(JoinForced(c, in))
    <2>1. Paced(Bind(c, c.essid))
        BY <1>3
    <2> QED
        BY <2>1, PacedAssociating, PacedScans DEF JoinForced
<1>6. Paced(DoActiveScan(c, in))
    BY <1>4, <1>5 DEF DoActiveScan
<1> QED
    BY <1>1, <1>2, <1>6, PacedOtherChanges DEF DoCurrentState

LEMMA PacedDoState ==
    ASSUME NEW c, Paced(c), NEW in
    PROVE  Paced(DoState(c, in))
BY PacedGlobals, PacedStates DEF DoState

\* The timer that has come to zero is taken off the list or set again first.
LEMMA PacedExpire ==
    ASSUME NEW c, NEW t \in Timers, PacedBut(c, t), NEW in
    PROVE  Paced(Expire(c, t, in))
<1>1. Paced(Cancel(c, t))
    BY PacedCancel
<1>2. CASE t = "RESCAN"
    BY <1>1, <1>2, PacedActiveScan DEF Expire
<1>3. CASE t = "INT_HELD"
    <2>1. Expire(c, t, in) = IntHeldTimeout(c, in)
        BY <1>3 DEF Expire
    <2> QED
        BY <1>1, <1>3, <2>1, PacedActiveScan DEF IntHeldTimeout
<1>4. CASE t = "ASSOCIATION"
    <2>1. Expire(c, t, in) = AssociationTimeout(c, in)
        BY <1>4 DEF Expire
    <2> QED
        BY <1>1, <1>4, <2>1, PacedActiveScan DEF AssociationTimeout
<1>5. CASE t = "SCANCHECK"
    BY <1>1, <1>5, PacedFields DEF Expire
<1>6. CASE t = "SIG_STRENGTH"
    <2>1. Expire(c, t, in) = SigStrengthTimeout(c)
        BY <1>6 DEF Expire
    <2>2. Paced(Reset(c, t, PollSecs))
        BY <1>6, Settings, PacedReset
    <2> QED
        BY <1>1, <1>6, <2>1, <2>2 DEF SigStrengthTimeout
<1>7. CASE t = "PASSIVE_SCAN"
    <2>1. Expire(c, t, in) = PassiveScanTimeout(c)
        BY <1>7 DEF Expire
    <2>2. Paced(Reset(c, t, PassiveSecs)) /\ Paced(Reset(c, t, PollSecs))
        BY <1>7, Settings, PacedReset
    <2>3. Paced(c)
        BY <1>7 DEF Paced
    <2> QED
        <3>1. /\ Paced([Reset(c, t, PassiveSecs) EXCEPT !.pasv = FALSE])
              /\ Paced([Reset(c, t, PollSecs) EXCEPT !.pasv = TRUE])
            BY <2>2 DEF Paced, PacedBut
        <3> QED
            BY <1>7, <2>1, <2>3, <3>1 DEF PassiveScanTimeout
<1> QED
    BY <1>2, <1>3, <1>4, <1>5, <1>6, <1>7 DEF Timers

\* A second of one timer.
LEMMA PacedTick ==
    ASSUME NEW c, Paced(c), NEW t \in Timers, Running(c.timers, t), NEW in
    PROVE  Paced(DoTick(c, t, in))
<1> DEFINE l == c.timers
           m == CountDown(l, t)
           less == [c EXCEPT !.timers = m]
           seen == IF t = "SCANCHECK" THEN CheckNets(less, in.results)
                   ELSE less
<1>1. l \in TimerLists /\ LeftOk(l, "PASSIVE_SCAN") /\ "timers" \in DOMAIN c
    BY DEF Paced, PacedBut
<1>2. Running(l, t)
    OBVIOUS
<1>3. DoTick(c, t, in) = IF seen.timers.left[t] = 0 THEN Expire(seen, t, in)
                         ELSE seen
    BY DEF DoTick
<1> HIDE DEF l
<1>4. m \in TimerLists /\ \A u \in Timers : Running(m, u) <=> Running(l, u)
    BY <1>1, <1>2, CountedDown
<1>5. l.left[t] \in Nat /\ l.left[t] < Modulus
    BY <1>1, <1>2, ModulusAssumption DEF TimerLists, Running, Seconds
<1>6. /\ m.left[t] = (l.left[t] + Modulus - 1) % Modulus
      /\ \A u \in Timers \ {t} : m.left[u] = l.left[u]
    BY <1>1 DEF CountDown, TimerLists
<1>7. LeftOk(m, t)
    <2> SUFFICES ASSUME NEW u \in Timers \ {"PASSIVE_SCAN"}, Running(m, u)
                 PROVE  m.left[u] \in
                            (IF u = t THEN 0 ELSE 1) .. Period(u)
        BY DEF LeftOk
    <2>1. l.left[u] \in 1 .. Period(u)
        BY <1>1, <1>4 DEF LeftOk
    <2>2. CASE u = t
        <3>1. l.left[t] >= 1 /\ l.left[t] <= Period(t)
            BY <1>5, <2>1, <2>2
        <3>2. (l.left[t] + Modulus - 1) % Modulus = l.left[t] - 1
            BY <1>5, <3>1, ModulusAssumption
        <3>3. m.left[u] = l.left[t] - 1
            BY <1>6, <2>2, <3>2
        <3> QED
            BY <1>5, <2>2, <3>1, <3>3, PeriodIsNat
    <2>3. CASE u # t
        BY <1>6, <2>1, <2>3
    <2> QED
        BY <2>2, <2>3
<1> HIDE DEF m
<1>8. PacedBut(less, t)
    BY <1>1, <1>4, <1>7 DEF PacedBut
<1> HIDE DEF less
<1>9. PacedBut(seen, t)
    BY <1>8, PacedCheckNets
<1> HIDE DEF seen
<1>10. CASE seen.timers.left[t] = 0
    BY <1>3, <1>9, <1>10, PacedExpire
<1>11. CASE seen.timers.left[t] # 0
    <2>1. LeftOk(seen.timers, t)
        BY <1>9 DEF PacedBut
    <2> SUFFICES ASSUME NEW u \in Timers \ {"PASSIVE_SCAN"},
                        Running(seen.timers, u)
                 PROVE  seen.timers.left[u] \in 1 .. Period(u)
        BY <1>3, <1>9, <1>11 DEF Paced, PacedBut, LeftOk
    <2>2. seen.timers.left[u] \in (IF u = t THEN 0 ELSE 1) .. Period(u)
        BY <2>1 DEF LeftOk
    <2>3. CASE u = t
        <3>1. seen.timers.left[u] \in 0 .. Period(u)
            BY <2>2, <2>3
        <3> QED
            BY <1>11, <2>3, <3>1
    <2>4. CASE u # t
        BY <2>2, <2>4
    <2> QED
        BY <2>3, <2>4
<1> QED
    BY <1>10, <1>11

\* The context has no timer at the start.
LEMMA PacedInit == Init => Paced(w)
<1> SUFFICES ASSUME Init PROVE Paced(w)
    OBVIOUS
<1> DEFINE new == [state |-> "UNASSOCIATED", scanning |-> FALSE,
                   checked |-> FALSE, portActive |-> FALSE,
                   assoc |-> FALSE, dropsOut |-> FALSE, discReq |-> FALSE,
                   pasv |-> FALSE, forced |-> FALSE, conn |-> NONE,
                   prof |-> NONE, essid |-> NONE, control |-> "AUTO",
                   ptk |-> FALSE,
                   port |-> "UNAUTHORIZED", timers |-> NoTimers]
<1>1. NoTimers \in TimerLists
    BY DEF NoTimers, TimerLists
<1>2. LeftOk(NoTimers, "PASSIVE_SCAN")
    BY DEF LeftOk, NoTimers, Running
<1>3. Paced(new)
    BY <1>1, <1>2 DEF Paced, PacedBut
<1>4. PICK in \in Inputs : w = IF up THEN ChangeToActiveScan(new, in)
                               ELSE ChangeToPortDown(new)
    BY DEF Init
<1> HIDE DEF new
<1> QED
    BY <1>3, <1>4, PacedActiveScan, PacedOtherChanges

\* Every step keeps it.  That the walk is on a node, which Invariant says, is
\* needed for the tick: the counter of a node that is none would wrap.
LEMMA PacedStep == Invariant /\ Paced(w) /\ [Next]_vars => Paced(w')
<1> SUFFICES ASSUME Invariant, Paced(w), [Next]_vars PROVE Paced(w')
    OBVIOUS
<1>1. CASE UNCHANGED w
    BY <1>1
<1>2. CASE TimerTicks
    <2>1. at \in Timers /\ Running(w.timers, at)
        BY <1>2 DEF TimerTicks, Invariant, State, WalkIsOnNode
    <2>2. PICK in \in TickInputs : w' = DoTick(w, at, in)
        BY <1>2 DEF TimerTicks
    <2> QED
        BY <2>1, <2>2, PacedTick
<1>3. CASE MachineRuns
    BY <1>3, PacedDoState DEF MachineRuns
<1>4. CASE ScanResults
    <2>1. PICK results : w' = CheckNets(w, results)
        BY <1>4 DEF ScanResults
    <2> QED
        BY <2>1, PacedCheckNets DEF Paced
<1>5. CASE \E associated \in BOOLEAN : ApEvent(associated)
    <2> DEFINE calm == IF w.scanning
                       THEN [Cancel(w, "SCANCHECK") EXCEPT !.scanning = FALSE]
                       ELSE w
    <2>1. Paced(Cancel(w, "SCANCHECK"))
        BY PacedCancelOther DEF Timers
    <2>2. Paced(calm)
        BY <2>1, PacedFields
    <2>3. \/ w' = [calm EXCEPT !.assoc = TRUE, !.discReq = FALSE]
          \/ w' = [calm EXCEPT !.assoc = FALSE]
        BY <1>5 DEF ApEvent
    <2> HIDE DEF calm
    <2> QED
        BY <2>2, <2>3 DEF Paced, PacedBut
<1>6. CASE OperDown
    <2>1. Paced(Disconnected(w))
        BY PacedPort
    <2>2. Paced([Disconnected(w) EXCEPT !.state = "UNASSOCIATED",
                                        !.dropsOut = TRUE])
        BY <2>1, PacedFields
    <2> QED
        BY <1>6, <2>2, PacedActiveScan DEF OperDown
<1>7. CASE OperUp
    BY <1>7, PacedFields DEF OperUp
<1>8. CASE \E verdict \in {"AUTHORIZED", "UNAUTHORIZED"} : Frame(verdict)
    BY <1>8, PacedPort DEF Frame
<1>9. CASE KeyFrame
    <2>1. Paced([w EXCEPT !.ptk = TRUE])
        BY DEF Paced, PacedBut
    <2> QED
        BY <1>9, <2>1, PacedPort DEF KeyFrame
<1>10. CASE \E conn \in Essids : Connect(conn)
    <2>1. PICK conn \in Essids : Connect(conn)
        BY <1>10
    <2> DEFINE bound == [w EXCEPT !.forced = TRUE, !.conn = conn]
               given == [bound EXCEPT !.prof = ProfileOf(conn),
                                      !.essid = conn]
               ready == Reinit(given)
    <2>2. Paced(bound)
        BY PacedFields
    <2>3. PICK in : w' = IF in.known THEN ChangeToAssociating(ready, in)
                         ELSE bound
        BY <2>1 DEF Connect, Request
    <2> HIDE DEF bound
    <2>4. Paced(given)
        BY <2>2, PacedFields
    <2> HIDE DEF given
    <2>5. Paced(ready)
        BY <2>4, PacedPort
    <2> HIDE DEF ready
    <2> QED
        BY <2>2, <2>3, <2>5, PacedAssociating
<1>11. CASE Stop
    BY <1>11, PacedOtherChanges DEF Stop, Request
<1>12. CASE Scan
    BY <1>12, PacedScans DEF Scan, Request
<1>13. CASE Disassociate \/ \E locked \in BOOLEAN : SetLock(locked)
    <2>1. \/ w' = [w EXCEPT !.discReq = TRUE]
          \/ \E locked \in BOOLEAN : w' = [w EXCEPT !.forced = locked]
        BY <1>13 DEF Disassociate, SetLock, Request
    <2> QED
        BY <2>1 DEF Paced, PacedBut
<1>14. CASE RequestLogoff
    BY <1>14, PacedPort, PacedFields DEF RequestLogoff, Request
<1>15. CASE Disconnect
    <2>1. w' = [w EXCEPT !.discReq = TRUE, !.essid = NONE,
                  !.conn = NONE, !.prof = NONE, !.forced = TRUE]
        BY <1>15 DEF Disconnect, Request
    <2> QED
        BY <2>1 DEF Paced, PacedBut
<1>16. CASE Unbind
    BY <1>16, PacedFields DEF Unbind, Request
<1> QED
    BY <1>1, <1>2, <1>3, <1>4, <1>5, <1>6, <1>7, <1>8, <1>9, <1>10, <1>11,
       <1>12, <1>13, <1>14, <1>15, <1>16
    DEF Next, vars, TickStarts, FlagsChange

(***************************************************************************)
(* Theorems.                                                               *)
(***************************************************************************)
\* Every step of event_core, of the driver and of the user keeps it, and
\* keeps the port shut off the link when it takes no late frame.
LEMMA QuietStep ==
    ASSUME NEW p, State(p), [Next]_vars, ~TakesLateFrame
    PROVE  State(p)'
<1>1. CASE UNCHANGED vars
    BY <1>1 DEF vars, State, WalkIsOnNode
<1>2. CASE FlagsChange
    BY <1>2, StepSelect DEF FlagsChange, Event, State
<1>3. CASE ScanResults
    BY <1>3, NetsChecked, StepSelect DEF ScanResults, Event, State
<1>4. CASE OperUp
    BY <1>4, SoundFlags, StepSelect DEF OperUp, Event, State
<1>5. CASE \E associated \in BOOLEAN : ApEvent(associated)
    BY <1>5, ApEventInvariant
<1>6. CASE \E conn \in Essids : Connect(conn)
    BY <1>6, ConnectInvariant
<1>7. CASE \/ Disassociate \/ RequestLogoff \/ Disconnect \/ Unbind
           \/ \E locked \in BOOLEAN : SetLock(locked)
    BY <1>7, OtherRequestInvariant
<1> QED
    BY <1>1, <1>2, <1>3, <1>4, <1>5, <1>6, <1>7,
       TickStartsInvariant, TimerTicksInvariant, MachineRunsInvariant,
       OperDownInvariant, StopInvariant, ScanInvariant, StoppedFrame
    DEF Next, TakesLateFrame, TakesEap

LEMMA StepInvariant == Invariant /\ [Next]_vars => Invariant'
BY QuietStep, FrameInvariant, KeyFrameInvariant
DEF Invariant, TakesLateFrame, TakesEap

\* The inductive invariant holds in every state of the wireless machine
\* (wireless_sm.c, timer.c).
THEOREM WirelessInductive == Spec => []Invariant
<1>1. Init => Invariant
    BY InitInvariant DEF Invariant
<1> QED
    BY <1>1, StepInvariant, PTL DEF Spec

\* The context, the flags of the interface and the place in event_core always
\* have their types: no timer leaves the range of its uint16_t (timer.c:251).
THEOREM WirelessTypeCorrect == Spec => []TypeOK
<1>1. Invariant => TypeOK
    BY DEF Invariant, State, Sound, TypeOK
<1> QED
    BY <1>1, WirelessInductive, PTL

\* An association, a held interface and the pause after a scan always have
\* the timer that ends them (wireless_sm.c:594, :875, :1448).
THEOREM WaitIsTimedTheorem == Spec => []WaitIsTimed
<1>1. Invariant => WaitIsTimed
    BY DEF Invariant, State, Sound, WaitIsTimed
<1> QED
    BY <1>1, WirelessInductive, PTL

\* Nothing but a late frame opens the port off the link, and nothing but a key
\* frame takes the port machine of a stopped interface out of the state it was
\* forced into: every way out of ASSOCIATED, and every request and event after
\* it, leaves the port shut
\* (wireless_sm.c:422, :513, :885, :1050, :1169, :1597).
THEOREM PortFollowsLinkTheorem == Spec => PortFollowsLink
<1>1. ASSUME Invariant, [Next]_vars
      PROVE  [ShutOffLink(w) /\ ~TakesLateFrame => ShutOffLink(w')]_vars
    <2> SUFFICES ASSUME ShutOffLink(w), ~TakesLateFrame
                 PROVE  ShutOffLink(w')
        OBVIOUS
    <2>1. State("shut")
        BY <1>1 DEF Invariant, State, Sound
    <2>2. State("shut")'
        BY <1>1, <2>1, QuietStep
    <2> QED
        BY <2>2 DEF State, Sound
<1> QED
    BY <1>1, WirelessInductive, PTL DEF Spec, PortFollowsLink

\* Every timer but the passive scan's has between one second and its period
\* left, between two ticks: none wraps round (timer.c:251, :269).
THEOREM CountersInRangeTheorem == Spec => []CountersInRange
<1>1. Paced(w) => CountersInRange
    BY DEF Paced, PacedBut, LeftOk, CountersInRange, InPeriod, Runs
<1>2. Invariant /\ Paced(w) /\ [Next]_vars => Paced(w)'
    BY PacedStep
<1>3. Spec => []Paced(w)
    BY <1>2, PacedInit, WirelessInductive, PTL DEF Spec
<1> QED
    BY <1>1, <1>3, PTL
=============================================================================

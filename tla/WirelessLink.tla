---------------------------- MODULE WirelessLink ----------------------------
(***************************************************************************)
(* The wireless machine of the supplicant (wireless_sm.c) on Linux, with   *)
(* its six timers, the events of the driver that reach it over netlink     *)
(* (cardif_linux_rtnetlink.c) and the requests of the user interface.      *)
(*                                                                         *)
(* The operators that follow the functions of the code take and return the *)
(* value of the interface's context; in holds what the environment decides *)
(* during the call.  The port access machine, which SuppPae models, is cut *)
(* down to its port, the value of portControl and whether there is a key.  *)
(***************************************************************************)
EXTENDS TimerList

CONSTANTS Essids,         \* the networks there are
          KindOf,         \* [Essids -> Kinds]: the connection of that name
          RescanSecs,     \* globals->active_timeout
          AssocSecs,      \* globals->assoc_timeout, also for a scan
          PassiveSecs,    \* globals->passive_timeout
          HeldSecs,       \* INT_HELD_TIMEOUT
          PollSecs,       \* signal strength, results of a passive scan: 5
          AutoAssociate,  \* CONFIG_GLOBALS_ASSOC_AUTO
          PassiveScan,    \* CONFIG_GLOBALS_PASSIVE_SCAN
          UserRequests,   \* which requests the user interface makes
          LinkEvents      \* which events the driver and the link produce

\* "eap" and "nomethod": 802.1X, with a profile that has a method or not.
Kinds == {"eap", "nomethod", "psk", "open", "unconfigured"}

NONE == "NONE"

ASSUME WirelessAssumption ==
    /\ KindOf \in [Essids -> Kinds] /\ NONE \notin Essids
    /\ {RescanSecs, AssocSecs, PassiveSecs, HeldSecs, PollSecs}
          \subseteq 1 .. Modulus - 1
    /\ AutoAssociate \in BOOLEAN /\ PassiveScan \in BOOLEAN

States == {"UNASSOCIATED", "ASSOCIATED", "ACTIVE_SCAN", "ASSOCIATING",
           "PORT_DOWN", "NO_ENC_ASSOCIATION", "INT_STOPPED", "INT_HELD"}

Controls == {"AUTO", "FORCE_AUTHORIZED", "FORCE_UNAUTHORIZED"}

\* wireless_ctx and the part of struct context that it shares.
Contexts ==
    [state : States,
     scanning : BOOLEAN,    \* WIRELESS_SCANNING
     checked : BOOLEAN,     \* WIRELESS_CHECKED
     portActive : BOOLEAN,  \* WIRELESS_SM_PORT_ACTIVE
     assoc : BOOLEAN,       \* WIRELESS_SM_ASSOCIATED
     dropsOut : BOOLEAN,    \* WIRELESS_AP_DROPSOUT_CONNECT_TO_SAME_ESSID
     discReq : BOOLEAN,     \* WIRELESS_SM_DISCONNECT_REQ
     pasv : BOOLEAN,        \* WIRELESS_PASV_SCANNING
     forced : BOOLEAN,      \* FORCED_CONN
     conn : Essids \cup {NONE},
     prof : {"eap", "nomethod", NONE},
     essid : Essids \cup {NONE},
     control : Controls,
     port : {"AUTHORIZED", "UNAUTHORIZED"},
     ptk : BOOLEAN,         \* there is a pairwise key: a handshake has begun
     timers : TimerLists]

VARIABLES w,   \* the context
          up,  \* IFF_UP of the interface
          at   \* where event_core is: "select", the timer that timer_tick
               \* is about to tick, "run", or "CRASHED"

vars == <<w, up, at>>

\* What the environment decides: the scan ioctl works; what a look at the
\* scan results brings; the wanted network is in the cache; the network the
\* configuration chooses; another AP serves the same network; the connection
\* fits what the AP offers; what a run of the port machine ends in.
Inputs ==
    [scanWorks : BOOLEAN, results : {"none", "error", "data"},
     known : BOOLEAN, chosen : Essids \cup {NONE}, otherAp : BOOLEAN,
     valid : BOOLEAN, verdict : {"AUTHORIZED", "UNAUTHORIZED", "AS_IS"}]

(***************************************************************************)
(* Timers of the context.                                                  *)
(***************************************************************************)
Add(c, t, secs) == [c EXCEPT !.timers = AddTimer(@, t, secs)]
Reset(c, t, secs) == [c EXCEPT !.timers = ResetTimer(@, t, secs)]
Cancel(c, t) == [c EXCEPT !.timers = CancelTimer(@, t)]

AddOrReset(c, t, secs) ==
    IF Running(c.timers, t) THEN Reset(c, t, secs) ELSE Add(c, t, secs)

(***************************************************************************)
(* The port machine.  Its changes to LOGOFF and DISCONNECTED want to kill  *)
(* the passive scan timer, and try to when there is none.                  *)
(***************************************************************************)
KillPassiveScan(c) ==
    IF Running(c.timers, "PASSIVE_SCAN") THEN c ELSE Cancel(c, "PASSIVE_SCAN")

StartPassiveScan(c) ==
    IF PassiveScan THEN AddOrReset(c, "PASSIVE_SCAN", PassiveSecs) ELSE c

\* A mutant: the port is left as it is.
PortKept(c) == KillPassiveScan(c)

Disconnected(c) == [KillPassiveScan(c) EXCEPT !.port = "UNAUTHORIZED"]

ForceAuth(c) ==
    [c EXCEPT !.control = "FORCE_AUTHORIZED", !.port = "AUTHORIZED"]

ForceUnauth(c) ==
    [c EXCEPT !.control = "FORCE_UNAUTHORIZED", !.port = "UNAUTHORIZED"]

Reinit(c) ==
    [c EXCEPT !.control = "AUTO", !.port = "UNAUTHORIZED", !.ptk = FALSE]

\* statemachine_run, any number of times.
PaeRun(c, verdict) ==
    IF verdict = "AS_IS" THEN c
    ELSE IF c.control = "AUTO"
    THEN [(IF verdict = "AUTHORIZED" THEN StartPassiveScan(c) ELSE c)
             EXCEPT !.port = verdict]
    ELSE IF c.control = "FORCE_AUTHORIZED" THEN ForceAuth(c)
    ELSE ForceUnauth(c)

(***************************************************************************)
(* The configuration.                                                      *)
(***************************************************************************)
ProfileOf(conn) ==
    IF conn # NONE /\ KindOf[conn] \in {"eap", "nomethod"}
    THEN KindOf[conn] ELSE NONE

\* config_build.
Bind(c, essid) ==
    LET conn == IF KindOf[essid] = "unconfigured" THEN NONE ELSE essid
    IN  [c EXCEPT !.conn = conn, !.prof = ProfileOf(conn)]

\* config_ssid_ssid_known for the current network.
Known(c, in) == c.essid # NONE /\ in.known

(***************************************************************************)
(* Scans: cardif_do_wireless_scan, which ignores a request while it scans, *)
(* and the collection of the results.                                      *)
(***************************************************************************)
CanScan(c, in) == c.scanning \/ in.scanWorks

DoScan(c, in) ==
    IF c.scanning \/ ~in.scanWorks THEN c
    ELSE [Add(c, "SCANCHECK", AssocSecs) EXCEPT !.scanning = TRUE]

CheckNets(c, results) ==
    CASE ~c.scanning \/ results = "none" -> c
      [] c.scanning /\ results = "error" -> [c EXCEPT !.scanning = FALSE]
      [] OTHER -> [Cancel(c, "SCANCHECK") EXCEPT !.scanning = FALSE]

(***************************************************************************)
(* wireless_sm_change_to_*.                                                *)
(***************************************************************************)
ChangeToIntHeld(c) ==
    [Add(c, "INT_HELD", HeldSecs) EXCEPT
        !.scanning = FALSE, !.state = "INT_HELD"]

ChangeToActiveScan(c, in) ==
    LET fresh == Reinit([c EXCEPT !.checked = FALSE, !.state = "ACTIVE_SCAN"])
    IN  IF CanScan(c, in) THEN DoScan(fresh, in)
        ELSE ChangeToIntHeld(Cancel(fresh, "SCANCHECK"))

ChangeToUnassociated(c, in) ==
    IF c.state # "ASSOCIATED" THEN c
    ELSE ChangeToActiveScan(Disconnected(c), in)

\* While it scans, only for a network that is in the cache.
ChangeToAssociated(c, in) ==
    LET scanOver == IF c.state = "ACTIVE_SCAN" THEN Cancel(c, "RESCAN") ELSE c
        joined   == [Add(Cancel(Cancel(scanOver, "ASSOCIATION"), "SCANCHECK"),
                         "SIG_STRENGTH", PollSecs)
                        EXCEPT !.state = "ASSOCIATED", !.forced = TRUE]
        psk      == c.conn # NONE /\ KindOf[c.conn] = "psk"
    IN  IF c.scanning /\ ~Known(c, in) THEN c
        ELSE IF c.prof # NONE THEN joined
        ELSE ForceAuth(IF psk THEN StartPassiveScan(joined) ELSE joined)

\* Two mutants: the timer is reset where there may be none; the attempt is
\* repeated for ever.
StartUntimed(c) ==
    [Reset(c, "ASSOCIATION", AssocSecs) EXCEPT !.state = "ASSOCIATING"]

RepeatAttempt(c, in) ==
    [AddOrReset(c, "ASSOCIATION", AssocSecs) EXCEPT !.state = "ASSOCIATING"]

AssociationTimeout(c, in) == ChangeToActiveScan(Cancel(c, "ASSOCIATION"), in)

StartAssociating(c) ==
    [AddOrReset(c, "ASSOCIATION", AssocSecs) EXCEPT !.state = "ASSOCIATING"]

ChangeToAssociating(c, in) ==
    LET started == Reinit(StartAssociating(Cancel(c, "RESCAN")))
    IN  IF c.conn = NONE THEN c
        ELSE IF in.valid THEN started ELSE AssociationTimeout(started, in)

ChangeToPortDown(c) == Reinit([c EXCEPT !.state = "PORT_DOWN"])

DoAssociated(c, in) ==
    IF c.conn # NONE /\ KindOf[c.conn] # "open"
    THEN PaeRun(c, in.verdict) ELSE c

ChangeToIntStopped(c, in) ==
    [ForceUnauth(DoAssociated(c, in)) EXCEPT !.state = "INT_STOPPED"]

(***************************************************************************)
(* wireless_sm_do_state: the global checks, then the state.                *)
(***************************************************************************)
CheckPort(c) ==
    IF c.portActive /\ ~up
    THEN ChangeToPortDown([c EXCEPT !.portActive = FALSE])
    ELSE [c EXCEPT !.portActive = TRUE]

CheckAssociated(c, in) ==
    IF c.assoc /\ c.portActive
    THEN [ChangeToAssociated(c, in) EXCEPT !.assoc = FALSE] ELSE c

CheckGlobals(c, in) ==
    IF c.conn = NONE THEN c
    ELSE IF c.prof = "nomethod"
    THEN [ForceAuth(c) EXCEPT !.state = "NO_ENC_ASSOCIATION"]
    ELSE CheckAssociated(CheckPort(c), in)

DoPortDown(c, in) ==
    IF up THEN ChangeToActiveScan([c EXCEPT !.portActive = TRUE], in)
    ELSE [c EXCEPT !.portActive = FALSE]

\* After the AP dropped out: connect_to_next_best.
DoUnassociated(c, in) ==
    IF c.dropsOut
    THEN [(IF c.essid # NONE /\ in.otherAp THEN StartAssociating(c) ELSE c)
             EXCEPT !.dropsOut = FALSE]
    ELSE IF AutoAssociate THEN ChangeToActiveScan(c, in) ELSE c

\* In manual mode the network is the one the card is set to.
JoinChosen(c, in) ==
    IF \/ in.chosen = NONE
       \/ AutoAssociate /\ KindOf[in.chosen] = "unconfigured"
    THEN [Add(c, "RESCAN", RescanSecs) EXCEPT !.checked = TRUE]
    ELSE ChangeToAssociating(
             Bind([c EXCEPT !.essid = in.chosen], in.chosen), in)

JoinForced(c, in) ==
    IF Known(c, in) THEN ChangeToAssociating(Bind(c, c.essid), in)
    ELSE ChangeToIntHeld(c)

DoActiveScan(c, in) ==
    IF c.scanning \/ c.checked THEN c
    ELSE IF c.forced THEN JoinForced(c, in) ELSE JoinChosen(c, in)

DoCurrentState(c, in) ==
    CASE c.state = "UNASSOCIATED" -> DoUnassociated(c, in)
      [] c.state \in {"ASSOCIATED", "INT_STOPPED"} -> DoAssociated(c, in)
      [] c.state = "ACTIVE_SCAN" -> DoActiveScan(c, in)
      [] c.state = "PORT_DOWN" -> DoPortDown(c, in)
      [] OTHER -> c

DoState(c, in) == DoCurrentState(CheckGlobals(c, in), in)

(***************************************************************************)
(* Timers that expire.                                                     *)
(***************************************************************************)
\* A mutant: the timer is cancelled last.
HeldTimeoutLate(c, in) ==
    Cancel(IF c.state = "INT_HELD" THEN ChangeToActiveScan(c, in) ELSE c,
           "INT_HELD")

IntHeldTimeout(c, in) ==
    IF c.state = "INT_HELD"
    THEN ChangeToActiveScan(Cancel(c, "INT_HELD"), in)
    ELSE Cancel(c, "INT_HELD")

\* A mutant: the timer is left on the list.
SigStrengthKept(c) ==
    IF c.state = "ASSOCIATED" THEN Reset(c, "SIG_STRENGTH", PollSecs) ELSE c

SigStrengthTimeout(c) ==
    IF c.state = "ASSOCIATED" THEN Reset(c, "SIG_STRENGTH", PollSecs)
    ELSE Cancel(c, "SIG_STRENGTH")

\* In a second of a scan the timer is left where it is: at zero.
PassiveScanTimeout(c) ==
    CASE c.pasv ->
            [Reset(c, "PASSIVE_SCAN", PassiveSecs) EXCEPT !.pasv = FALSE]
      [] ~c.pasv /\ ~c.scanning ->
            [Reset(c, "PASSIVE_SCAN", PollSecs) EXCEPT !.pasv = TRUE]
      [] OTHER -> c

Expire(c, t, in) ==
    CASE t = "RESCAN" -> ChangeToActiveScan(Cancel(c, "RESCAN"), in)
      [] t = "INT_HELD" -> IntHeldTimeout(c, in)
      [] t = "ASSOCIATION" -> AssociationTimeout(c, in)
      [] t = "SCANCHECK" ->
            [Cancel(c, "SCANCHECK") EXCEPT !.scanning = FALSE]
      [] t = "SIG_STRENGTH" -> SigStrengthTimeout(c)
      [] t = "PASSIVE_SCAN" -> PassiveScanTimeout(c)

\* do_tick.  Only the scan check timer has a function to call every second.
DoTick(c, t, in) ==
    LET less == [c EXCEPT !.timers = CountDown(@, t)]
        seen == IF t = "SCANCHECK" THEN CheckNets(less, in.results) ELSE less
    IN  IF seen.timers.left[t] = 0 THEN Expire(seen, t, in) ELSE seen

(***************************************************************************)
(* Passes of event_core.  Every source is served in "select"; once a       *)
(* second timer_tick walks the list; then the machine runs.                *)
(***************************************************************************)
Init ==
    /\ up \in BOOLEAN /\ at = "select"
    /\ \E in \in Inputs :
          LET new == [state |-> "UNASSOCIATED", scanning |-> FALSE,
                      checked |-> FALSE, portActive |-> FALSE,
                      assoc |-> FALSE, dropsOut |-> FALSE, discReq |-> FALSE,
                      pasv |-> FALSE, forced |-> FALSE, conn |-> NONE,
                      prof |-> NONE, essid |-> NONE, control |-> "AUTO",
                      port |-> "UNAUTHORIZED", ptk |-> FALSE,
                      timers |-> NoTimers]
          IN  w = IF up THEN ChangeToActiveScan(new, in)
                  ELSE ChangeToPortDown(new)

\* The walk of timer_tick keeps a pointer to the next node over the call.
TickStarts ==
    /\ at = "select"
    /\ at' = IF Head(w.timers) = Last THEN "run" ELSE Head(w.timers)
    /\ UNCHANGED <<w, up>>

\* When the call freed that node, its memory may have been given to a node
\* that was added since; otherwise the walk follows a pointer into nowhere.
AfterTick(old, new, next) ==
    IF next = Last THEN {"run"}
    ELSE IF Running(new, next) THEN {next}
    ELSE {"CRASHED"} \cup
         {t \in Timers : Running(new, t) /\ ~Running(old, t)}

TickInputs ==
    {in \in Inputs : /\ in.valid /\ ~in.known /\ ~in.otherAp
                     /\ in.chosen = NONE /\ in.verdict = "AS_IS"}

TimerTicks ==
    /\ at \in Timers
    /\ \E in \in TickInputs : w' = DoTick(w, at, in)
    /\ at' \in AfterTick(w.timers, w'.timers, NextOf(w.timers, at))
    /\ UNCHANGED up

\* Another AP of the same network is found in the cache only.
RunInputs ==
    {in \in Inputs : in.results = "none" /\ (in.otherAp => in.known)}

\* The end of a pass.
MachineRuns ==
    /\ at \in {"select", "run"}
    /\ \E in \in RunInputs : w' = DoState(w, in)
    /\ at' = "select"
    /\ UNCHANGED up

(***************************************************************************)
(* Events of the driver and the link.                                      *)
(***************************************************************************)
Event(kind) == kind \in LinkEvents /\ at = "select" /\ UNCHANGED at

FlagsChange == Event("flags") /\ up' = ~up /\ UNCHANGED w

\* SIOCGIWAP: the address of the AP, or none.
ApEvent(associated) ==
    /\ Event(IF associated THEN "associated" ELSE "disassociated")
    /\ LET calm == IF w.scanning
                   THEN [Cancel(w, "SCANCHECK") EXCEPT !.scanning = FALSE]
                   ELSE w
       IN  w' = IF associated /\ w.portActive
                THEN [calm EXCEPT !.assoc = TRUE, !.discReq = FALSE]
                ELSE [calm EXCEPT !.assoc = FALSE]
    /\ UNCHANGED up

\* SIOCGIWSCAN.
ScanResults ==
    /\ Event("results")
    /\ \E results \in {"none", "error", "data"} : w' = CheckNets(w, results)
    /\ UNCHANGED up

\* IFLA_OPERSTATE.
OperDown ==
    /\ Event("down")
    /\ UNCHANGED up
    /\ \/ w.discReq /\ \E in \in TickInputs : w' = ChangeToUnassociated(w, in)
       \/ ~w.discReq /\ ~up /\ UNCHANGED w
       \/ /\ ~w.discReq /\ up
          /\ w' = [Disconnected(w) EXCEPT !.state = "UNASSOCIATED",
                                          !.dropsOut = TRUE]

OperUp == Event("up") /\ w' = [w EXCEPT !.assoc = FALSE] /\ UNCHANGED up

\* An EAP frame of the AP: eapol_execute runs the port machine.  Nothing in
\* its way looks at the state: a frame that was in the socket when the link
\* was lost, or the interface stopped, is taken like any other.
Frame(verdict) ==
    /\ Event("frame") /\ w.conn # NONE
    /\ w' = PaeRun(w, verdict)
    /\ UNCHANGED up

\* Key frames of a network with a shared key, in any state too: the first of
\* a handshake makes the key, the last, and those of the group, open the
\* port.
KeyFrame ==
    /\ Event("key") /\ w.conn # NONE /\ KindOf[w.conn] = "psk"
    /\ \/ w' = [w EXCEPT !.ptk = TRUE]
       \/ w.ptk /\ w' = ForceAuth(w)
    /\ UNCHANGED up

(***************************************************************************)
(* Requests of the user interface.                                         *)
(***************************************************************************)
Request(kind, c) ==
    /\ kind \in UserRequests /\ at = "select"
    /\ w' = c
    /\ UNCHANGED <<up, at>>

ConnectInputs ==
    {in \in RunInputs : in.chosen = NONE /\ in.verdict = "AS_IS"}

\* ipc_callout_change_connection.  The connection is bound, and locked,
\* before the network is looked for.
Connect(conn) ==
    LET bound == [w EXCEPT !.forced = TRUE, !.conn = conn]
        ready == Reinit([bound EXCEPT !.prof = ProfileOf(conn),
                                      !.essid = conn])
    IN  /\ KindOf[conn] # "unconfigured"
        /\ \E in \in ConnectInputs :
              Request("connect",
                      IF in.known THEN ChangeToAssociating(ready, in)
                      ELSE bound)

Disassociate == Request("disassociate", [w EXCEPT !.discReq = TRUE])

Stop ==
    \E in \in RunInputs :
       /\ in.scanWorks /\ in.known /\ in.valid /\ in.chosen = NONE
       /\ Request("stop", ChangeToIntStopped(w, in))

Scan == \E in \in TickInputs : Request("scan", DoScan(w, in))

SetLock(locked) == Request("lock", [w EXCEPT !.forced = locked])

RequestLogoff == Request("logoff", [Disconnected(w) EXCEPT !.conn = NONE])

Disconnect ==
    Request("disconnect", [w EXCEPT !.discReq = TRUE, !.essid = NONE,
               !.conn = NONE, !.prof = NONE, !.forced = TRUE])

Unbind ==
    Request("unbind", [w EXCEPT !.essid = NONE, !.conn = NONE, !.prof = NONE])

Next ==
    \/ TickStarts
    \/ TimerTicks
    \/ MachineRuns
    \/ FlagsChange
    \/ \E associated \in BOOLEAN : ApEvent(associated)
    \/ ScanResults
    \/ OperDown
    \/ OperUp
    \/ \E verdict \in {"AUTHORIZED", "UNAUTHORIZED"} : Frame(verdict)
    \/ KeyFrame
    \/ \E conn \in Essids : Connect(conn)
    \/ Disassociate
    \/ Stop
    \/ Scan
    \/ \E locked \in BOOLEAN : SetLock(locked)
    \/ RequestLogoff
    \/ Disconnect
    \/ Unbind

Spec == Init /\ [][Next]_vars

TypeOK ==
    /\ w \in Contexts /\ up \in BOOLEAN
    /\ at \in Timers \cup {"select", "run", "CRASHED"}
=============================================================================

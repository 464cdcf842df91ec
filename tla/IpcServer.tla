----------------------------- MODULE IpcServer -----------------------------
(***************************************************************************)
(* The handlers the event loop calls: the requests and the events of the   *)
(* user interfaces (xsup_ipc.c), the interfaces that come and go           *)
(* (cardif_linux_rtnetlink.c) and their frames.  At the other end of each  *)
(* connection is the library of the user interface (xsupgui_ud.c).  The    *)
(* kernel gives each new socket the lowest free descriptor.                *)
(***************************************************************************)
EXTENDS EventCore

CONSTANTS Instances,      \* INSTANCES, 1 .. n
          Ifaces,         \* the interfaces, in the order of the configuration
          Clients,        \* connections of user interfaces
          KindOf,         \* [Clients -> {"event", "control"}]
          MaxAsks,        \* [Clients -> Nat]: requests on a connection
          MaxMoves        \* messages of the kernel about links

Interfaces == {Ifaces[k] : k \in DOMAIN Ifaces}

Listeners == {"event", "control"}

\* The table has room for what is there at the start, and the kernel a
\* descriptor for everything that can be open.  Names name one thing.
ASSUME IpcAssumption ==
    /\ Ifaces \in Seq(Interfaces)
    /\ \A j, k \in DOMAIN Ifaces : Ifaces[j] = Ifaces[k] => j = k
    /\ MaxEvents >= 3 + Len(Ifaces)
    /\ IsFiniteSet(Instances) /\ Instances = 1 .. Cardinality(Instances)
    /\ IsFiniteSet(Clients) /\ KindOf \in [Clients -> Listeners]
    /\ Fds = 1 .. 3 + Len(Ifaces) + Cardinality(Clients)
    /\ MaxMoves \in Nat
    /\ Interfaces \cap Clients = {}
    /\ (Listeners \cup {"rtnl", "none"}) \cap (Interfaces \cup Clients) = {}

VARIABLES ipcs,           \* the connections of xsup_ipc.c
          epipe,          \* errno is EPIPE
          listed,         \* interfaces in the cache of interfaces.c
          file,           \* kernel: what each descriptor stands for
          backlog,        \* kernel: connections to accept, per listener
          frames,         \* kernel: interfaces whose socket is readable
          links,          \* kernel: messages of the rtnetlink socket
          plugged,        \* the interfaces that are there
          moves,
          sigpipe,        \* the disposition the daemon was started with
          ui              \* the clients' ends

ipcVars == <<ipcs, epipe, listed>>
kernelVars == <<file, backlog, frames, links>>
worldVars == <<plugged, moves, sigpipe>>
vars == <<loopVars, ipcVars, kernelVars, worldVars, ui>>

NoConnection == [sock |-> 0, flags |-> {}]

\* A request is its number, and an answer the number of its request.
Fresh == [end |-> "out", requests |-> <<>>, answers |-> <<>>, waiting |-> 0,
          asked |-> 0, late |-> 0]

PriorityOf(source) ==
    IF source = "rtnl" THEN "HIGH_PRIORITY" ELSE "LOW_PRIORITY"

\* The order of registration: rtnetlink, the interfaces, the listeners.
Booted(n) == <<"rtnl">> \o SubSeq(Ifaces, 1, n) \o <<"event", "control">>

\* The table after it: rtnetlink got the first slot, the others the last one
\* that was free.
BootTable(b) ==
    LET FdOf(s) == IF s = 0 THEN 1 ELSE MaxEvents + 1 - s
    IN  [s \in Slots |-> IF FdOf(s) \in DOMAIN b
                         THEN [sock |-> FdOf(s), source |-> b[FdOf(s)]]
                         ELSE Unused]

Init ==
    \E n \in 0 .. Len(Ifaces) :
        LET b == Booted(n)
        IN  /\ file = [f \in Fds |-> IF f \in DOMAIN b THEN b[f] ELSE "none"]
            /\ events = BootTable(b)
            /\ plugged = {b[f] : f \in 2 .. n + 1}
            /\ listed = plugged
            /\ phase = "select" /\ at = 0 /\ rfds = {}
            /\ ipcs = [i \in Instances |-> NoConnection]
            /\ epipe = FALSE
            /\ backlog = [l \in Listeners |-> <<>>]
            /\ frames = {} /\ links = <<>> /\ moves = 0
            /\ sigpipe \in {"kills", "ignored"}
            /\ ui = [c \in Clients |-> Fresh]

(***************************************************************************)
(* What the daemon sends.  A send to a client that has closed raises       *)
(* SIGPIPE, for which the daemon installs no handler: it dies, or has      *)
(* EPIPE in errno when it was started with the signal ignored.             *)
(***************************************************************************)
Broken(f) == file[f] \in Clients /\ ui[file[f]].end = "hung"

Fails(f) == file[f] = "none" \/ Broken(f)

\* A mutant: whatever went wrong, the connection is said to be broken.
AnyErrno(fs) == epipe \/ \E k \in DOMAIN fs : Fails(fs[k])

\* errno after sends to these descriptors, made in the order of the domain.
ErrnoAfter(fs) ==
    LET failed == {k \in DOMAIN fs : Fails(fs[k])}
    IN  IF failed = {} THEN epipe ELSE Broken(fs[Max(failed)])

Kills(fs) == sigpipe = "kills" /\ \E k \in DOMAIN fs : Broken(fs[k])

\* xsup_ipc_send_all: the connections that asked for events, in the order of
\* the instances.
EventSockets ==
    [i \in {j \in Instances : {"CONNECTED", "EVENTS_ONLY"}
                                  \subseteq ipcs[j].flags} |-> ipcs[i].sock]

xsup_ipc_send_all == epipe' = ErrnoAfter(EventSockets)

\* A handler that sends to these descriptors returns, or does not.
ReturnsAfter(fs, table) ==
    IF Kills(fs) THEN Ends("killed") /\ events' = table ELSE Returns(table)

(***************************************************************************)
(* Connections.                                                            *)
(***************************************************************************)
Registered(sock, source) ==
    event_core_register(events, sock, source, PriorityOf(source))

NewFd == Min({f \in Fds : file[f] = "none"})

\* The daemon closes a connection, or closes it before it was registered.
Shut(c) == [ui EXCEPT ![c].end = IF @ = "open" THEN "shut" ELSE @,
                      ![c].requests = <<>>]

Refused(c) == [ui EXCEPT ![c] =
                   [@ EXCEPT !.end = "refused", !.requests = <<>>]]

FreeInstances == {i \in Instances : ipcs[i].sock = 0}

FlagsOf(listener) ==
    {"CONNECTED"} \cup IF listener = "event" THEN {"EVENTS_ONLY"} ELSE {}

\* No instance: the listener stays readable.  The instance is filled in
\* before the handler is registered, and stays when that finds no slot.
xsup_ipc_new_socket(s) ==
    LET l == events[s].source
        i == Min(FreeInstances)
        c == Head(backlog[l])
    IN  /\ Due(s) /\ l \in Listeners
        /\ IF FreeInstances = {}
           THEN Returns(events) /\ UNCHANGED <<ipcs, file, backlog, ui>>
           ELSE /\ backlog[l] # <<>>
                /\ backlog' = [backlog EXCEPT ![l] = Tail(@)]
                /\ ipcs' = [ipcs EXCEPT ![i] =
                                [sock |-> NewFd, flags |-> FlagsOf(l)]]
                /\ Returns(Registered(NewFd, c))
                /\ IF FreeSlots(events) # {}
                   THEN file' = [file EXCEPT ![NewFd] = c] /\ UNCHANGED ui
                   ELSE ui' = Refused(c) /\ UNCHANGED file
        /\ UNCHANGED <<epipe, listed, frames, links, worldVars>>

\* The instances with that socket.
Known(f) == {i \in Instances : ipcs[i].sock = f}

\* The socket is a stream: a read takes all that was asked.  One request is
\* processed and answered; several are no document and are thrown away.
IpcAnswer(s) ==
    LET f == events[s].sock
        c == file[f]
    IN  /\ ~epipe /\ ui[c].requests # <<>>
        /\ \/ /\ Len(ui[c].requests) = 1
              /\ ReturnsAfter(<<f>>, events)
              /\ epipe' = ErrnoAfter(<<f>>)
              /\ ui' = [ui EXCEPT ![c].requests = <<>>,
                                  ![c].answers =
                            IF ui[c].end = "open"
                            THEN Append(@, Head(ui[c].requests)) ELSE @]
           \/ /\ Len(ui[c].requests) > 1
              /\ Returns(events)
              /\ ui' = [ui EXCEPT ![c].requests = <<>>]
              /\ UNCHANGED epipe
        /\ UNCHANGED <<ipcs, file>>

\* A mutant: the instance is cleared before its socket is deregistered.
ClearedFirst(s) ==
    LET f == events[s].sock
        c == file[f]
    IN  /\ \/ epipe /\ ui[c].requests # <<>>
           \/ ui[c].requests = <<>> /\ ui[c].end = "hung"
        /\ file' = [file EXCEPT ![f] = "none"]
        /\ Returns(events)
        /\ ipcs' = [ipcs EXCEPT ![Min(Known(f))] = NoConnection]
        /\ ui' = Shut(c)
        /\ UNCHANGED epipe

\* A mutant: the instance of a broken connection is not given back.
InstanceKept(s) ==
    LET f == events[s].sock
        c == file[f]
    IN  /\ \/ epipe /\ ui[c].requests # <<>>
           \/ ui[c].requests = <<>> /\ ui[c].end = "hung"
        /\ file' = [file EXCEPT ![f] = "none"]
        /\ Returns(event_core_deregister(f))
        /\ ui' = Shut(c)
        /\ UNCHANGED <<ipcs, epipe>>

\* Nothing to read because the client has closed, or errno is EPIPE.
IpcBroken(s) ==
    LET f == events[s].sock
        c == file[f]
    IN  /\ \/ epipe /\ ui[c].requests # <<>>
           \/ ui[c].requests = <<>> /\ ui[c].end = "hung"
        /\ file' = [file EXCEPT ![f] = "none"]
        /\ Returns(event_core_deregister(f))
        /\ ipcs' = [ipcs EXCEPT ![Min(Known(f))] = NoConnection]
        /\ ui' = Shut(c)
        /\ UNCHANGED epipe

\* recvfrom blocks when there is nothing to read: no step until there is.
xsup_ipc_event(s) ==
    /\ Due(s) /\ events[s].source \in Clients
    /\ IF Known(events[s].sock) = {}
       THEN Ends("exited") /\ UNCHANGED <<events, ipcs, epipe, file, ui>>
       ELSE IpcAnswer(s) \/ IpcBroken(s)
    /\ UNCHANGED <<listed, backlog, frames, links, worldVars>>

(***************************************************************************)
(* Interfaces.                                                             *)
(***************************************************************************)

\* An interface that is new to the cache gets a context and a socket, which
\* it keeps when no slot is free.
NewLink(i) ==
    /\ i \in plugged /\ i \notin listed
    /\ listed' = listed \cup {i}
    /\ file' = [file EXCEPT ![NewFd] = i]
    /\ xsup_ipc_send_all
    /\ ReturnsAfter(EventSockets, Registered(NewFd, i))
    /\ UNCHANGED <<frames, ui>>

\* An interface is looked for among the contexts of the table.  The context is
\* destroyed and the socket closed.
DelLink(i) ==
    \E s \in Slots :
        LET sock == events[s].sock
        IN  /\ events[s].source = i
            /\ listed' = listed \ {i}
            /\ file' = [file EXCEPT ![sock] = "none"]
            /\ frames' = frames \ {i}
            /\ xsup_ipc_send_all
            /\ ReturnsAfter(EventSockets, event_core_deregister(sock))
            /\ UNCHANGED ui

LinkIgnored(type, i) ==
    /\ IF type = "new" THEN i \notin plugged \/ i \in listed
                       ELSE \A s \in Slots : events[s].source # i
    /\ Returns(events)
    /\ UNCHANGED <<listed, file, frames, epipe, ui>>

\* One message of the kernel about a link.
cardif_linux_rtnetlink_check_event(s) ==
    /\ Due(s) /\ events[s].source = "rtnl" /\ links # <<>>
    /\ links' = Tail(links)
    /\ LET type == Head(links).type
           i    == Head(links).iface
       IN  \/ type = "new" /\ NewLink(i)
           \/ type = "del" /\ DelLink(i)
           \/ LinkIgnored(type, i)
    /\ UNCHANGED <<ipcs, backlog, worldVars>>

\* errno is cleared before the frame is read.
eapol_withframe(s) ==
    /\ Due(s) /\ events[s].source \in frames
    /\ frames' = frames \ {events[s].source}
    /\ epipe' = FALSE
    /\ Returns(events)
    /\ UNCHANGED <<ipcs, listed, file, backlog, links, worldVars, ui>>

\* The machines of the interfaces run.  They may have something to tell the
\* user interfaces, and may make calls that fail.
Machines ==
    /\ phase = "machines"
    /\ \/ /\ xsup_ipc_send_all
          /\ IF Kills(EventSockets)
             THEN Ends("killed") /\ UNCHANGED events ELSE EndsPass
       \/ /\ epipe' \in {epipe, FALSE}
          /\ EndsPass
    /\ UNCHANGED <<ipcs, listed, kernelVars, worldVars, ui>>

(***************************************************************************)
(* The clients and the kernel.                                             *)
(***************************************************************************)
Readable(f) ==
    \/ file[f] = "rtnl" /\ links # <<>>
    \/ file[f] \in Listeners /\ backlog[file[f]] # <<>>
    \/ file[f] \in frames
    \/ file[f] \in Clients /\ (\/ ui[file[f]].requests # <<>>
                               \/ ui[file[f]].end = "hung")

Wait ==
    /\ Select({f \in Watched : Readable(f)})
    /\ UNCHANGED <<ipcVars, kernelVars, worldVars, ui>>

Client(c, end) == ui' = [ui EXCEPT ![c] = end]

Connect(c) ==
    /\ ui[c].end = "out"
    /\ Client(c, [ui[c] EXCEPT !.end = "open"])
    /\ backlog' = [backlog EXCEPT ![KindOf[c]] = Append(@, c)]
    /\ UNCHANGED <<loopVars, ipcVars, file, frames, links, worldVars>>

\* A mutant: a request is sent while another one is waited for.
AskAtOnce(c) ==
    /\ ui[c].end = "open"
    /\ ui[c].asked < MaxAsks[c]
    /\ Client(c, [ui[c] EXCEPT !.asked = @ + 1, !.waiting = ui[c].asked + 1,
                               !.requests = Append(@, ui[c].asked + 1)])
    /\ UNCHANGED <<loopVars, ipcVars, kernelVars, worldVars>>

\* xsupgui_ud_send: the next request, and then it waits for an answer.
Ask(c) ==
    /\ ui[c].end = "open"
    /\ ui[c].waiting = 0 /\ ui[c].asked < MaxAsks[c]
    /\ Client(c, [ui[c] EXCEPT !.asked = @ + 1, !.waiting = ui[c].asked + 1,
                               !.requests = Append(@, ui[c].asked + 1)])
    /\ UNCHANGED <<loopVars, ipcVars, kernelVars, worldVars>>

\* xsupgui_ud_recv: what is on the stream is the answer, all of it.  Several
\* answers are no document, and an error for the caller.
Take(c) ==
    /\ ui[c].waiting # 0 /\ ui[c].answers # <<>>
    /\ Client(c, [ui[c] EXCEPT !.waiting = 0, !.answers = <<>>])
    /\ UNCHANGED <<loopVars, ipcVars, kernelVars, worldVars>>

\* Two seconds have gone by, or the daemon has closed the connection.
GiveUp(c) ==
    /\ ui[c].waiting # 0 /\ ui[c].answers = <<>>
    /\ Client(c, [ui[c] EXCEPT !.waiting = 0,
                  !.late = IF ui[c].end = "open" THEN @ + 1 ELSE @])
    /\ UNCHANGED <<loopVars, ipcVars, kernelVars, worldVars>>

\* The user interface closes the connection, or ends.
HangUp(c) ==
    /\ ui[c].end = "open"
    /\ Client(c, [Fresh EXCEPT !.end = "hung",
                               !.requests = ui[c].requests])
    /\ UNCHANGED <<loopVars, ipcVars, kernelVars, worldVars>>

Frame(i) ==
    /\ i \in plugged
    /\ \E f \in Fds : file[f] = i
    /\ frames' = frames \cup {i}
    /\ UNCHANGED <<loopVars, ipcVars, file, backlog, links, worldVars, ui>>

\* A socket of an interface that goes away becomes readable: ENETDOWN.
Move(i) ==
    /\ moves < MaxMoves /\ moves' = moves + 1
    /\ plugged' = IF i \in plugged THEN plugged \ {i} ELSE plugged \cup {i}
    /\ links' = Append(links,
          [type |-> IF i \in plugged THEN "del" ELSE "new", iface |-> i])
    /\ frames' = IF i \in plugged /\ \E f \in Fds : file[f] = i
                 THEN frames \cup {i} ELSE frames
    /\ UNCHANGED <<loopVars, ipcVars, file, backlog, sigpipe, ui>>

Daemon ==
    \/ Wait
    \/ \E s \in Slots :
          \/ xsup_ipc_new_socket(s)
          \/ xsup_ipc_event(s)
          \/ cardif_linux_rtnetlink_check_event(s)
          \/ eapol_withframe(s)
    \/ Machines

World ==
    \/ \E c \in Clients :
          Connect(c) \/ Ask(c) \/ Take(c) \/ GiveUp(c) \/ HangUp(c)
    \/ \E i \in Interfaces : Frame(i) \/ Move(i)

\* With the daemon ends what is of interest.
Next == phase \notin {"killed", "exited"} /\ (Daemon \/ World)

Spec == Init /\ [][Next]_vars

\* The loop runs as long as it is not killed and no call blocks.
FairSpec == Spec /\ WF_vars(Daemon)
=============================================================================

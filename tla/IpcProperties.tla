--------------------------- MODULE IpcProperties ---------------------------
(***************************************************************************)
(* What the event loop and its connections promise, and what a connection  *)
(* that is refused or gone does to the others.                             *)
(***************************************************************************)
EXTENDS IpcServer

Gone == phase \in {"killed", "exited"}

Sources == {"rtnl"} \cup Listeners \cup Interfaces \cup Clients

TypeOK ==
    /\ events \in [Slots -> [sock : Fds \cup {0},
                             source : Sources \cup {"none"}]]
    /\ phase \in {"select", "walk", "machines", "killed", "exited"}
    /\ at \in Slots /\ rfds \subseteq Fds
    /\ ipcs \in [Instances -> [sock : Fds \cup {0},
                               flags : SUBSET {"CONNECTED", "EVENTS_ONLY"}]]
    /\ epipe \in BOOLEAN /\ moves \in 0 .. MaxMoves
    /\ listed \subseteq Interfaces /\ plugged \subseteq Interfaces
    /\ frames \subseteq Interfaces
    /\ file \in [Fds -> Sources \cup {"none"}]
    /\ \A l \in Listeners : backlog[l] \in Seq(Clients)

RefusedClients == {c \in Clients : ui[c].end = "refused"}

HungUp == {c \in Clients : ui[c].end = "hung"}

InUse == {s \in Slots : events[s].sock # 0}

\* The handler of a slot is called for the file it was registered for: no
\* descriptor is closed and used again under it, and none is watched twice.  A
\* connection is known to xsup_ipc_event, which else ends the daemon with
\* "This shouldn't happen!" (xsup_ipc.c:507).
HandlersMatch ==
    /\ \A s \in InUse : file[events[s].sock] = events[s].source
    /\ \A s, t \in InUse : events[s].sock = events[t].sock => s = t
    /\ \A s \in InUse : events[s].source \in Clients
                          => Known(events[s].sock) # {}
    /\ phase # "exited"

\* recvfrom has nothing to read, and everything waits for one client.
Blocked ==
    phase = "walk" /\ ~ Readable(events[at].sock)

\* The pass does not look again at what select() found.  That is safe for a
\* connection in a slot below the listener which accepted it; only one that
\* got the slot and the descriptor of an interface removed in this pass can
\* block the daemon (event_core.c:325).
BlocksOnlyAbove ==
    Blocked => /\ events[at].source \in Clients
               /\ \E s \in InUse :
                     events[s].source = KindOf[events[at].source] /\ s < at

\* Each connection that is refused for want of a slot takes an instance with
\* it for good; nothing else does (xsup_ipc.c:614).
LeakIsRefusal ==
    Cardinality(Instances \ FreeInstances) =
        Cardinality({s \in InUse : events[s].source \in Clients})
        + Cardinality(RefusedClients)

\* The library takes what is on the stream for the answer to its request.  An
\* answer is late by at most as many requests as the library has given up on
\* this connection, and no more answers than these are read with it: who has
\* given up nothing gets the answer to its own request, alone
\* (xsupgui_ud.c:266).  And whatever was refused or has gone, no event gets
\* among the answers, though an instance may keep a descriptor that is used
\* again.
AnswersLag ==
    /\ \A c \in Clients : ui[c].waiting # 0 /\ ui[c].answers # <<>> =>
          /\ Head(ui[c].answers) <= ui[c].waiting
          /\ ui[c].waiting <= Head(ui[c].answers) + ui[c].late
          /\ Len(ui[c].answers) <= ui[c].late + 1
    /\ \A k \in DOMAIN EventSockets :
          LET source == file[EventSockets[k]]
          IN  source \in Clients => KindOf[source] = "event"

\* The daemon closes no connection whose client is there, unless another
\* client has gone and left EPIPE in errno (xsup_ipc.c:521).
CutOnlyAfterHangUp ==
    (\E c \in Clients : ui[c].end = "shut") => HungUp # {}

Accepted(c) == \E f \in Fds : file[f] = c

\* A request on an accepted connection is read, unless the daemon dies or
\* blocks, whatever the other connections and the interfaces do.
Served ==
    \A c \in {d \in Clients : MaxAsks[d] > 0} :
        Accepted(c) /\ ui[c].requests # <<>>
            ~> ui[c].requests = <<>> \/ Blocked \/ Gone
=============================================================================

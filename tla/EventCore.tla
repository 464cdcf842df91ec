----------------------------- MODULE EventCore -----------------------------
(***************************************************************************)
(* The event loop (event_core.c): the table of the sockets that are        *)
(* watched, and one pass over it.  A pass selects, walks the slots upwards *)
(* and calls the handler of each socket that was readable, and ends with   *)
(* the machines of the interfaces.  The handlers are in IpcServer.         *)
(***************************************************************************)
EXTENDS Integers, FiniteSets, FiniteSetsExt, Sequences, SequencesExt

CONSTANTS MaxEvents,      \* MAX_EVENTS
          Fds             \* the descriptors the kernel hands out

ASSUME EventAssumption == MaxEvents \in Nat \ {0} /\ Fds \subseteq Nat \ {0}

VARIABLES events,         \* the table: which socket, and for which source
          phase,          \* "select", "walk", "machines", "killed", "exited"
          at,             \* the slot the walk has come to
          rfds            \* what select() found readable

loopVars == <<events, phase, at, rfds>>

Slots == 0 .. MaxEvents - 1

Unused == [sock |-> 0, source |-> "none"]

FreeSlots(table) == {s \in Slots : table[s].sock = 0}

\* The lowest free slot or the highest one; nothing when there is none.
event_core_register(table, sock, source, hilo) ==
    LET free == FreeSlots(table)
        slot == IF hilo = "HIGH_PRIORITY" THEN Min(free) ELSE Max(free)
    IN  IF free = {} THEN table
        ELSE [table EXCEPT ![slot] = [sock |-> sock, source |-> source]]

\* A mutant: the slot gets the -1 of a closed socket and is never free again.
ClosedNotFreed(sock) ==
    [s \in Slots |-> IF events[s].sock = sock
                     THEN [sock |-> -1, source |-> "none"] ELSE events[s]]

\* Every slot with the socket is cleared.
event_core_deregister(sock) ==
    [s \in Slots |-> IF events[s].sock = sock THEN Unused ELSE events[s]]

Sockets == {events[s].sock : s \in Slots} \ {0}

\* A mutant: select() is told the highest socket and not one more.
AllButBiggest == Sockets \ {Max(Sockets)}

\* The descriptors select() is asked about.
Watched == Sockets

\* On to the next slot from n whose socket select() found readable, or to the
\* end of the pass.  The table counts as it is by then: a handler of this pass
\* may have changed it.
WalkOn(n, table, ready) ==
    LET due == {t \in Slots : t >= n /\ table[t].sock \in ready}
    IN  /\ events' = table /\ rfds' = ready
        /\ IF due = {} THEN phase' = "machines" /\ at' = 0
                       ELSE phase' = "walk" /\ at' = Min(due)

\* The handler of a slot is called, and returns.
Due(s) == phase = "walk" /\ at = s

\* A mutant: the walk starts again when a handler has returned.
StartsAgain(table) == WalkOn(0, table, rfds)

Returns(table) == WalkOn(at + 1, table, rfds)

\* select() returns what is readable, or nothing after a second.
Select(readable) ==
    /\ phase = "select"
    /\ WalkOn(0, events, readable)

\* The machines have run.
EndsPass ==
    /\ phase' = "select" /\ rfds' = {}
    /\ UNCHANGED <<events, at>>

\* The process ends.
Ends(how) ==
    /\ phase' = how
    /\ UNCHANGED <<at, rfds>>
=============================================================================

------------------------------- MODULE MCIpc -------------------------------
(***************************************************************************)
(* A small instance of IpcServer for TLC: two instances, and a table that  *)
(* is full with an interface and one connection.                           *)
(***************************************************************************)
EXTENDS IpcProperties

MCIfaces == <<"eth">>

MCKindOf == [tray |-> "control", log |-> "event", tool |-> "control"]

MCMaxAsks == [tray |-> 2, log |-> 0, tool |-> 0]

MCFds == 1 .. 7

\* The table at the start is what the registrations leave, one by one.
ASSUME BootedByRegistering ==
    \A n \in 0 .. Len(Ifaces) :
        LET b == Booted(n)
            Boot(table, f) ==
                event_core_register(table, f, b[f], PriorityOf(b[f]))
        IN  BootTable(b) = FoldLeft(Boot, [s \in Slots |-> Unused],
                                    [f \in DOMAIN b |-> f])
=============================================================================

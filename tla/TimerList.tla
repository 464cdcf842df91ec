----------------------------- MODULE TimerList -----------------------------
(***************************************************************************)
(* The timers of an interface (timer.c): a linked list of nodes with a     *)
(* kind and the seconds left, new nodes at its end, at most one of a kind. *)
(* The list is written as a record of functions: the seconds left of each  *)
(* kind, and the kinds whose nodes stand before it.                        *)
(***************************************************************************)
EXTENDS Integers

CONSTANT Modulus  \* seconds_left is a uint16_t: 2^16

ASSUME ModulusAssumption == Modulus \in Nat \ {0, 1}

Timers == {"RESCAN", "INT_HELD", "ASSOCIATION", "SCANCHECK", "SIG_STRENGTH",
           "PASSIVE_SCAN"}

Off == -1       \* there is no node of this kind
Last == "LAST"  \* the NULL at the end of the list

Seconds == 0 .. Modulus - 1

TimerLists == [left : [Timers -> Seconds \cup {Off}],
               ahead : [Timers -> SUBSET Timers]]

NoTimers == [left |-> [t \in Timers |-> Off], ahead |-> [t \in Timers |-> {}]]

\* timer_check_existing.
Running(l, t) == l.left[t] # Off

\* timer_add_timer refuses a timeout of zero and a kind that has a node.
AddTimer(l, t, secs) ==
    IF secs = 0 \/ Running(l, t) THEN l
    ELSE [l EXCEPT !.left[t] = secs,
                   !.ahead[t] = {u \in Timers : Running(l, u)}]

\* timer_reset_timer_count.
ResetTimer(l, t, secs) ==
    IF Running(l, t) THEN [l EXCEPT !.left[t] = secs] ELSE l

\* timer_cancel: the node is taken out and freed.
CancelTimer(l, t) ==
    [left  |-> [l.left EXCEPT ![t] = Off],
     ahead |-> [u \in Timers |-> IF u = t THEN {} ELSE l.ahead[u] \ {t}]]

\* One second less; the counter is unsigned.
CountDown(l, t) == [l EXCEPT !.left[t] = (@ + Modulus - 1) % Modulus]

\* The node with exactly the nodes before behind it, if there is one.
NodeAfter(l, before) ==
    LET nodes == {t \in Timers : Running(l, t) /\ l.ahead[t] = before}
    IN  IF nodes = {} THEN Last ELSE CHOOSE t \in nodes : TRUE

Head(l) == NodeAfter(l, {})

NextOf(l, t) == NodeAfter(l, l.ahead[t] \cup {t})
=============================================================================

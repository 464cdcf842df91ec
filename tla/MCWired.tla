------------------------------ MODULE MCWired ------------------------------
(***************************************************************************)
(* Small instances of WiredSupplicant for TLC.                             *)
(***************************************************************************)
EXTENDS WiredProperties

\* One 802.1X connection; two of them and a plain one.
MCHome == [home |-> {"MSCHAPV2"}]

MCThree == [home |-> {"GTC"}, work |-> {"MSCHAPV2"}, plain |-> {}]

Frame(code, id, type) == [code |-> code, id |-> id, type |-> type]

(***************************************************************************)
(* Requests for the identity and for a method, then the verdict.           *)
(* MCFrames does without the identifier that stands for "no request yet".  *)
(***************************************************************************)
Verdicts == {Frame("SUCCESS", 0, "NONE"), Frame("FAILURE", 0, "NONE")}

Requests(ids, types) ==
    {Frame("REQUEST", id, type) : id \in ids, type \in types}

MCFrames ==
    Requests(Ids \ {IdSpace - 1}, Methods \cup {"IDENTITY"}) \cup Verdicts

MCMethodFrames == Requests(Ids \ {IdSpace - 1}, Methods) \cup Verdicts

(***************************************************************************)
(* Another round; a last message; a method that fails; a missing password; *)
(* EAP-MSCHAPv2, which takes the verdict from its own messages.            *)
(***************************************************************************)
Outcome(ignore, methodState, decision, resp) ==
    [ignore |-> ignore, methodState |-> methodState, decision |-> decision,
     resp |-> resp, altAccept |-> FALSE, altReject |-> FALSE, ask |-> FALSE]

MoreToDo   == Outcome(FALSE, "CONT", "EAP_FAIL", TRUE)
LastReply  == Outcome(FALSE, "DONE", "COND_SUCC", TRUE)
MethodFail == Outcome(TRUE, "INIT", "EAP_FAIL", FALSE)
NoPassword == [Outcome(TRUE, "CONT", "COND_SUCC", FALSE) EXCEPT !.ask = TRUE]
Accepted   == [Outcome(FALSE, "MAY_CONT", "COND_SUCC", TRUE) EXCEPT
                  !.altAccept = TRUE]
Rejected   == [Outcome(FALSE, "EAP_FAIL", "EAP_FAIL", TRUE) EXCEPT
                  !.altReject = TRUE]

MCOutcomes == {MoreToDo, LastReply, MethodFail, NoPassword}

MCOwnVerdict == MCOutcomes \cup {Accepted, Rejected}
=============================================================================

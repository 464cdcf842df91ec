--------------------------- MODULE WiredLiveness ---------------------------
(***************************************************************************)
(* What must eventually happen on a wired interface.  The variable second  *)
(* flips whenever event_core notices that a second has passed, which tells *)
(* a Tick that changes nothing else from a step that did not happen.       *)
(***************************************************************************)
EXTENDS WiredProperties

VARIABLE second

lvars == <<ctx, pc, runs, saved, served, second>>

LInit == Init /\ second = 0

LNext ==
    \/ Tick /\ second' = 1 - second
    \/ /\ \/ IgnoredFrame
          \/ \E f \in AirFrames : EapFrame(f)
          \/ ExecuteRun
          \/ ExecuteEnd
          \/ SetPassword
          \/ Poll
       /\ UNCHANGED second

(***************************************************************************)
(* eapol_execute is one call, so its loop goes on by itself.  Real time    *)
(* passes: among the passes of event_core there are always some in which   *)
(* cur_time > last_check, however many frames arrive.  Both actions are    *)
(* written without the state machines, which never block.                  *)
(***************************************************************************)
LoopGoesOn ==
    /\ pc # "select"
    /\ \/ runs' = runs + 1 /\ pc' = pc
       \/ runs' = 0 /\ pc' = "select"

SecondPasses == pc = "select" /\ second' = 1 - second

Fairness ==
    WF_<<pc, runs>>(LoopGoesOn) /\ SF_second(SecondPasses)

FairSpec == LInit /\ [][LNext]_lvars /\ Fairness

NoFrame == pc' = "execute" => pc = "execute"

Settled == ctx.sm.curState \in {"AUTHENTICATED", "S_FORCE_AUTH"}

Asking == \E i \in DOMAIN ctx.out : ctx.out[i].kind = "START"

\* An authenticator that falls silent, or was never there, does not leave
\* the supplicant waiting: it stays AUTHENTICATED, gives 802.1X up in
\* S_FORCE_AUTH, or sends starts again and again.
NeverStuck == <>[][NoFrame]_lvars => <>[]Settled \/ []<>Asking

\* HELD ends, whatever the authenticator sends meanwhile.
HeldEnds == ctx.sm.curState = "HELD" ~> ctx.sm.curState # "HELD"
=============================================================================

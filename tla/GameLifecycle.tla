--------------------------- MODULE GameLifecycle ---------------------------
(***************************************************************************)
(* What a game promises to everything else in the server, whatever happens *)
(* inside its loop (ADR-0010, ADR-0025 #5): the state machine              *)
(* paired -> in_progress -> finished | aborted, one verdict that never     *)
(* changes, a durable record written before anybody is told, and a game    *)
(* that leaves the active index only after everybody was told.             *)
(***************************************************************************)
CONSTANTS Verdicts,     \* what a game can end with
          NoVerdict,    \* "not ended yet"
          AbortedVerdicts, \* those without a result
          Audience      \* whoever receives game_over

VARIABLES state,    \* Game.state
          verdict,  \* Game.result and Game.termination
          recorded, \* the verdict in the durable record
          told,     \* the audience that has been sent game_over
          bound     \* the game is in the active-game index

vars == <<state, verdict, recorded, told, bound>>

States == {"paired", "in_progress", "finished", "aborted"}

Init ==
    /\ state = "paired"
    /\ verdict = NoVerdict
    /\ recorded = NoVerdict
    /\ told = {}
    /\ bound = TRUE

Begin ==
    /\ state = "paired"
    /\ state' = "in_progress"
    /\ UNCHANGED <<verdict, recorded, told, bound>>

\* A terminal state is entered once, and "aborted" is its own verdict.
End(v) ==
    /\ state = "in_progress"
    /\ state' = IF v \in AbortedVerdicts THEN "aborted" ELSE "finished"
    /\ verdict' = v
    /\ UNCHANGED <<recorded, told, bound>>

Record ==
    /\ verdict # NoVerdict
    /\ recorded = NoVerdict
    /\ recorded' = verdict
    /\ UNCHANGED <<state, verdict, told, bound>>

Tell(a) ==
    /\ recorded # NoVerdict
    /\ a \notin told
    /\ told' = told \cup {a}
    /\ UNCHANGED <<state, verdict, recorded, bound>>

Close ==
    /\ told = Audience
    /\ bound
    /\ bound' = FALSE
    /\ UNCHANGED <<state, verdict, recorded, told>>

Next ==
    \/ Begin
    \/ \E v \in Verdicts : End(v)
    \/ Record
    \/ \E a \in Audience : Tell(a)
    \/ Close

Spec == Init /\ [][Next]_vars
=============================================================================

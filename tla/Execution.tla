----------------------------- MODULE Execution -----------------------------
(***************************************************************************)
(* What one execution in a guest promises: the command is started at most  *)
(* once, the execution concludes at most once, and a conclusion other than *)
(* "failed" is drawn only when nothing the command started is left.        *)
(***************************************************************************)
CONSTANTS Outcomes      \* conclusions that say how the command ended

VARIABLES started,      \* the command was started
          alive,        \* a process of the command exists
          conclusion    \* "none", "failed" or an outcome

vars == <<started, alive, conclusion>>

Init == started = FALSE /\ alive = FALSE /\ conclusion = "none"

Start ==
    /\ ~started /\ conclusion = "none"
    /\ started' = TRUE /\ alive' = TRUE
    /\ UNCHANGED conclusion

\* The last process of the command is gone.
Vanish == alive /\ alive' = FALSE /\ UNCHANGED <<started, conclusion>>

Conclude ==
    /\ conclusion = "none" /\ ~alive
    /\ conclusion' \in Outcomes
    /\ UNCHANGED <<started, alive>>

GiveUp ==
    /\ conclusion = "none" /\ conclusion' = "failed"
    /\ UNCHANGED <<started, alive>>

Next == Start \/ Vanish \/ Conclude \/ GiveUp

Spec == Init /\ [][Next]_vars

=============================================================================

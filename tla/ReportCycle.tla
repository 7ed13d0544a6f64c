---------------------------- MODULE ReportCycle ----------------------------
(***************************************************************************)
(* What the application that calls ipa_poll may rely on, whatever happens  *)
(* to the links, to the eUICC or to the process: at most one package       *)
(* execution is open; an execution that switched the profile stays open    *)
(* until it is reported or given up; it is reverted at most once; and the  *)
(* return code of the last poll tells whether one is open.                 *)
(***************************************************************************)
VARIABLES
  phase,  \* "free", "executing", "switched" or "reverted"
  told    \* what the last poll said: "continue", "whenOnline" or "error"

vars == <<phase, told>>
Open == {"switched", "reverted"}

Init == phase = "free" /\ told = "continue"

Start == phase = "free" /\ phase' = "executing" /\ UNCHANGED told

(* An execution without a switch ends in the poll that began it. *)
Finish == phase = "executing" /\ phase' = "free" /\ told' \in {"continue", "error"}

Switch == phase = "executing" /\ phase' = "switched" /\ told' = "whenOnline"

(* The switch did not reach the eIM: the old profile is enabled again, and
   that is to be reported instead.                                          *)
Revert == phase = "switched" /\ phase' = "reverted" /\ told' = "whenOnline"

Report == phase \in Open /\ phase' = "free" /\ told' = "continue"

GiveUp == phase \in Open /\ phase' = "free" /\ told' = "error"

(* A poll that executes nothing. *)
Idle == phase = "free" /\ phase' = "free" /\ told' \in {"continue", "error"}

(* A crash or ipa_free_ctx loses the open execution. *)
Lose == phase' = "free" /\ told' = "continue"

Next == Start \/ Finish \/ Switch \/ Revert \/ Report \/ GiveUp \/ Idle \/ Lose

Spec == Init /\ [][Next]_vars
=============================================================================

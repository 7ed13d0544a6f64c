-------------------------- MODULE DownloadSession --------------------------
(***************************************************************************)
(* What the eIM may rely on for every profile download it has opened,      *)
(* whatever is lost on the way: what the eUICC has decided about a         *)
(* download is never decided again; the eIM is told nothing that the eUICC *)
(* has not decided; a download the eIM has declared failed is not          *)
(* installed; and the eUICC forgets a result only once the eIM has it.     *)
(***************************************************************************)
CONSTANT Tx

VARIABLES
  fate,    \* what became of each download on the eUICC
  told,    \* what the eIM has learnt of it
  results  \* the downloads whose result the eUICC keeps for the eIM

vars == <<fate, told, results>>

Init ==
  /\ fate = [t \in Tx |-> "none"] /\ told = [t \in Tx |-> "nothing"]
  /\ results = {}

Decide(t, f) == fate[t] = "none" /\ fate' = [fate EXCEPT ![t] = f] /\ UNCHANGED told

Install(t) ==
  /\ told[t] = "nothing"
  /\ Decide(t, "installed") /\ results' = results \cup {t}

Abort(t) == Decide(t, "aborted") /\ results' = results \cup {t}

Cancel(t) == Decide(t, "cancelled") /\ UNCHANGED results

(* What the eIM knows for certain it does not unlearn; the eUICC may forget a
   result in the very step that gets it through.                              *)
Tell(t) ==
  /\ told[t] # fate[t]
  /\ \E w \in {fate[t], "unclear", "failed"} \ {"none"} :
       /\ w = "failed" => fate[t] = "none"
       /\ told' = [told EXCEPT ![t] = w]
       /\ results' \in {results, IF w = fate[t] THEN results \ {t} ELSE results}
  /\ UNCHANGED fate

Forget(t) ==
  /\ told[t] = fate[t] /\ results' = results \ {t}
  /\ UNCHANGED <<fate, told>>

Next == \E t \in Tx : Install(t) \/ Abort(t) \/ Cancel(t) \/ Tell(t) \/ Forget(t)

Spec == Init /\ [][Next]_vars

(* What the eIM makes of it: what it has been told of a download is the truth or no
   claim at all, a download it was told has failed is not installed, and of each that
   is installed or aborted either the eUICC still keeps the result or the eIM has it. *)
Consistent ==
  \A t \in Tx :
    /\ told[t] \in {"nothing", "unclear", "failed", fate[t]}
    /\ told[t] = "failed" => fate[t] # "installed"
    /\ fate[t] \in {"installed", "aborted"} <=> t \in results \/ told[t] \in {"installed", "aborted"}

(* What the eUICC has decided it does not decide again, and what the eIM knows of its
   decision it does not unlearn.                                                      *)
Final ==
  [][\A t \in Tx :
       /\ fate[t] # "none" => fate'[t] = fate[t]
       /\ told[t] \in {"installed", "aborted", "cancelled"} => told'[t] = told[t]]_vars
=============================================================================

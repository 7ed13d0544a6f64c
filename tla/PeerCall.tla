------------------------------ MODULE PeerCall ------------------------------
(***************************************************************************)
(* What the procedures of the IPAd may rely on when they call a peer, the  *)
(* eUICC or the eIM, through its transport: one call at a time is open, the *)
(* peer performs a call at most AtMost times, an answer is handed up only  *)
(* for a call the peer has performed, and what has returned stays as it    *)
(* is.  A call that failed may have been performed, or may be later.       *)
(***************************************************************************)
EXTENDS Integers

CONSTANTS
  Calls,
  AtMost  \* a number, 1 or more

VARIABLES
  state,     \* how far the IPAd is with each call
  performed  \* how often the peer has performed it

callVars == <<state, performed>>

States == {"new", "open", "answered", "failed"}

Init == state = [c \in Calls |-> "new"] /\ performed = [c \in Calls |-> 0]

Begin(c) ==
  /\ state[c] = "new" /\ \A d \in Calls : state[d] # "open"
  /\ state' = [state EXCEPT ![c] = "open"]
  /\ UNCHANGED performed

(* The peer may conclude a call and the answer arrive in one step. *)
Work(c) ==
  /\ state[c] # "new"
  /\ performed' \in {performed, [performed EXCEPT ![c] = @ + 1]}
  /\ performed'[c] <= AtMost
  /\ \/ UNCHANGED state
     \/ /\ state[c] = "open" /\ performed'[c] > 0
        /\ state' = [state EXCEPT ![c] = "answered"]
     \/ state[c] = "open" /\ state' = [state EXCEPT ![c] = "failed"]

Next == \E c \in Calls : Begin(c) \/ Work(c)

Spec == Init /\ [][Next]_callVars

(* What a caller makes of it: no two calls are open at a time, none is performed more
   than AtMost times or before it was made, and one that is answered was performed.   *)
Accounted ==
  /\ \A c, d \in Calls : state[c] = "open" /\ state[d] = "open" => c = d
  /\ \A c \in Calls :
       /\ performed[c] \in 0..AtMost
       /\ state[c] = "new" => performed[c] = 0
       /\ state[c] = "answered" => performed[c] > 0

(* A call that has returned, answered or failed, is over: its outcome does not change,
   however late the peer performs it.                                                  *)
Settled ==
  [][\A c \in Calls : state[c] \in {"answered", "failed"} => state'[c] = state[c]]_callVars
=============================================================================

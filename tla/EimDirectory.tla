---------------------------- MODULE EimDirectory ----------------------------
(***************************************************************************)
(* What the eIMs that manage an eUICC may rely on: the eUICC keeps a       *)
(* directory of eIMs and the address of each; an operation changes the     *)
(* entry it names and no other, and its answer tells whether it did; the   *)
(* directory survives an orderly stop of the IPAd, and after any other     *)
(* stop it is the one of the last orderly stop, or empty when there was    *)
(* none or its copy cannot be used.                                        *)
(***************************************************************************)
CONSTANTS EimIds, Fqdns, Nobody, Unusable

VARIABLES
  up,      \* the IPAd runs
  dir,     \* the address of each eIM in the directory
  kept,    \* the copy that survives the IPAd
  said     \* what the last operation answered, and about which eIM

vars == <<up, dir, kept, said>>
Directories == UNION {[ids -> Fqdns] : ids \in SUBSET EimIds}
Empty == CHOOSE d \in Directories : DOMAIN d = {}
Silence == [of |-> Nobody, code |-> "none"]
Says(id, code) == said' = [of |-> id, code |-> code]
Others(id) == [i \in DOMAIN dir \ {id} |-> dir[i]]

Init == up = FALSE /\ dir = Empty /\ kept = Empty /\ said = Silence

Start ==
  /\ ~up /\ up' = TRUE /\ said' = Silence
  /\ dir' = IF kept = Unusable THEN Empty ELSE kept
  /\ UNCHANGED kept

Refuse(id, code) == up /\ Says(id, code) /\ UNCHANGED <<up, dir, kept>>

Pause == up /\ said' = Silence /\ UNCHANGED <<up, dir, kept>>

Replace(d) == up /\ dir' = d /\ said' = Silence /\ UNCHANGED <<up, kept>>

Set(id, fqdn) ==
  /\ dir' = [i \in DOMAIN dir \cup {id} |-> IF i = id THEN fqdn ELSE dir[i]]
  /\ Says(id, "ok")
  /\ UNCHANGED <<up, kept>>

Add(id, fqdn) == up /\ id \notin DOMAIN dir /\ Set(id, fqdn)

Update(id, fqdn) == up /\ id \in DOMAIN dir /\ Set(id, fqdn)

Delete(id) ==
  /\ up /\ id \in DOMAIN dir
  /\ dir' = Others(id) /\ Says(id, "ok")
  /\ UNCHANGED <<up, kept>>

(* The copy is overwritten: it is of no use until that is complete. *)
BeginCopy == up /\ kept' = Unusable /\ said' = Silence /\ UNCHANGED <<up, dir>>

Stop ==
  /\ up' = FALSE /\ dir' = Empty /\ said' = Silence
  /\ \/ kept' = kept
     \/ kept' = dir          \* orderly

(* The software is replaced by one that cannot read the copy, if there is one. *)
Upgrade == ~up /\ kept' = Unusable /\ UNCHANGED <<up, dir, said>>

Next ==
  \/ Start \/ BeginCopy \/ Stop \/ Upgrade \/ Pause
  \/ \E id \in EimIds, code \in {"notFound", "exists", "error"} : Refuse(id, code)
  \/ \E d \in Directories : Replace(d)
  \/ \E id \in EimIds : Delete(id) \/ \E f \in Fqdns : Add(id, f) \/ Update(id, f)

Spec == Init /\ [][Next]_vars
=============================================================================

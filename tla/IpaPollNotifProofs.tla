------------------------ MODULE IpaPollNotifProofs -------------------------
(***************************************************************************)
(* Proof that the IPAd removes a notification or a package result from the *)
(* eUICC only after the eIM has received it.                               *)
(***************************************************************************)
EXTENDS IpaPollProofs

(* What is about to be removed has been delivered: the notification that was
   handled last, what is stored under the sequence number of the result that was
   sent, what the eIM acknowledged.                                             *)
Sent ==
  /\ pc = "notifRemove" => current \in delivered
  /\ pc = "provide" => {res.seq} \cap (notifs \cup eprs) \subseteq queue
  /\ pc = "removeResult" => {res.seq} \cap (notifs \cup eprs) \subseteq delivered
  /\ pc \in {"removeResult", "removeAcked"} => queue \subseteq delivered

SentPcs == {"notifRemove", "provide", "removeResult", "removeAcked"}

LEMMA SentElsewhere == pc' \notin SentPcs => Sent'
BY DEF Sent, SentPcs

LEMMA EndsElsewhere ==
  /\ \A rc, how : PollEnd(rc, how) => pc' \notin SentPcs
  /\ ExecFails => pc' \notin SentPcs
  /\ OnsetFails => pc' \notin SentPcs
  /\ \A present, seq : Loaded(present, seq) => pc' \notin SentPcs
BY DEF PollEnd, PollReturn, ExecFails, OnsetFails, Loaded, SentPcs

LEMMA SentStep ==
  ASSUME "emptyErr" \notin HttpFaults, IInv, Sent, [Next]_vars
  PROVE  Sent'
<1>1. CASE ipa_init \/ ipa_poll \/ ipa_free_ctx \/ Crash
  BY <1>1, SentElsewhere DEF ipa_init, ipa_poll, FirstCall, ipa_free_ctx, Crash, ForgetContext, SentPcs
<1>2. CASE RetrieveAll \/ rm_notif
  BY <1>2, SentElsewhere DEF RetrieveAll, rm_notif, NextNotif, SentPcs
<1>3. ASSUME NEW n \in Seqs, handle_notif(n) PROVE Sent'
  <2>1. CASE pc' # "notifRemove"
    BY <1>3, <2>1, SentElsewhere DEF handle_notif, NextNotif, SentPcs
  <2>2. CASE pc' = "notifRemove"
    <3>1. current' \in delivered'
      BY <1>3, <2>2 DEF handle_notif, NextNotif, Accepted, Done, HttpOutcomes
    <3> QED BY <2>2, <3>1 DEF Sent
  <2> QED BY <2>1, <2>2
<1>4. CASE Fetch
  <2>1. ASSUME NEW p \in Packages, get_eim_pkg(p) PROVE pc' \notin SentPcs
    BY <2>1 DEF get_eim_pkg, SentPcs
  <2> QED BY <1>4, <2>1, SentElsewhere, EndsElsewhere
          DEF Fetch, get_eim_pkg_fails, no_eim_pkg, exec_other_pkg
<1>5. CASE LoadEmu
  <2>1. CASE psmo_done
    BY <2>1, SentElsewhere, EndsElsewhere DEF psmo_done
  <2> QED BY <1>5, <2>1, SentElsewhere DEF LoadEmu, update_rollback_iccid, do_psmo, SentPcs
<1>6. CASE LoadNative
  <2>1. CASE load_fails \/ load_rejected
    BY <2>1, SentElsewhere, EndsElsewhere DEF load_fails, load_rejected
  <2> QED BY <1>6, <2>1, SentElsewhere DEF LoadNative, load_euicc_pkg, SentPcs
<1>7. CASE Euicc
  <2>1. pc \in {"loading", "down"}
    BY <1>7 DEF Euicc, euicc_psmo, euicc_done, IInv, Control
  <2>2. CASE UNCHANGED pc
    BY <2>1, <2>2, SentElsewhere DEF SentPcs
  <2>3. CASE ExecFails \/ Loaded("signed", nextSeq)
    BY <2>3, SentElsewhere, EndsElsewhere
  <2> QED BY <1>7, <2>2, <2>3 DEF Euicc, euicc_psmo, euicc_done
<1>8. CASE retr_notif
  <2>1. CASE OnsetFails
    BY <2>1, SentElsewhere, EndsElsewhere
  <2>2. CASE pc' = "provide" /\ queue' = Retrieved /\ UNCHANGED dataVars
    BY <1>8, <2>2 DEF retr_notif, Retrieved, Sent, dataVars, storeVars
  <2> QED BY <1>8, <2>1, <2>2 DEF retr_notif
<1>9. CASE prvde_eim_pkg_rslt
  <2>1. CASE OnsetFails
    BY <2>1, SentElsewhere, EndsElsewhere
  <2>2. CASE pc' = "rollback"
    BY <2>2, SentElsewhere DEF SentPcs
  <2>3. CASE ~OnsetFails /\ pc' # "rollback"
    <3>1. /\ pc' = "removeResult" /\ queue' \subseteq delivered'
          /\ delivered' = delivered \cup queue /\ UNCHANGED <<dataVars, storeVars>>
      BY <1>9, <2>3 DEF prvde_eim_pkg_rslt, eim_takes_result, Done
    <3> QED BY <1>9, <3>1 DEF prvde_eim_pkg_rslt, Sent, dataVars, storeVars
  <2> QED BY <2>1, <2>2, <2>3
<1>10. CASE prfle_rollback
  <2>1. pc' = "idle"
    BY <1>10 DEF prfle_rollback, OnsetFails, ExecFails, PollEnd, PollReturn
  <2> QED BY <2>1, SentElsewhere DEF SentPcs
<1>11. CASE rm_result \/ \E n \in Seqs : remove_notifications(n)
  <2>1. CASE OnsetFails \/ PollEnd("AGAIN", "confirmed")
    BY <2>1, SentElsewhere, EndsElsewhere
  <2>2. CASE pc' = "removeAcked" /\ queue' \subseteq queue
    BY <1>11, <2>2 DEF rm_result, remove_notifications, Sent, eimVars
  <2> QED BY <1>11, <2>1, <2>2 DEF rm_result, remove_notifications, listVars
<1>12. CASE UNCHANGED vars
  BY <1>12 DEF vars, Sent, dataVars, listVars, storeVars, eimVars
<1> QED BY <1>1, <1>2, <1>3, <1>4, <1>5, <1>6, <1>7, <1>8, <1>9, <1>10, <1>11, <1>12
        DEF Next, Ipad, Deliver, Onset

(* The stored notifications and results that a step takes away. *)
Removed == (notifs \cup eprs) \ (notifs' \cup eprs')

LEMMA RemovedStep ==
  ASSUME IInv, Sent, [Next]_vars
  PROVE  Removed \subseteq delivered
<1>1. ASSUME NEW op, Perform(op) PROVE Removed = {}
  BY <1>1 DEF Perform, Notify, Removed, storeVars
<1>2. ASSUME UNCHANGED storeVars PROVE Removed = {}
  BY <1>2 DEF Removed, storeVars
<1>3. CASE ipa_init \/ ipa_poll \/ ipa_free_ctx \/ Crash \/ RetrieveAll
  BY <1>2, <1>3 DEF ipa_init, ipa_poll, ipa_free_ctx, Crash, ForgetContext, RetrieveAll
<1>4. CASE (\E n \in Seqs : handle_notif(n)) \/ Fetch
  BY <1>2, <1>4 DEF handle_notif, Fetch, get_eim_pkg_fails, no_eim_pkg, get_eim_pkg, exec_other_pkg
<1>5. CASE LoadEmu \/ LoadNative
  BY <1>1, <1>2, <1>5 DEF LoadEmu, LoadNative, update_rollback_iccid, do_psmo, psmo_done, load_fails,
     load_rejected, load_euicc_pkg
<1>6. CASE Euicc
  BY <1>1, <1>2, <1>6 DEF Euicc, euicc_psmo, euicc_done, Removed
<1>7. CASE retr_notif \/ prvde_eim_pkg_rslt \/ prfle_rollback
  BY <1>1, <1>2, <1>7 DEF retr_notif, prvde_eim_pkg_rslt, prfle_rollback
<1>8. CASE rm_notif
  BY <1>8 DEF rm_notif, Remove, Removed, Sent
<1>9. CASE rm_result
  BY <1>9 DEF rm_result, Remove, Removed, Sent
<1>10. ASSUME NEW n \in Seqs, remove_notifications(n) PROVE Removed \subseteq delivered
  BY <1>10 DEF remove_notifications, Remove, Removed, Sent
<1>11. CASE UNCHANGED vars
  BY <1>2, <1>11 DEF vars, storeVars
<1> QED BY <1>3, <1>4, <1>5, <1>6, <1>7, <1>8, <1>9, <1>10, <1>11 DEF Next, Ipad, Deliver, Onset

(* As long as no HTTP error status with an empty body passes for the eIM's answer,
   nothing that is stored on the eUICC is removed before the eIM has received it,
   whatever else is lost, refused, garbled or interrupted by a crash.             *)
THEOREM RemovalSafe ==
  ASSUME "emptyErr" \notin HttpFaults
  PROVE  Spec => RemovedOnlyDelivered
<1>1. Init => Sent
  BY DEF Init, Sent
<1>2. IInv /\ Sent /\ [Next]_vars => Sent'
  BY SentStep
<1>3. Spec => [](IInv /\ Sent)
  BY <1>1, <1>2, InitIInv, NextIInv, PTL DEF Spec
<1>4. IInv /\ Sent /\ [Next]_vars =>
        [\A n \in Seqs : (n \in notifs \cup eprs /\ n \notin notifs' \cup eprs') => n \in delivered]_vars
  BY RemovedStep DEF Removed
<1> QED BY <1>3, <1>4, PTL DEF Spec, RemovedOnlyDelivered
=============================================================================

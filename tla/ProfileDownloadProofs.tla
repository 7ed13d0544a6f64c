----------------------- MODULE ProfileDownloadProofs -----------------------
(***************************************************************************)
(* Proofs about ProfileDownload, for every value of its constants: the     *)
(* types, that only what was agreed to is installed, that no session is    *)
(* left behind, that only what the last order grants is enabled, and that  *)
(* the download implements DownloadSession.                                *)
(***************************************************************************)
EXTENDS ProfileDownload, TLAPS

(* The calls before the eIM has opened a session, and those in one: before the
   eUICC can have decided anything, and all of them.                           *)
PreparePcs == {"euiccInfo", "challenge", "initAuth"}
EarlyPcs == {"authServ", "authClnt", "prepDwnld", "getBpp", "consent", "load"}
SessionPcs == EarlyPcs \cup {"autoEnable", "deliver", "remove", "cancelCard", "cancelEim"}

(* What the procedure has in hand at each of its calls. *)
Control ==
  /\ pc = "down" => tx = 0
  /\ pc \in PreparePcs => trigger \in Triggers /\ tx = 0 /\ \E s \in Tx : opened[s] = NoTrigger
  /\ pc \in SessionPcs => /\ trigger \in Triggers /\ tx \in Tx
                          /\ opened[tx] = trigger /\ check_certificate(trigger)
  /\ pc = "load" /\ ConsentCb => tx \in consented

(* What is decided about which download: nothing of one that has not been opened
   or that the eUICC still holds a session for.                                  *)
Decisions ==
  /\ \A t \in Tx : opened[t] = NoTrigger => fate[t] = "none" /\ told[t] = "nothing"
  /\ pc \in EarlyPcs => fate[tx] = "none" /\ told[tx] = "nothing"
  /\ card.stage \in {"none", "challenged"} => card.tx = 0
  /\ card.tx # 0 => fate[card.tx] = "none"
  /\ \A t \in results : fate[t] \in {"installed", "aborted"}
  /\ pc = "autoEnable" => fate[tx] = answer /\ answer \in {"installed", "aborted"}
  /\ pc \in {"deliver", "remove"} => fate[tx] \in {"installed", "aborted"}
  /\ pc = "cancelEim" /\ answer = "ok" => fate[tx] = "cancelled"

(* Where the session on the eUICC, and that at the eIM, are known to be gone. *)
Closed ==
  /\ pc \in {"autoEnable", "deliver", "remove", "cancelEim"} => card.tx # tx
  /\ pc = "remove" /\ clean => tx \notin open
  /\ NoSessionLeft

(* What automatic enabling looks at. *)
Orders ==
  /\ auto_enable = order /\ saved = keptOrder
  /\ pc = "autoEnable" /\ context # NoTrigger => context = trigger /\ answer = "installed"

IInv == TypeOK /\ Control /\ Decisions /\ InstalledAsAgreed /\ Closed /\ Orders

(* What the eIM has learnt where the eUICC is about to forget it. *)
Delivered == pc = "remove" => told[tx] = fate[tx]

(* A function that is changed at one place keeps its type. *)
LEMMA OneChanged ==
  ASSUME NEW S, NEW R, NEW f \in [S -> R], NEW x \in S, NEW y \in R
  PROVE [f EXCEPT ![x] = y] \in [S -> R]
OBVIOUS

(* The transactionId the eIM gives out next is one it has not used. *)
LEMMA NextTxFree ==
  ASSUME Control, pc = "initAuth" PROVE NextTx \in Tx /\ opened[NextTx] = NoTrigger
BY DEF Control, PreparePcs, NextTx

(* The download of a running session has been opened at the eIM. *)
LEMMA NoTriggerOpened == ASSUME Control, pc \in SessionPcs PROVE opened[tx] # NoTrigger
BY DownloadAssumption DEF Control

(* Every action keeps the types. *)
LEMMA TypeStep == ASSUME TypeOK, Control, Decisions, [Next]_vars PROVE TypeOK'
<1> USE DownloadAssumption DEF TypeOK, Control, Decisions, Pcs, PreparePcs, EarlyPcs, SessionPcs, Stages, Fates, Cancellable, Tx, ipadVars, cfgVars, cardVars, eimVars, history
<1>1. CASE ipa_init
  BY <1>1 DEF ipa_init
<1>2. CASE Crash
  BY <1>2 DEF Crash, Dies, ForgetContext
<1>3. CASE ipa_free_ctx
  BY <1>3 DEF ipa_free_ctx, ForgetContext
<1>4. CASE get_euicc_info
  BY <1>4 DEF get_euicc_info, Call, Goto, End
<1>5. CASE get_euicc_chlg
  BY <1>5 DEF get_euicc_chlg, Call, Goto, End
<1>6. CASE init_auth
  <2>1. PICK o \in HttpOutcomes, granted \in BOOLEAN :
          /\ Call(o)
          /\ IF Done(o) /\ granted
             THEN opened' = [opened EXCEPT ![NextTx] = trigger] /\ open' = open \cup {NextTx}
             ELSE UNCHANGED <<opened, open>>
          /\ IF o = "ok" /\ granted /\ check_certificate(trigger)
             THEN pc' = "authServ" /\ tx' = NextTx /\ UNCHANGED <<trigger, segment, answer, context>>
             ELSE End
    BY <1>6 DEF init_auth
  <2>2. NextTx \in Tx /\ trigger \in Triggers
    BY <1>6, NextTxFree DEF init_auth
  <2>3. UNCHANGED <<cardVars, told, cfgVars, consented, crashes>> /\ clean' \in BOOLEAN
    BY <1>6, <2>1 DEF init_auth, Call
  <2>4. opened' \in [Tx -> Triggers \cup {NoTrigger}] /\ open' \subseteq Tx
    <3>1. CASE Done(o) /\ granted
      <4>1. opened' = [opened EXCEPT ![NextTx] = trigger] /\ open' = open \cup {NextTx}
        BY <2>1, <3>1
      <4>2. opened \in [Tx -> Triggers \cup {NoTrigger}] /\ open \subseteq Tx
        OBVIOUS
      <4> QED BY ZenonT(60), <2>2, <4>1, <4>2, OneChanged
    <3>2. CASE ~(Done(o) /\ granted)
      BY <2>1, <3>2
    <3> QED BY <3>1, <3>2
  <2>5. /\ pc' \in Pcs /\ trigger' \in Triggers \cup {NoTrigger} /\ tx' \in 0..MaxTx
        /\ segment' \in 0..Segments /\ UNCHANGED <<answer, context>>
    BY <2>1, <2>2 DEF End
  <2> QED BY <2>3, <2>4, <2>5
<1>7. CASE auth_serv
  BY <1>7 DEF auth_serv, Call, Answered, End, Session, NoSession
<1>8. CASE auth_clnt
  BY SMTT(30), <1>8 DEF auth_clnt, Call, EimFails, CancelSession, Goto, Dies, ForgetContext
<1>9. CASE prep_dwnld
  BY <1>9 DEF prep_dwnld, Call, Answered, CancelSession, Goto, Session
<1>10. CASE get_bnd_prfle_pkg
  BY ZenonT(60), <1>10 DEF get_bnd_prfle_pkg, Call, EimFails, CancelSession, Goto
<1>11. CASE prfle_inst_consent_cb
  BY <1>11 DEF prfle_inst_consent_cb, CancelSession, Goto
<1>12. CASE load_bnd_prfle_pkg
  <2>1. PICK o \in CardOutcomes, verdict \in Verdicts \cup {"refused"} :
          /\ Call(o)
          /\ IF Done(o) /\ verdict # "refused" THEN Concludes(verdict) ELSE UNCHANGED <<card, fate, results>>
          /\ IF o # "ok" \/ verdict = "refused"
             THEN pc' = "cancelCard" /\ context' = NoTrigger /\ UNCHANGED <<trigger, tx, segment, answer>>
             ELSE /\ context' = Collected(verdict)
                  /\ CASE verdict # "more" ->
                            pc' = "autoEnable" /\ answer' = verdict /\ UNCHANGED segment
                       [] verdict = "more" /\ MoreSegments ->
                            segment' = segment + 1 /\ UNCHANGED <<pc, answer>>
                       [] OTHER -> pc' = "cancelCard" /\ UNCHANGED <<segment, answer>>
                  /\ UNCHANGED <<trigger, tx>>
    BY <1>12 DEF load_bnd_prfle_pkg
  <2>2. verdict \in {"more", "installed", "aborted", "refused"} /\ tx \in Tx /\ UNCHANGED <<active, eimVars, cfgVars>>
    BY <1>12 DEF load_bnd_prfle_pkg, Verdicts
  <2>3. UNCHANGED <<consented, crashes>> /\ clean' \in BOOLEAN
    BY <2>1 DEF Call
  <2>4. card' \in [stage : Stages, tx : 0..MaxTx] /\ fate' \in [Tx -> Fates] /\ results' \subseteq Tx
    BY <2>1, <2>2 DEF Concludes, Session, NoSession
  <2>5. pc' \in Pcs /\ segment' \in 0..Segments /\ answer' \in {"none", "ok", "error", "installed", "aborted"}
    BY <2>1, <2>2, <1>12 DEF MoreSegments, load_bnd_prfle_pkg
  <2>6. context' \in Triggers \cup {NoTrigger} /\ UNCHANGED <<trigger, tx>>
    BY <2>1 DEF Collected
  <2> QED BY <2>2, <2>3, <2>4, <2>5, <2>6
<1>13. CASE enable_using_dd
  BY <1>13 DEF enable_using_dd, DueFor
<1>14. CASE handle_notif
  BY <1>14 DEF handle_notif, Call, Learns, CancelSession, Goto
<1>15. CASE rm_notif
  BY <1>15 DEF rm_notif, Call, End, CancelSession, Goto
<1>16. CASE cancel_session_card
  BY <1>16 DEF cancel_session_card, Call, NoSession, Answered, End
<1>17. CASE cancel_session_eim
  <2>1. \/ open' = open /\ told' = told
        \/ /\ open' = open \ {tx}
           /\ \E w \in {told[tx], PassedOn} : told' = [told EXCEPT ![tx] = w]
    BY <1>17 DEF cancel_session_eim
  <2>2. tx \in Tx
    BY <1>17 DEF cancel_session_eim
  <2>3. open' \subseteq Tx
    BY <2>1
  <2>4. told' \in [Tx -> (Fates \ {"none"}) \cup {"nothing", "failed", "unclear"}]
    <3>1. told \in [Tx -> (Fates \ {"none"}) \cup {"nothing", "failed", "unclear"}]
      OBVIOUS
    <3>2. PassedOn \in (Fates \ {"none"}) \cup {"nothing", "failed", "unclear"}
      BY DEF PassedOn
    <3>3. CASE told' = told
      BY <3>1, <3>3
    <3>4. ASSUME NEW w \in {told[tx], PassedOn}, told' = [told EXCEPT ![tx] = w]
          PROVE told' \in [Tx -> (Fates \ {"none"}) \cup {"nothing", "failed", "unclear"}]
      <4>1. told[tx] \in (Fates \ {"none"}) \cup {"nothing", "failed", "unclear"}
        BY <2>2, <3>1
      <4>2. w \in (Fates \ {"none"}) \cup {"nothing", "failed", "unclear"}
        BY <3>2, <4>1
      <4> HIDE DEF TypeOK, Fates
      <4> QED BY <2>2, <3>1, <3>4, <4>2, OneChanged
    <3> QED BY <2>1, <3>3, <3>4
  <2>5. UNCHANGED <<cardVars, opened, cfgVars, consented, crashes>> /\ clean' \in BOOLEAN
    BY <1>17 DEF cancel_session_eim, Call
  <2>6. pc' = "idle" /\ trigger' = NoTrigger /\ segment' = 0 /\ UNCHANGED <<tx, answer, context>>
    BY <1>17 DEF cancel_session_eim, End
  <2> QED BY <2>3, <2>4, <2>5, <2>6
<1>18. ASSUME NEW t \in Tx, ipa_notif_delivery(t) PROVE TypeOK'
  BY <1>18 DEF ipa_notif_delivery, Learns
<1>19. ASSUME NEW t \in Triggers, eim_pkg_exec(t) PROVE TypeOK'
  BY <1>19 DEF eim_pkg_exec
<1>20. CASE Configure
  <2>1. PICK cfg \in AutoEnableCfgs \cup {Off} : configureAutoEnable(cfg)
    BY <1>20 DEF Configure, ipa_euicc_mem_rst
  <2>2. {auto_enable', saved', order', keptOrder'} \subseteq AutoEnableCfgs \cup {Off}
    BY <2>1 DEF configureAutoEnable, Configured
  <2>3. orders' \in 0..MaxOrders /\ UNCHANGED <<ipadVars, cardVars, eimVars, history>>
    BY <2>1 DEF configureAutoEnable
  <2> QED BY <2>2, <2>3
<1>21. CASE nothing_to_download \/ UNCHANGED vars
  <2> UNCHANGED vars
    BY <1>21 DEF nothing_to_download
  <2> QED BY DEF vars
<1> QED BY <1>1, <1>2, <1>3, <1>4, <1>5, <1>6, <1>7, <1>8, <1>9, <1>10, <1>11, <1>12, <1>13, <1>14, <1>15, <1>16, <1>17, <1>18, <1>19, <1>20, <1>21
        DEF Next, Procedure, Authenticate, Download, Install, CancelProcedure, Poll

(* Every action keeps what the procedure has in hand at each of its calls. *)
LEMMA ControlStep == ASSUME TypeOK, Control, [Next]_vars PROVE Control'
<1> USE DEF TypeOK, Control, PreparePcs, EarlyPcs, SessionPcs, Tx, ipadVars, cfgVars, cardVars, eimVars, history
<1>1. CASE ipa_init
  BY <1>1 DEF ipa_init
<1>2. CASE Crash
  BY <1>2 DEF Crash, Dies, ForgetContext
<1>3. CASE ipa_free_ctx
  BY <1>3 DEF ipa_free_ctx, ForgetContext
<1>4. CASE get_euicc_info
  BY <1>4 DEF get_euicc_info, Call, Goto, End
<1>5. CASE get_euicc_chlg
  BY <1>5 DEF get_euicc_chlg, Call, Goto, End
<1>6. CASE init_auth
  <2>1. PICK o \in HttpOutcomes, granted \in BOOLEAN :
          /\ IF Done(o) /\ granted
             THEN opened' = [opened EXCEPT ![NextTx] = trigger] /\ open' = open \cup {NextTx}
             ELSE UNCHANGED <<opened, open>>
          /\ IF o = "ok" /\ granted /\ check_certificate(trigger)
             THEN pc' = "authServ" /\ tx' = NextTx /\ UNCHANGED <<trigger, segment, answer, context>>
             ELSE End
    BY <1>6 DEF init_auth
  <2>2. NextTx \in Tx /\ trigger \in Triggers
    BY <1>6, NextTxFree DEF init_auth
  <2>3. CASE o = "ok" /\ granted /\ check_certificate(trigger)
    <3>1. pc' = "authServ" /\ tx' = NextTx /\ trigger' = trigger /\ opened'[NextTx] = trigger
      BY <2>1, <2>2, <2>3 DEF Done
    <3>2. check_certificate(trigger')
      BY <2>3, <3>1 DEF check_certificate
    <3> QED BY <2>2, <3>1, <3>2 DEF check_certificate
  <2>4. CASE ~(o = "ok" /\ granted /\ check_certificate(trigger))
    BY <2>1, <2>4 DEF End
  <2> QED BY <2>3, <2>4
<1>7. CASE auth_serv
  BY <1>7 DEF auth_serv, Call, Answered, End, Session, NoSession
<1>8. CASE auth_clnt
  BY <1>8 DEF auth_clnt, Call, EimFails, CancelSession, Goto, Dies, ForgetContext
<1>9. CASE prep_dwnld
  BY <1>9 DEF prep_dwnld, Call, Answered, CancelSession, Goto, Session
<1>10. CASE get_bnd_prfle_pkg
  BY <1>10 DEF get_bnd_prfle_pkg, Call, EimFails, CancelSession, Goto
<1>11. CASE prfle_inst_consent_cb
  BY <1>11 DEF prfle_inst_consent_cb, CancelSession, Goto
<1>12. CASE load_bnd_prfle_pkg
  BY <1>12 DEF load_bnd_prfle_pkg, Call, Concludes, Verdicts, Collected, MoreSegments, Session, NoSession
<1>13. CASE enable_using_dd
  BY <1>13 DEF enable_using_dd, DueFor
<1>14. CASE handle_notif
  BY <1>14 DEF handle_notif, Call, Learns, CancelSession, Goto
<1>15. CASE rm_notif
  BY <1>15 DEF rm_notif, Call, End, CancelSession, Goto
<1>16. CASE cancel_session_card
  BY <1>16 DEF cancel_session_card, Call, NoSession, Answered, End
<1>17. CASE cancel_session_eim
  BY <1>17 DEF cancel_session_eim, Call, PassedOn, End
<1>18. ASSUME NEW t \in Tx, ipa_notif_delivery(t) PROVE Control'
  BY <1>18 DEF ipa_notif_delivery, Learns
<1>19. ASSUME NEW t \in Triggers, eim_pkg_exec(t) PROVE Control'
  BY <1>19 DEF eim_pkg_exec
<1>20. CASE Configure
  BY <1>20 DEF Configure, ipa_euicc_mem_rst, configureAutoEnable, Configured
<1>21. CASE nothing_to_download \/ UNCHANGED vars
  BY <1>21 DEF nothing_to_download, vars
<1> QED BY <1>1, <1>2, <1>3, <1>4, <1>5, <1>6, <1>7, <1>8, <1>9, <1>10, <1>11, <1>12, <1>13, <1>14, <1>15, <1>16, <1>17, <1>18, <1>19, <1>20, <1>21
        DEF Next, Procedure, Authenticate, Download, Install, CancelProcedure, Poll

(* Every action keeps the eUICC's decisions apart from what it still may decide. *)
LEMMA DecisionsStep == ASSUME TypeOK, Control, Decisions, [Next]_vars PROVE Decisions'
<1> USE DEF TypeOK, Control, Decisions, PreparePcs, EarlyPcs, SessionPcs, Tx, ipadVars, cfgVars, cardVars, eimVars, history
<1>0. pc \in SessionPcs => opened[tx] # NoTrigger
  BY NoTriggerOpened
<1>1. CASE ipa_init
  BY <1>1 DEF ipa_init
<1>2. CASE Crash
  BY <1>2 DEF Crash, Dies, ForgetContext
<1>3. CASE ipa_free_ctx
  BY <1>3 DEF ipa_free_ctx, ForgetContext
<1>4. CASE get_euicc_info
  BY <1>4 DEF get_euicc_info, Call, Goto, End
<1>5. CASE get_euicc_chlg
  BY <1>5 DEF get_euicc_chlg, Call, Goto, End
<1>6. CASE init_auth
  BY ZenonT(60), <1>6 DEF init_auth, Call, End, NextTx
<1>7. CASE auth_serv
  BY <1>7 DEF auth_serv, Call, Answered, End, Session, NoSession
<1>8. CASE auth_clnt
  BY ZenonT(60), <1>8, <1>0 DEF auth_clnt, Call, EimFails, CancelSession, Goto, Dies, ForgetContext
<1>9. CASE prep_dwnld
  BY <1>9 DEF prep_dwnld, Call, Answered, CancelSession, Goto, Session
<1>10. CASE get_bnd_prfle_pkg
  BY ZenonT(60), <1>10, <1>0 DEF get_bnd_prfle_pkg, Call, EimFails, CancelSession, Goto
<1>11. CASE prfle_inst_consent_cb
  BY <1>11 DEF prfle_inst_consent_cb, CancelSession, Goto
<1>12. CASE load_bnd_prfle_pkg
  <2>1. PICK o \in CardOutcomes, verdict \in Verdicts \cup {"refused"} :
          /\ IF Done(o) /\ verdict # "refused" THEN Concludes(verdict) ELSE UNCHANGED <<card, fate, results>>
          /\ IF o # "ok" \/ verdict = "refused"
             THEN pc' = "cancelCard" /\ context' = NoTrigger /\ UNCHANGED <<trigger, tx, segment, answer>>
             ELSE /\ CASE verdict # "more" ->
                            pc' = "autoEnable" /\ answer' = verdict /\ UNCHANGED segment
                       [] verdict = "more" /\ MoreSegments ->
                            segment' = segment + 1 /\ UNCHANGED <<pc, answer>>
                       [] OTHER -> pc' = "cancelCard" /\ UNCHANGED <<segment, answer>>
                  /\ UNCHANGED <<trigger, tx>>
    BY <1>12 DEF load_bnd_prfle_pkg
  <2>2. /\ verdict \in {"more", "installed", "aborted", "refused"} /\ tx \in Tx /\ tx' = tx
        /\ opened' = opened /\ told' = told /\ pc = "load" /\ fate[tx] = "none" /\ opened[tx] # NoTrigger
    BY <1>12, <1>0, <2>1 DEF load_bnd_prfle_pkg, Verdicts
  <2>3. CASE Done(o) /\ verdict # "refused"
    <3>1. CASE verdict = "more"
      BY <2>1, <2>2, <2>3, <3>1 DEF Concludes, Session
    <3>2. CASE verdict # "more"
      <4>1. /\ card' = NoSession /\ results' = results \cup {tx}
            /\ fate' = [fate EXCEPT ![tx] = verdict] /\ verdict \in {"installed", "aborted"}
        BY <2>1, <2>2, <2>3, <3>2 DEF Concludes
      <4>2. pc' \in {"cancelCard", "autoEnable"} /\ (pc' = "autoEnable" => answer' = verdict)
        BY <2>1, <2>3, <3>2
      <4> QED BY <2>2, <4>1, <4>2 DEF NoSession
    <3> QED BY <3>1, <3>2
  <2>4. CASE ~(Done(o) /\ verdict # "refused")
    BY <2>1, <2>2, <2>4 DEF Done
  <2> QED BY <2>3, <2>4
<1>13. CASE enable_using_dd
  BY <1>13 DEF enable_using_dd, DueFor
<1>14. CASE handle_notif
  BY <1>14 DEF handle_notif, Call, Learns, CancelSession, Goto
<1>15. CASE rm_notif
  BY <1>15 DEF rm_notif, Call, End, CancelSession, Goto
<1>16. CASE cancel_session_card
  <2>1. PICK o \in CardOutcomes :
          LET known == card.tx = tx /\ card.stage \in Cancellable IN
            /\ IF Done(o) /\ known
               THEN card' = NoSession /\ fate' = [fate EXCEPT ![tx] = "cancelled"]
               ELSE UNCHANGED <<card, fate>>
            /\ IF o = "ok" THEN Answered(known, "cancelEim") ELSE End
    BY <1>16 DEF cancel_session_card
  <2>2. /\ tx \in Tx /\ opened[tx] # NoTrigger /\ tx' = tx
        /\ opened' = opened /\ told' = told /\ results' = results
    BY <1>16, <1>0, <2>1 DEF cancel_session_card, Answered, End
  <2>3. CASE Done(o) /\ card.tx = tx /\ card.stage \in Cancellable
    <3>1. fate[tx] = "none" /\ card' = NoSession /\ fate' = [fate EXCEPT ![tx] = "cancelled"]
      BY <2>1, <2>2, <2>3
    <3>2. pc' \in {"idle", "cancelEim"}
      BY <2>1 DEF Answered, End
    <3> QED BY <2>2, <3>1, <3>2 DEF NoSession
  <2>4. CASE ~(Done(o) /\ card.tx = tx /\ card.stage \in Cancellable)
    <3>1. UNCHANGED <<card, fate>> /\ pc' \in {"idle", "cancelEim"} /\ (pc' = "cancelEim" => answer' = "error")
      BY <2>1, <2>4 DEF Answered, End, Done
    <3> QED BY <2>2, <3>1
  <2> QED BY <2>3, <2>4
<1>17. CASE cancel_session_eim
  BY ZenonT(60), <1>17, <1>0 DEF cancel_session_eim, Call, PassedOn, End
<1>18. ASSUME NEW t \in Tx, ipa_notif_delivery(t) PROVE Decisions'
  BY <1>18 DEF ipa_notif_delivery, Learns
<1>19. ASSUME NEW t \in Triggers, eim_pkg_exec(t) PROVE Decisions'
  BY <1>19 DEF eim_pkg_exec
<1>20. CASE Configure
  BY <1>20 DEF Configure, ipa_euicc_mem_rst, configureAutoEnable, Configured
<1>21. CASE nothing_to_download \/ UNCHANGED vars
  BY ZenonT(60), <1>21 DEF nothing_to_download, vars
<1> QED BY <1>1, <1>2, <1>3, <1>4, <1>5, <1>6, <1>7, <1>8, <1>9, <1>10, <1>11, <1>12, <1>13, <1>14, <1>15, <1>16, <1>17, <1>18, <1>19, <1>20, <1>21
        DEF Next, Procedure, Authenticate, Download, Install, CancelProcedure, Poll

(* Only the last segment installs, and it is loaded with consent, in a session whose
   certificate was checked.                                                           *)
LEMMA AgreedStep == ASSUME TypeOK, Control, Decisions, InstalledAsAgreed, [Next]_vars PROVE InstalledAsAgreed'
<1> USE DEF TypeOK, Control, Decisions, InstalledAsAgreed, EarlyPcs, SessionPcs, ipadVars, cfgVars, cardVars, eimVars, history
<1>1. CASE ipa_init
  BY <1>1 DEF ipa_init
<1>2. CASE Crash
  BY <1>2 DEF Crash, Dies, ForgetContext
<1>3. CASE ipa_free_ctx
  BY <1>3 DEF ipa_free_ctx, ForgetContext
<1>4. CASE get_euicc_info
  BY <1>4 DEF get_euicc_info, Call, Goto, End
<1>5. CASE get_euicc_chlg
  BY <1>5 DEF get_euicc_chlg, Call, Goto, End
<1>6. CASE init_auth
  BY <1>6, NextTxFree DEF init_auth, Call, End, NextTx
<1>7. CASE auth_serv
  BY <1>7 DEF auth_serv, Call, Answered, End, Session, NoSession
<1>8. CASE auth_clnt
  BY <1>8 DEF auth_clnt, Call, EimFails, CancelSession, Goto, Dies, ForgetContext
<1>9. CASE prep_dwnld
  BY <1>9 DEF prep_dwnld, Call, Answered, CancelSession, Goto, Session
<1>10. CASE get_bnd_prfle_pkg
  BY <1>10 DEF get_bnd_prfle_pkg, Call, EimFails, CancelSession, Goto
<1>11. CASE prfle_inst_consent_cb
  BY <1>11 DEF prfle_inst_consent_cb, CancelSession, Goto
<1>12. CASE load_bnd_prfle_pkg
  BY <1>12 DEF load_bnd_prfle_pkg, Call, Concludes, Verdicts, Collected, MoreSegments, Session, NoSession, check_certificate
<1>13. CASE enable_using_dd
  BY <1>13 DEF enable_using_dd, DueFor
<1>14. CASE handle_notif
  BY <1>14 DEF handle_notif, Call, Learns, CancelSession, Goto
<1>15. CASE rm_notif
  BY <1>15 DEF rm_notif, Call, End, CancelSession, Goto
<1>16. CASE cancel_session_card
  BY <1>16 DEF cancel_session_card, Call, NoSession, Answered, End
<1>17. CASE cancel_session_eim
  BY <1>17 DEF cancel_session_eim, Call, PassedOn, End
<1>18. ASSUME NEW t \in Tx, ipa_notif_delivery(t) PROVE InstalledAsAgreed'
  BY <1>18 DEF ipa_notif_delivery, Learns
<1>19. ASSUME NEW t \in Triggers, eim_pkg_exec(t) PROVE InstalledAsAgreed'
  BY <1>19 DEF eim_pkg_exec
<1>20. CASE Configure
  BY <1>20 DEF Configure, ipa_euicc_mem_rst, configureAutoEnable, Configured
<1>21. CASE nothing_to_download \/ UNCHANGED vars
  BY <1>21 DEF nothing_to_download, vars
<1> QED BY <1>1, <1>2, <1>3, <1>4, <1>5, <1>6, <1>7, <1>8, <1>9, <1>10, <1>11, <1>12, <1>13, <1>14, <1>15, <1>16, <1>17, <1>18, <1>19, <1>20, <1>21
        DEF Next, Procedure, Authenticate, Download, Install, CancelProcedure, Poll

(* Every action that ends a session leaves it behind on neither side, or calls on
   to the one that does.                                                           *)
LEMMA ClosedStep == ASSUME TypeOK, Control, Decisions, Closed, [Next]_vars PROVE Closed'
<1> USE DEF TypeOK, Control, Decisions, Closed, NoSessionLeft, PreparePcs, EarlyPcs, SessionPcs, Tx, ipadVars, cfgVars, cardVars, eimVars, history
<1>1. CASE ipa_init
  BY <1>1 DEF ipa_init
<1>2. CASE Crash
  BY <1>2 DEF Crash, Dies, ForgetContext
<1>3. CASE ipa_free_ctx
  BY <1>3 DEF ipa_free_ctx, ForgetContext
<1>4. CASE get_euicc_info
  BY <1>4 DEF get_euicc_info, Call, Goto, End
<1>5. CASE get_euicc_chlg
  BY <1>5 DEF get_euicc_chlg, Call, Goto, End
<1>6. CASE init_auth
  BY <1>6 DEF init_auth, Call, End, NextTx
<1>7. CASE auth_serv
  BY <1>7 DEF auth_serv, Call, Answered, End, Session, NoSession
<1>8. CASE auth_clnt
  BY <1>8 DEF auth_clnt, Call, EimFails, CancelSession, Goto, Dies, ForgetContext
<1>9. CASE prep_dwnld
  BY <1>9 DEF prep_dwnld, Call, Answered, CancelSession, Goto, Session
<1>10. CASE get_bnd_prfle_pkg
  BY <1>10 DEF get_bnd_prfle_pkg, Call, EimFails, CancelSession, Goto
<1>11. CASE prfle_inst_consent_cb
  BY <1>11 DEF prfle_inst_consent_cb, CancelSession, Goto
<1>12. CASE load_bnd_prfle_pkg
  BY <1>12 DEF load_bnd_prfle_pkg, Call, Concludes, Verdicts, Collected, MoreSegments, Session, NoSession, Done
<1>13. CASE enable_using_dd
  BY <1>13 DEF enable_using_dd, DueFor
<1>14. CASE handle_notif
  BY <1>14 DEF handle_notif, Call, Learns, CancelSession, Goto, Accepted, Done
<1>15. CASE rm_notif
  BY <1>15 DEF rm_notif, Call, End, CancelSession, Goto
<1>16. CASE cancel_session_card
  <2>1. PICK o \in CardOutcomes :
          /\ Call(o)
          /\ LET known == card.tx = tx /\ card.stage \in Cancellable IN
              /\ IF Done(o) /\ known
                 THEN card' = NoSession /\ fate' = [fate EXCEPT ![tx] = "cancelled"]
                 ELSE UNCHANGED <<card, fate>>
              /\ IF o = "ok" THEN Answered(known, "cancelEim") ELSE End
    BY <1>16 DEF cancel_session_card
  <2>2. tx' = tx /\ tx \in Tx /\ UNCHANGED open
    BY <1>16, <2>1 DEF cancel_session_card, Answered, End
  <2>3. CASE o = "ok"
    <3>1. pc' = "cancelEim"
      BY <2>1, <2>3 DEF Answered
    <3>2. card'.tx # tx
      <4>1. card.tx = tx => card.stage \in Cancellable
        BY <2>2 DEF Stages
      <4> QED BY <2>1, <2>2, <2>3, <4>1 DEF Done, NoSession
    <3> QED BY <2>2, <3>1, <3>2
  <2>4. CASE o # "ok"
    BY <2>1, <2>4 DEF Call, End
  <2> QED BY <2>3, <2>4
<1>17. CASE cancel_session_eim
  BY <1>17 DEF cancel_session_eim, Call, PassedOn, End, Done
<1>18. ASSUME NEW t \in Tx, ipa_notif_delivery(t) PROVE Closed'
  BY <1>18 DEF ipa_notif_delivery, Learns
<1>19. ASSUME NEW t \in Triggers, eim_pkg_exec(t) PROVE Closed'
  BY <1>19 DEF eim_pkg_exec
<1>20. CASE Configure
  BY <1>20 DEF Configure, ipa_euicc_mem_rst, configureAutoEnable, Configured
<1>21. CASE nothing_to_download \/ UNCHANGED vars
  BY <1>21 DEF nothing_to_download, vars
<1> QED BY <1>1, <1>2, <1>3, <1>4, <1>5, <1>6, <1>7, <1>8, <1>9, <1>10, <1>11, <1>12, <1>13, <1>14, <1>15, <1>16, <1>17, <1>18, <1>19, <1>20, <1>21
        DEF Next, Procedure, Authenticate, Download, Install, CancelProcedure, Poll

(* Every action keeps the order in force and the trigger it is applied to. *)
LEMMA OrdersStep == ASSUME Control, Orders, [Next]_vars PROVE Orders'
<1> USE DEF Control, Orders, EarlyPcs, SessionPcs, ipadVars, cfgVars, cardVars, eimVars, history
<1>1. CASE ipa_init
  BY <1>1 DEF ipa_init
<1>2. CASE Crash
  BY <1>2 DEF Crash, Dies, ForgetContext
<1>3. CASE ipa_free_ctx
  BY <1>3 DEF ipa_free_ctx, ForgetContext
<1>4. CASE get_euicc_info
  BY <1>4 DEF get_euicc_info, Call, Goto, End
<1>5. CASE get_euicc_chlg
  BY <1>5 DEF get_euicc_chlg, Call, Goto, End
<1>6. CASE init_auth
  BY <1>6 DEF init_auth, Call, End, NextTx
<1>7. CASE auth_serv
  BY <1>7 DEF auth_serv, Call, Answered, End, Session, NoSession
<1>8. CASE auth_clnt
  BY <1>8 DEF auth_clnt, Call, EimFails, CancelSession, Goto, Dies, ForgetContext
<1>9. CASE prep_dwnld
  BY <1>9 DEF prep_dwnld, Call, Answered, CancelSession, Goto, Session
<1>10. CASE get_bnd_prfle_pkg
  BY <1>10 DEF get_bnd_prfle_pkg, Call, EimFails, CancelSession, Goto
<1>11. CASE prfle_inst_consent_cb
  BY <1>11 DEF prfle_inst_consent_cb, CancelSession, Goto
<1>12. CASE load_bnd_prfle_pkg
  BY <1>12 DEF load_bnd_prfle_pkg, Call, Concludes, Verdicts, Collected, MoreSegments, Session, NoSession
<1>13. CASE enable_using_dd
  BY <1>13 DEF enable_using_dd, DueFor
<1>14. CASE handle_notif
  BY <1>14 DEF handle_notif, Call, Learns, CancelSession, Goto
<1>15. CASE rm_notif
  BY <1>15 DEF rm_notif, Call, End, CancelSession, Goto
<1>16. CASE cancel_session_card
  BY <1>16 DEF cancel_session_card, Call, NoSession, Answered, End
<1>17. CASE cancel_session_eim
  BY <1>17 DEF cancel_session_eim, Call, PassedOn, End
<1>18. ASSUME NEW t \in Tx, ipa_notif_delivery(t) PROVE Orders'
  BY <1>18 DEF ipa_notif_delivery, Learns
<1>19. ASSUME NEW t \in Triggers, eim_pkg_exec(t) PROVE Orders'
  BY <1>19 DEF eim_pkg_exec
<1>20. CASE Configure
  BY <1>20 DEF Configure, ipa_euicc_mem_rst, configureAutoEnable, Configured
<1>21. CASE nothing_to_download \/ UNCHANGED vars
  BY <1>21 DEF nothing_to_download, vars
<1> QED BY <1>1, <1>2, <1>3, <1>4, <1>5, <1>6, <1>7, <1>8, <1>9, <1>10, <1>11, <1>12, <1>13, <1>14, <1>15, <1>16, <1>17, <1>18, <1>19, <1>20, <1>21
        DEF Next, Procedure, Authenticate, Download, Install, CancelProcedure, Poll

LEMMA InitIInv == Init => IInv
<1> SUFFICES ASSUME Init PROVE IInv
  OBVIOUS
<1> USE DownloadAssumption DEF Init
<1>1. TypeOK
  BY DEF TypeOK, Tx, Pcs, Stages, Fates, NoSession
<1>2. Control /\ Decisions
  BY DEF Control, Decisions, PreparePcs, SessionPcs, EarlyPcs, NoSession
<1>3. InstalledAsAgreed /\ Closed /\ Orders
  BY DEF InstalledAsAgreed, Closed, NoSessionLeft, Orders
<1> QED BY <1>1, <1>2, <1>3 DEF IInv

LEMMA NextIInv == IInv /\ [Next]_vars => IInv'
BY TypeStep, ControlStep, DecisionsStep, AgreedStep, ClosedStep, OrdersStep DEF IInv

(* Every variable of the IPAd, of the eUICC and of the eIM stays in its type: above
   all the segment stays within the package, and a session is opened within Tx.     *)
THEOREM DownloadTypeCorrect == Spec => []TypeOK
BY InitIInv, NextIInv, PTL DEF Spec, IInv

(* Nothing is installed without the consent of the user to this very session, nor
   from an SM-DP+ whose certificate the configuration of the eIM does not allow,
   whatever gets lost and wherever the IPAd crashes.                              *)
THEOREM InstallsAgreedOnly == Spec => []InstalledAsAgreed
BY InitIInv, NextIInv, PTL DEF Spec, IInv

(* A procedure whose calls were all answered leaves no session of its download
   behind, neither on the eUICC nor at the eIM.                                *)
THEOREM ClosesSessions == Spec => []NoSessionLeft
BY InitIInv, NextIInv, PTL DEF Spec, IInv, Closed

-----------------------------------------------------------------------------
(* Automatic enabling *)

(* Only EnableUsingDD changes the enabled profile here. *)
LEMMA EnabledBy == ASSUME [Next]_vars, active' # active PROVE enable_using_dd
<1> USE DEF cardVars
<1>1. CASE UNCHANGED vars \/ ipa_init \/ ipa_free_ctx \/ Crash
  BY <1>1 DEF vars, ipa_init, ipa_free_ctx, Crash
<1>2. CASE Poll \/ Configure
  BY <1>2 DEF Poll, nothing_to_download, vars, ipa_notif_delivery, eim_pkg_exec, Configure,
     ipa_euicc_mem_rst, configureAutoEnable
<1>3. CASE Authenticate \/ Download \/ CancelProcedure
  BY <1>3 DEF Authenticate, get_euicc_info, get_euicc_chlg, init_auth, auth_serv, auth_clnt, Download,
     prep_dwnld, get_bnd_prfle_pkg, prfle_inst_consent_cb, CancelProcedure, cancel_session_card,
     cancel_session_eim
<1>4. CASE Install
  BY <1>4 DEF Install, load_bnd_prfle_pkg, handle_notif, rm_notif
<1> QED BY <1>1, <1>2, <1>3, <1>4 DEF Next, Procedure

LEMMA EnableStep ==
  ASSUME IInv, [Next]_vars, active' # active
  PROVE  /\ trigger # NoTrigger /\ active' = Profile[trigger] /\ fate[tx] = "installed"
         /\ order.flag
         /\ order.smdpOid \in {Absent, SmdpOid[trigger]}
         /\ order.smdpAddress \in {Absent, SmdpAddress[trigger]}
<1>1. pc = "autoEnable" /\ DueFor # NoTrigger /\ Granted(DueFor) /\ active' = Profile[DueFor]
  BY EnabledBy DEF enable_using_dd
<1>2. DueFor = trigger /\ answer = "installed"
  BY <1>1 DEF DueFor, IInv, Orders
<1>3. fate[tx] = "installed"
  BY <1>1, <1>2 DEF IInv, Decisions
<1>4. auto_enable = order
  BY DEF IInv, Orders
<1> QED BY <1>1, <1>2, <1>3, <1>4 DEF Granted

(* A profile is enabled automatically in the session that installed it only, and as
   the last configuration of automatic enabling permits: what the eIM or the
   application has revoked is not brought back, by the state file or by the data
   of an earlier installation.                                                   *)
THEOREM EnablesAsOrdered == Spec => AutoEnabledAsOrdered
<1>1. IInv /\ [Next]_vars =>
        [ active' # active =>
            /\ trigger # NoTrigger /\ active' = Profile[trigger] /\ fate[tx] = "installed"
            /\ order.flag
            /\ order.smdpOid \in {Absent, SmdpOid[trigger]}
            /\ order.smdpAddress \in {Absent, SmdpAddress[trigger]} ]_vars
  BY EnableStep
<1> QED BY <1>1, InitIInv, NextIInv, PTL DEF Spec, AutoEnabledAsOrdered

-----------------------------------------------------------------------------
(* The download implements DownloadSession: fate, told and results are the
   variables of the abstract specification, what happens in between stutters. *)

(* What the abstract specification looks at. *)
promised == <<fate, told, results>>

(* The result is removed after the delivery was answered, so the eIM has it. *)
LEMMA DeliveredStep ==
  ASSUME "emptyErr" \notin HttpFaults, TypeOK, Control, Delivered, [Next]_vars
  PROVE  Delivered'
<1>1. CASE handle_notif
  <2>1. PICK o \in HttpOutcomes :
          Learns(tx, o) /\ IF Accepted(o) THEN Goto("remove") ELSE CancelSession
    BY <1>1 DEF handle_notif
  <2>2. CASE Accepted(o)
    <3>1. o = "ok" /\ tx \in Tx
      BY <1>1, <2>2 DEF Accepted, HttpOutcomes, handle_notif, Control, SessionPcs
    <3>2. told' = [told EXCEPT ![tx] = fate[tx]] /\ tx' = tx /\ fate' = fate
      BY <1>1, <2>1, <2>2, <3>1 DEF Learns, Done, Goto, handle_notif, cardVars
    <3> QED BY <3>1, <3>2 DEF Delivered, TypeOK
  <2>3. CASE ~Accepted(o)
    BY <2>1, <2>3 DEF CancelSession, Goto, Delivered
  <2> QED BY <2>2, <2>3
<1>2. CASE UNCHANGED vars
  BY <1>2 DEF vars, Delivered, ipadVars, cardVars, eimVars
<1>3. ASSUME ~handle_notif, ~UNCHANGED vars PROVE pc' # "remove"
  <2>1. CASE ipa_init \/ ipa_free_ctx \/ Crash
    BY <2>1 DEF ipa_init, ipa_free_ctx, Crash, Dies, ForgetContext
  <2>2. CASE Poll \/ Configure
    BY <1>3, <2>2 DEF Poll, nothing_to_download, ipa_notif_delivery, eim_pkg_exec, Configure,
       ipa_euicc_mem_rst, configureAutoEnable, ipadVars
  <2>3. CASE Authenticate
    BY <2>3 DEF Authenticate, get_euicc_info, get_euicc_chlg, init_auth, auth_serv, auth_clnt,
       Goto, End, Answered, CancelSession, Dies, ForgetContext
  <2>4. CASE Download \/ CancelProcedure
    BY <2>4 DEF Download, prep_dwnld, get_bnd_prfle_pkg, prfle_inst_consent_cb, CancelProcedure,
       cancel_session_card, cancel_session_eim, Goto, End, Answered, CancelSession
  <2>5. CASE load_bnd_prfle_pkg \/ enable_using_dd \/ rm_notif
    BY <2>5 DEF load_bnd_prfle_pkg, enable_using_dd, rm_notif, Goto, End, CancelSession
  <2> QED BY <1>3, <2>1, <2>2, <2>3, <2>4, <2>5 DEF Next, Procedure, Install
<1> QED BY <1>1, <1>2, <1>3 DEF Delivered

(* What the abstract eIM learns in one step. *)
LEMMA TellStep ==
  ASSUME NEW t \in Tx, NEW w, w \in {fate[t], "unclear", "failed"}, w # "none",
         w = "failed" => fate[t] = "none", told' = [told EXCEPT ![t] = w], told[t] # fate[t],
         results' \in {results, IF w = fate[t] THEN results \ {t} ELSE results}, fate' = fate
  PROVE  Downloads!Next
BY DEF Downloads!Next, Downloads!Tell

(* Every step is one of the abstract specification, or none. *)
LEMMA RefineStep ==
  ASSUME "emptyErr" \notin HttpFaults, IInv, Delivered, [Next]_vars
  PROVE  [Downloads!Next]_promised
<1> USE DEF promised
<1>1. TypeOK /\ Control /\ Decisions
  BY DEF IInv
<1>2. CASE UNCHANGED vars \/ ipa_init \/ ipa_free_ctx \/ Crash
  BY <1>2 DEF vars, ipa_init, ipa_free_ctx, Crash, cardVars, eimVars
<1>3. CASE nothing_to_download \/ Configure \/ \E t \in Triggers : eim_pkg_exec(t)
  BY <1>3 DEF nothing_to_download, vars, eim_pkg_exec, Configure, ipa_euicc_mem_rst,
     configureAutoEnable, cardVars, eimVars
<1>4. ASSUME NEW t \in Tx, ipa_notif_delivery(t) PROVE [Downloads!Next]_promised
  <2>1. PICK o \in HttpOutcomes, c \in CardOutcomes :
          /\ Learns(t, o)
          /\ results' = IF Accepted(o) /\ Done(c) THEN results \ {t} ELSE results
    BY <1>4 DEF ipa_notif_delivery
  <2>2. fate' = fate /\ fate[t] \in {"installed", "aborted"}
    BY <1>1, <1>4 DEF ipa_notif_delivery, Decisions
  <2>3. Accepted(o) => Done(o)
    BY DEF Accepted, Done, HttpOutcomes
  <2>4. CASE ~Done(o)
    BY <2>1, <2>2, <2>3, <2>4 DEF Learns
  <2>5. CASE Done(o) /\ told[t] = fate[t]
    <3>1. told' = told
      BY <1>1, <2>1, <2>5 DEF Learns, TypeOK
    <3> QED BY <2>1, <2>2, <2>5, <3>1 DEF Downloads!Next, Downloads!Forget
  <2>6. CASE Done(o) /\ told[t] # fate[t]
    <3>1. told' = [told EXCEPT ![t] = fate[t]]
      BY <2>1, <2>6 DEF Learns
    <3> QED BY <2>1, <2>2, <2>6, <3>1, TellStep
  <2> QED BY <2>4, <2>5, <2>6
<1>5. CASE get_euicc_info \/ get_euicc_chlg \/ init_auth \/ auth_serv
  BY <1>5 DEF get_euicc_info, get_euicc_chlg, init_auth, auth_serv, cardVars, eimVars
<1>6. CASE auth_clnt \/ get_bnd_prfle_pkg
  <2>1. tx \in Tx /\ fate[tx] = "none" /\ told[tx] = "nothing"
    BY <1>1, <1>6 DEF Control, Decisions, SessionPcs, EarlyPcs, auth_clnt, get_bnd_prfle_pkg
  <2>2. fate' = fate /\ results' = results /\ (EimFails \/ told' = told)
    BY <1>6 DEF auth_clnt, get_bnd_prfle_pkg, cardVars, eimVars
  <2>3. CASE EimFails
    BY <2>1, <2>2, <2>3, TellStep DEF EimFails
  <2> QED BY <2>2, <2>3
<1>7. CASE prep_dwnld \/ prfle_inst_consent_cb \/ enable_using_dd
  BY <1>7 DEF prep_dwnld, prfle_inst_consent_cb, enable_using_dd, cardVars, eimVars
<1>8. CASE load_bnd_prfle_pkg
  <2>1. tx \in Tx /\ fate[tx] = "none" /\ told[tx] = "nothing" /\ told' = told
    BY <1>1, <1>8 DEF Control, Decisions, SessionPcs, EarlyPcs, load_bnd_prfle_pkg, eimVars
  <2>2. PICK verdict \in Verdicts \cup {"refused"} :
          \/ verdict # "refused" /\ Concludes(verdict)
          \/ UNCHANGED <<card, fate, results>>
    BY <1>8 DEF load_bnd_prfle_pkg
  <2>3. CASE UNCHANGED <<card, fate, results>>
    BY <2>1, <2>3
  <2>4. CASE verdict # "refused" /\ Concludes(verdict)
    <3>1. verdict \in {"more", "aborted", "installed"}
      BY <2>4 DEF Verdicts
    <3>2. CASE verdict = "more"
      BY <2>1, <2>4, <3>2 DEF Concludes
    <3>3. CASE verdict # "more"
      BY <2>1, <2>4, <3>1, <3>3
      DEF Concludes, Downloads!Next, Downloads!Install, Downloads!Abort, Downloads!Decide
    <3> QED BY <3>2, <3>3
  <2> QED BY <2>2, <2>3, <2>4
<1>9. CASE handle_notif
  <2>1. /\ tx \in Tx /\ fate[tx] \in {"installed", "aborted"} /\ fate' = fate /\ results' = results
        /\ \E o \in HttpOutcomes : Learns(tx, o)
    BY <1>1, <1>9 DEF Control, Decisions, SessionPcs, handle_notif, cardVars
  <2>2. told' = told \/ told' = [told EXCEPT ![tx] = fate[tx]]
    BY <2>1 DEF Learns
  <2>3. CASE told[tx] = fate[tx]
    BY <1>1, <2>1, <2>2, <2>3 DEF TypeOK
  <2>4. CASE told[tx] # fate[tx]
    BY <2>1, <2>2, <2>4, TellStep
  <2> QED BY <2>3, <2>4
<1>10. CASE rm_notif
  <2>1. /\ tx \in Tx /\ told[tx] = fate[tx] /\ fate' = fate /\ told' = told
        /\ (results' = results \/ results' = results \ {tx})
    BY <1>1, <1>10 DEF rm_notif, Control, SessionPcs, Delivered, eimVars
  <2> QED BY <2>1 DEF Downloads!Next, Downloads!Forget
<1>11. CASE cancel_session_card
  <2>1. tx \in Tx /\ told' = told /\ results' = results
    BY <1>1, <1>11 DEF cancel_session_card, Control, SessionPcs, eimVars
  <2>2. \/ fate' = fate
        \/ card.tx = tx /\ fate' = [fate EXCEPT ![tx] = "cancelled"]
    BY <1>11 DEF cancel_session_card
  <2>3. CASE card.tx = tx /\ fate' = [fate EXCEPT ![tx] = "cancelled"]
    <3>1. fate[tx] = "none"
      BY <1>1, <2>1, <2>3 DEF Decisions, Tx
    <3> QED BY <2>1, <2>3, <3>1 DEF Downloads!Next, Downloads!Cancel, Downloads!Decide
  <2> QED BY <2>1, <2>2, <2>3
<1>12. CASE cancel_session_eim
  <2>1. /\ tx \in Tx /\ fate' = fate /\ results' = results
        /\ answer = "ok" => fate[tx] = "cancelled"
        /\ fate[tx] \in Fates
    BY <1>1, <1>12 DEF cancel_session_eim, Control, Decisions, SessionPcs, cardVars, TypeOK
  <2>2. \/ told' = told
        \/ told' = [told EXCEPT ![tx] = IF told[tx] \in {"nothing", "unclear"} THEN PassedOn ELSE told[tx]]
    BY <1>12 DEF cancel_session_eim
  <2>3. CASE told[tx] \notin {"nothing", "unclear"} \/ told[tx] = PassedOn
    <3>1. (IF told[tx] \in {"nothing", "unclear"} THEN PassedOn ELSE told[tx]) = told[tx]
      BY <2>3
    <3>2. told = [told EXCEPT ![tx] = told[tx]]
      BY <1>1, <2>1 DEF TypeOK
    <3> QED BY <2>1, <2>2, <3>1, <3>2
  <2>4. CASE told[tx] \in {"nothing", "unclear"} /\ told[tx] # PassedOn
    <3>1. told[tx] # fate[tx] /\ PassedOn \in {fate[tx], "unclear"} /\ PassedOn \in {"cancelled", "unclear"}
      BY <2>1, <2>4 DEF PassedOn, Fates
    <3>2. told' = told \/ told' = [told EXCEPT ![tx] = PassedOn]
      BY <2>2, <2>4
    <3> QED BY <2>1, <3>1, <3>2, TellStep
  <2> QED BY <2>3, <2>4
<1> QED BY <1>2, <1>3, <1>4, <1>5, <1>6, <1>7, <1>8, <1>9, <1>10, <1>11, <1>12
        DEF Next, Procedure, Poll, Authenticate, Download, Install, CancelProcedure

(* The eIM learns what the eUICC has decided and nothing else, and the eUICC forgets
   a result only once the eIM has it, as long as no HTTP error status with an empty
   body passes for the eIM's answer.                                                *)
THEOREM DownloadImplements ==
  ASSUME "emptyErr" \notin HttpFaults
  PROVE  Spec => DownloadSessionSpec
<1>1. Init => IInv /\ Delivered /\ Downloads!Init
  BY InitIInv DEF Init, Delivered, Downloads!Init
<1>2. IInv /\ Delivered /\ [Next]_vars => IInv' /\ Delivered' /\ [Downloads!Next]_(Downloads!vars)
  BY NextIInv, DeliveredStep, RefineStep DEF IInv, promised, Downloads!vars
<1> QED BY <1>1, <1>2, PTL DEF Spec, DownloadSessionSpec, Downloads!Spec

(* What the eIM has been told of a download is the truth or no claim at all, a download
   it was told has failed is not installed, and of each that is installed or aborted
   either the eUICC still keeps the result or the eIM has it.                          *)
THEOREM EimAndEuiccAgree ==
  ASSUME "emptyErr" \notin HttpFaults
  PROVE  Spec => []Downloads!Consistent
<1> DEFINE Tolds == (Fates \ {"none"}) \cup {"nothing", "failed", "unclear"}
<1> DEFINE Agrees ==
      /\ Downloads!Consistent
      /\ told \in [Tx -> Tolds] /\ fate \in [Tx -> Fates] /\ results \subseteq Tx
<1>1. Downloads!Init => Agrees
  BY DEF Downloads!Init, Downloads!Consistent, Fates
<1>2. Agrees /\ [Downloads!Next]_(Downloads!vars) => Agrees'
  <2> SUFFICES ASSUME Agrees, [Downloads!Next]_(Downloads!vars) PROVE Agrees'
    OBVIOUS
  <2>1. ASSUME NEW t \in Tx, Downloads!Install(t) PROVE Agrees'
    BY <2>1 DEF Downloads!Install, Downloads!Decide, Downloads!Consistent, Fates
  <2>2. ASSUME NEW t \in Tx, Downloads!Abort(t) PROVE Agrees'
    BY <2>2 DEF Downloads!Abort, Downloads!Decide, Downloads!Consistent, Fates
  <2>3. ASSUME NEW t \in Tx, Downloads!Cancel(t) PROVE Agrees'
    BY <2>3 DEF Downloads!Cancel, Downloads!Decide, Downloads!Consistent, Fates
  <2>4. ASSUME NEW t \in Tx, Downloads!Tell(t) PROVE Agrees'
    BY <2>4 DEF Downloads!Tell, Downloads!Consistent, Fates
  <2>5. ASSUME NEW t \in Tx, Downloads!Forget(t) PROVE Agrees'
    BY <2>5 DEF Downloads!Forget, Downloads!Consistent, Fates
  <2>6. CASE UNCHANGED Downloads!vars
    BY <2>6 DEF Downloads!vars, Downloads!Consistent
  <2> QED BY <2>1, <2>2, <2>3, <2>4, <2>5, <2>6 DEF Downloads!Next
<1>3. Agrees => Downloads!Consistent
  OBVIOUS
<1> QED BY <1>1, <1>2, <1>3, DownloadImplements, PTL DEF DownloadSessionSpec, Downloads!Spec

(* What the eUICC has decided about a download it does not decide again, and what the
   eIM knows of the decision it does not unlearn.                                    *)
THEOREM DecisionsAreFinal ==
  ASSUME "emptyErr" \notin HttpFaults
  PROVE  Spec => Downloads!Final
<1>1. TypeOK /\ Downloads!Consistent /\ [Downloads!Next]_(Downloads!vars)
      => [\A t \in Tx :
            /\ fate[t] # "none" => fate'[t] = fate[t]
            /\ told[t] \in {"installed", "aborted", "cancelled"} => told'[t] = told[t]]_(Downloads!vars)
  BY DEF TypeOK, Downloads!Consistent, Downloads!Next, Downloads!Install, Downloads!Abort, Downloads!Cancel,
         Downloads!Decide, Downloads!Tell, Downloads!Forget, Downloads!vars
<1> QED BY <1>1, DownloadTypeCorrect, EimAndEuiccAgree, DownloadImplements, PTL
        DEF DownloadSessionSpec, Downloads!Spec, Downloads!Final
=============================================================================

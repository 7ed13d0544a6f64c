-------------------------- MODULE ProfileDownload --------------------------
(***************************************************************************)
(* The indirect profile download: what the IPAd does with a download       *)
(* trigger of the eIM (proc_indirect_prfle_dwnld.c): mutual authentication *)
(* of eUICC and SM-DP+ through the eIM, download of the bound profile      *)
(* package, consent, installation segment by segment, automatic enabling,  *)
(* delivery and removal of the installation result, and the cancellation   *)
(* of the session when something fails.                                    *)
(*                                                                         *)
(* Every call to the eUICC and to the eIM is one step.  The SM-DP+ is      *)
(* reached through the eIM only and is one with it here.                   *)
(***************************************************************************)
EXTENDS Integers

CONSTANTS
  EmuEnabled,     \* cfg->iot_euicc_emu_enabled: EnableUsingDD is emulated
  ConsentCb,      \* cfg->prfle_inst_consent_cb is set
  Triggers,       \* the download triggers, each stands for its activation code
  NoTrigger,      \* no trigger in hand; no session context collected
  Profile,        \* [Triggers -> profiles]: what is downloaded
  NoProfile,
  SmdpOid, SmdpAddress, \* [Triggers -> values]: the SM-DP+ behind it
  Ca,             \* [Triggers -> root CAs]: who certified that SM-DP+
  EuiccCas,       \* root CAs the eUICC trusts
  AllowedCa,      \* the one the eIM configuration allows, or NoCa
  NoCa,
  AutoEnableCfgs, \* the configurations of automatic enabling the eIM sends
  Absent,         \* an optional member of one that is NULL
  AuthAnswers,    \* how the eIM may answer AuthenticateClient
  CardFaults, HttpFaults, \* what may go wrong with a call
  Segments,       \* number of segments of a bound profile package
  MaxTx,          \* bound: sessions the eIM opens
  MaxOrders,      \* bound: configurations of automatic enabling that it sends
  MaxCrashes      \* bound: crashes of the IPAd

(* "unseen": the peer does not see the request, or refuses it without an effect;
   "unheard": the peer acts on it, its answer does not arrive or is unusable;
   "emptyErr": an HTTP error status without a body, and no effect.            *)
Faults == {"unseen", "unheard"}
Tx == 1..MaxTx

ASSUME DownloadAssumption ==
  /\ EmuEnabled \in BOOLEAN /\ ConsentCb \in BOOLEAN
  /\ NoTrigger \notin Triggers /\ \A t \in Triggers : Profile[t] # NoProfile
  /\ NoCa \notin EuiccCas
  /\ \A c \in AutoEnableCfgs : c.flag \in BOOLEAN
  /\ \A t \in Triggers : SmdpOid[t] # Absent /\ SmdpAddress[t] # Absent
  /\ AuthAnswers \subseteq {"dpe", "dse", "error"}
  /\ CardFaults \subseteq Faults /\ HttpFaults \subseteq Faults \cup {"emptyErr"}
  /\ Segments \in Nat \ {0} /\ MaxTx \in Nat
  /\ MaxOrders \in Nat /\ MaxCrashes \in Nat

VARIABLES
  \* the IPAd
  pc,             \* the call it is about to make
  trigger,        \* the download in hand
  tx,             \* its transactionId; 0 as long as the IPAd does not use it
  segment,        \* the segment to load
  answer,         \* what the eUICC answered, where it is passed on to the eIM
  context,        \* ctx->iot_euicc_emu.auto_enable, by the trigger it came from
  auto_enable,    \* ctx->nvstate.iot_euicc_emu.auto_enable
  saved,          \* its copy in the nvstate file
  \* the eUICC
  card,           \* its RSP session
  fate,           \* what became of each download
  results,        \* downloads with a stored ProfileInstallationResult
  active,         \* the enabled profile
  \* the eIM
  opened,         \* the triggers of the sessions it opened, by transactionId
  open,           \* sessions that are still open
  told,           \* what it has learnt of each download
  \* history, read by the properties only
  consented,      \* sessions the user agreed to
  clean,          \* every call of this procedure was answered
  order,          \* what eIM and application last said of automatic enabling
  keptOrder,      \* the same at the last orderly stop
  orders, crashes

ipadVars == <<pc, trigger, tx, segment, answer, context>>
cfgVars == <<auto_enable, saved, order, keptOrder, orders>>
cardVars == <<card, fate, results, active>>
eimVars == <<opened, open, told>>
history == <<consented, clean, crashes>>
vars == <<ipadVars, cfgVars, cardVars, eimVars, history>>

CardOutcomes == {"ok"} \cup CardFaults
HttpOutcomes == {"ok"} \cup HttpFaults
Done(o) == o \in {"ok", "unheard"}
Call(o) == clean' = (clean /\ o = "ok") /\ UNCHANGED <<consented, crashes>>

Goto(next) == pc' = next /\ UNCHANGED <<trigger, tx, segment, answer, context>>

(* The procedure returns 0 whatever has happened; the next poll may follow. *)
End == pc' = "idle" /\ trigger' = NoTrigger /\ segment' = 0 /\ UNCHANGED <<tx, answer, context>>

(* A failure of the IPAd, of a peer or of the user ends in the cancellation. *)
CancelAtEimOnly == Goto("cancelEim")
CancelSession == Goto("cancelCard")

NoSession == [stage |-> "none", tx |-> 0]
Session(stage) == [stage |-> stage, tx |-> tx]
Cancellable == {"authenticated", "prepared", "installing"}

Off == [flag |-> FALSE, smdpOid |-> Absent, smdpAddress |-> Absent]

-----------------------------------------------------------------------------
Init ==
  /\ pc = "idle" /\ trigger = NoTrigger /\ tx = 0 /\ segment = 0
  /\ answer = "none" /\ context = NoTrigger
  /\ auto_enable = Off /\ saved = Off /\ order = Off /\ keptOrder = Off /\ orders = 0
  /\ card = NoSession /\ fate = [t \in Tx |-> "none"] /\ results = {} /\ active = NoProfile
  /\ opened = [t \in Tx |-> NoTrigger] /\ open = {} /\ told = [t \in Tx |-> "nothing"]
  /\ consented = {} /\ clean = TRUE /\ crashes = 0

(* The next start finds the configuration that is in the file. *)
ForgetContext(next) ==
  /\ pc' = next /\ trigger' = NoTrigger /\ tx' = 0 /\ segment' = 0
  /\ answer' = "none" /\ context' = NoTrigger
  /\ auto_enable' = saved' /\ order' = keptOrder' /\ UNCHANGED orders

Dies == UNCHANGED <<saved, keptOrder>> /\ ForgetContext("down")

Crash ==
  /\ pc # "down" /\ crashes < MaxCrashes /\ crashes' = crashes + 1
  /\ Dies
  /\ UNCHANGED <<cardVars, eimVars, consented, clean>>

ipa_init ==
  /\ pc = "down" /\ pc' = "idle"
  /\ UNCHANGED <<trigger, tx, segment, answer, context, cfgVars, cardVars, eimVars, history>>

(* The orderly stop saves the configuration; a crash while the file is written
   leaves one that the next start does not read.                               *)
ipa_free_ctx ==
  /\ pc = "idle"
  /\ \/ saved' = auto_enable /\ keptOrder' = order /\ UNCHANGED crashes
     \/ EmuEnabled /\ crashes < MaxCrashes /\ crashes' = crashes + 1 /\ saved' = Off /\ keptOrder' = Off
  /\ ForgetContext("down")
  /\ UNCHANGED <<cardVars, eimVars, consented, clean>>

(* A poll that executes a package with configureAutoEnable, or the reset the
   application asks for: every member is replaced.  A native eUICC keeps the
   configuration by itself.                                                    *)
ConfiguredOnly(cfg) == [cfg EXCEPT !.flag = @ \/ auto_enable.flag]
Configured(cfg) == cfg

configureAutoEnable(cfg) ==
  /\ pc = "idle" /\ orders < MaxOrders
  /\ orders' = orders + 1 /\ order' = cfg
  /\ auto_enable' = Configured(cfg)
  /\ IF EmuEnabled THEN UNCHANGED <<saved, keptOrder>> ELSE saved' = auto_enable' /\ keptOrder' = cfg
  /\ UNCHANGED <<ipadVars, cardVars, eimVars, history>>

ipa_euicc_mem_rst == configureAutoEnable(Off)

(* A poll between two downloads delivers a result the eUICC has kept and removes
   it once it is delivered; IpaPoll has this procedure call by call.            *)
AcceptedAlways(o) == TRUE
Accepted(o) == o \in {"ok", "emptyErr"}

Learns(t, o) == told' = IF Done(o) THEN [told EXCEPT ![t] = fate[t]] ELSE told

ipa_notif_delivery(t) ==
  /\ pc = "idle" /\ t \in results
  /\ \E o \in HttpOutcomes, c \in CardOutcomes :
       /\ Learns(t, o)
       /\ results' = IF Accepted(o) /\ Done(c) THEN results \ {t} ELSE results
  /\ UNCHANGED <<ipadVars, card, fate, active, opened, open, history, cfgVars>>

(* A poll that fetches a download trigger. *)
eim_pkg_exec(t) ==
  /\ pc = "idle" /\ \E s \in Tx : opened[s] = NoTrigger
  /\ pc' = "euiccInfo" /\ trigger' = t /\ tx' = 0
  /\ clean' = TRUE
  /\ UNCHANGED <<segment, answer, context, cardVars, eimVars, consented, crashes, cfgVars>>

(* A trigger without a usable activation code, or no trigger at all. *)
nothing_to_download == pc = "idle" /\ UNCHANGED vars

-----------------------------------------------------------------------------
(* ipa_proc_cmn_mtl_auth *)

(* The list of trusted CAs that is sent to the eIM must not lose its last entry. *)
restrict_euicc_info == AllowedCa = NoCa \/ AllowedCa \in EuiccCas

get_euicc_info ==
  /\ pc = "euiccInfo"
  /\ \E o \in CardOutcomes :
       /\ Call(o)
       /\ IF o = "ok" /\ restrict_euicc_info THEN Goto("challenge") ELSE End
  /\ UNCHANGED <<cardVars, eimVars, cfgVars>>

(* The challenge begins a session on the eUICC and ends the one before. *)
get_euicc_chlg ==
  /\ pc = "challenge"
  /\ \E o \in CardOutcomes :
       /\ Call(o)
       /\ card' = IF Done(o) THEN [stage |-> "challenged", tx |-> 0] ELSE card
       /\ IF o = "ok" THEN Goto("initAuth") ELSE End
  /\ UNCHANGED <<fate, results, active, eimVars, cfgVars>>

check_certificate_off(t) == TRUE
check_certificate(t) == AllowedCa = NoCa \/ Ca[t] = AllowedCa

NextTx == CHOOSE s \in Tx : opened[s] = NoTrigger

(* The eIM opens a session or answers an error.  An answer to another challenge
   or from another address is unusable, and so is one whose certificate comes
   from a CA that is not allowed: the IPAd leaves without a word.              *)
init_auth ==
  /\ pc = "initAuth"
  /\ \E o \in HttpOutcomes, granted \in BOOLEAN :
       /\ Call(o)
       /\ IF Done(o) /\ granted
          THEN opened' = [opened EXCEPT ![NextTx] = trigger] /\ open' = open \cup {NextTx}
          ELSE UNCHANGED <<opened, open>>
       /\ IF o = "ok" /\ granted /\ check_certificate(trigger)
          THEN pc' = "authServ" /\ tx' = NextTx /\ UNCHANGED <<trigger, segment, answer, context>>
          ELSE End
  /\ UNCHANGED <<cardVars, told, cfgVars>>

(* An error of the eUICC is passed on to the eIM. *)
Answered(verdict, next) ==
  pc' = next /\ answer' = (IF verdict THEN "ok" ELSE "error")
  /\ UNCHANGED <<trigger, tx, segment, context>>

auth_serv ==
  /\ pc = "authServ"
  /\ \E o \in CardOutcomes, granted \in BOOLEAN :
       /\ granted => card.stage = "challenged" /\ Ca[trigger] \in EuiccCas
       /\ Call(o)
       /\ card' = IF ~Done(o) THEN card ELSE IF granted THEN Session("authenticated") ELSE NoSession
       /\ IF o = "ok" THEN Answered(granted, "authClnt") ELSE End
  /\ UNCHANGED <<fate, results, active, eimVars, cfgVars>>

(* The eIM gives a session up: an error was reported to it, or it reports one. *)
EimFails == open' = open \ {tx} /\ told' = [told EXCEPT ![tx] = "failed"] /\ UNCHANGED opened

(* The mutual authentication takes authenticateClientOkDSe for a success, the
   download that follows reads through the pointer to authenticateClientOkDPe,
   which is NULL then: the process dies.                                       *)
auth_clnt ==
  /\ pc = "authClnt"
  /\ \E o \in HttpOutcomes, a \in AuthAnswers \cup {"error"} :
       /\ answer = "error" => a = "error"
       /\ Call(o)
       /\ IF Done(o) /\ a = "error" THEN EimFails ELSE UNCHANGED eimVars
       /\ CASE o = "ok" /\ a = "dpe" -> Goto("prepDwnld") /\ UNCHANGED cfgVars
            [] o = "ok" /\ a = "dse" -> Dies
            [] OTHER -> CancelSession /\ UNCHANGED cfgVars
  /\ UNCHANGED cardVars

-----------------------------------------------------------------------------
(* ipa_proc_prfle_dwnlod *)

prep_dwnld ==
  /\ pc = "prepDwnld"
  /\ \E o \in CardOutcomes, granted \in BOOLEAN :
       /\ granted => card = Session("authenticated")
       /\ Call(o)
       /\ card' = IF Done(o) /\ granted THEN Session("prepared") ELSE card
       /\ IF o = "ok" THEN Answered(granted, "getBpp") ELSE CancelSession
  /\ UNCHANGED <<fate, results, active, eimVars, cfgVars>>

get_bnd_prfle_pkg ==
  /\ pc = "getBpp"
  /\ \E o \in HttpOutcomes, granted \in BOOLEAN :
       /\ granted => answer = "ok"
       /\ Call(o)
       /\ IF Done(o) /\ ~granted THEN EimFails ELSE UNCHANGED eimVars
       /\ IF o = "ok" /\ granted THEN Goto("consent") ELSE CancelSession
  /\ UNCHANGED <<cardVars, cfgVars>>

(* The user is asked when a callback is set; the package is cut into segments,
   which fails when one of its sequences is empty.                            *)
prfle_inst_consent_cb ==
  /\ pc = "consent"
  /\ \E yes \in IF ConsentCb THEN BOOLEAN ELSE {TRUE}, encodable \in BOOLEAN :
       /\ consented' = IF ConsentCb /\ yes THEN consented \cup {tx} ELSE consented
       /\ IF yes /\ encodable
          THEN pc' = "load" /\ segment' = 1 /\ UNCHANGED <<trigger, tx, answer, context>>
          ELSE CancelSession
  /\ UNCHANGED <<cardVars, eimVars, clean, crashes, cfgVars>>

-----------------------------------------------------------------------------
(* ipa_proc_prfle_inst *)

(* What the eUICC makes of a segment: "more" to come, the profile is installed
   with the last one, or the installation is aborted.                         *)
Verdicts ==
  IF card \in {Session("prepared"), Session("installing")}
  THEN {"more", "aborted"} \cup (IF segment = Segments THEN {"installed"} ELSE {})
  ELSE {}

Concludes(verdict) ==
  IF verdict = "more"
  THEN card' = Session("installing") /\ UNCHANGED <<fate, results>>
  ELSE /\ card' = NoSession /\ results' = results \cup {tx}
       /\ fate' = [fate EXCEPT ![tx] = verdict]

(* collect_auto_enable_data_from_prfle_inst_rslt, after the data of an earlier
   installation has been dropped                                               *)
Collected(verdict) == IF EmuEnabled /\ verdict = "installed" THEN trigger ELSE NoTrigger

MoreSegmentsOffByOne == segment <= Segments
MoreSegments == segment < Segments

load_bnd_prfle_pkg ==
  /\ pc = "load"
  /\ \E o \in CardOutcomes, verdict \in Verdicts \cup {"refused"} :
       /\ Call(o)
       /\ IF Done(o) /\ verdict # "refused" THEN Concludes(verdict) ELSE UNCHANGED <<card, fate, results>>
       /\ IF o # "ok" \/ verdict = "refused"
          THEN pc' = "cancelCard" /\ context' = NoTrigger /\ UNCHANGED <<trigger, tx, segment, answer>>
          ELSE /\ context' = Collected(verdict)
               /\ CASE verdict # "more" ->
                         pc' = "autoEnable" /\ answer' = verdict /\ UNCHANGED segment
                    [] verdict = "more" /\ MoreSegments ->
                         segment' = segment + 1 /\ UNCHANGED <<pc, answer>>
                    [] OTHER -> pc' = "cancelCard" /\ UNCHANGED <<segment, answer>>
               /\ UNCHANGED <<trigger, tx>>
  /\ UNCHANGED <<active, eimVars, cfgVars>>

GrantedByOid(t) == auto_enable.flag /\ auto_enable.smdpOid \in {Absent, SmdpOid[t]}
Granted(t) ==
  /\ auto_enable.flag
  /\ auto_enable.smdpOid # Absent \/ auto_enable.smdpAddress # Absent
  /\ auto_enable.smdpOid \in {Absent, SmdpOid[t]}
  /\ auto_enable.smdpAddress \in {Absent, SmdpAddress[t]}

(* Automatic enabling is asked for with every result, also one of an abort.  The
   emulation checks what it has collected, a native eUICC what it has installed;
   nobody looks at the outcome.                                                  *)
DueFor == IF EmuEnabled THEN context ELSE IF answer = "installed" THEN trigger ELSE NoTrigger

enable_using_dd ==
  /\ pc = "autoEnable"
  /\ \/ UNCHANGED active
     \/ DueFor # NoTrigger /\ Granted(DueFor) /\ active' = Profile[DueFor]
  /\ pc' = "deliver" /\ context' = NoTrigger
  /\ UNCHANGED <<trigger, tx, segment, answer, card, fate, results, eimVars, history, cfgVars>>

handle_notif ==
  /\ pc = "deliver"
  /\ \E o \in HttpOutcomes :
       /\ Call(o)
       /\ Learns(tx, o)
       /\ open' = IF Done(o) THEN open \ {tx} ELSE open
       /\ IF Accepted(o) THEN Goto("remove") ELSE CancelSession
  /\ UNCHANGED <<cardVars, opened, cfgVars>>

rm_notif ==
  /\ pc = "remove"
  /\ \E o \in CardOutcomes :
       /\ Call(o)
       /\ results' = IF Done(o) THEN results \ {tx} ELSE results
       /\ IF o = "ok" THEN End ELSE CancelSession
  /\ UNCHANGED <<card, fate, active, eimVars, cfgVars>>

-----------------------------------------------------------------------------
(* ipa_proc_cmn_cancel_sess: the eUICC first, the eIM only with its answer *)

cancel_session_card ==
  /\ pc = "cancelCard"
  /\ \E o \in CardOutcomes :
       /\ Call(o)
       /\ LET known == card.tx = tx /\ card.stage \in Cancellable IN
            /\ IF Done(o) /\ known
               THEN card' = NoSession /\ fate' = [fate EXCEPT ![tx] = "cancelled"]
               ELSE UNCHANGED <<card, fate>>
            /\ IF o = "ok" THEN Answered(known, "cancelEim") ELSE End
  /\ UNCHANGED <<results, active, eimVars, cfgVars>>

PassedOnAsOk == "cancelled"
PassedOn == IF answer = "ok" THEN "cancelled" ELSE "unclear"

(* The eIM keeps what it knew for certain before. *)
cancel_session_eim ==
  /\ pc = "cancelEim"
  /\ \E o \in HttpOutcomes, rc \in {"ok", "error"} :
       /\ Call(o)
       /\ IF Done(o)
          THEN /\ open' = open \ {tx}
               /\ told' = [told EXCEPT ![tx] = IF @ \in {"nothing", "unclear"} THEN PassedOn ELSE @]
          ELSE UNCHANGED <<open, told>>
  /\ End
  /\ UNCHANGED <<cardVars, opened, cfgVars>>

-----------------------------------------------------------------------------
Authenticate == get_euicc_info \/ get_euicc_chlg \/ init_auth \/ auth_serv \/ auth_clnt
Download == prep_dwnld \/ get_bnd_prfle_pkg \/ prfle_inst_consent_cb
Install == load_bnd_prfle_pkg \/ enable_using_dd \/ handle_notif \/ rm_notif
CancelProcedure == cancel_session_card \/ cancel_session_eim
Procedure == Authenticate \/ Download \/ Install \/ CancelProcedure
Poll == nothing_to_download \/ (\E t \in Tx : ipa_notif_delivery(t)) \/ (\E t \in Triggers : eim_pkg_exec(t))

Configure == ipa_euicc_mem_rst \/ \E cfg \in AutoEnableCfgs : configureAutoEnable(cfg)

Next == ipa_init \/ Poll \/ Configure \/ Procedure \/ ipa_free_ctx \/ Crash

Spec == Init /\ [][Next]_vars

(* Calls return, the IPAd is started again, and a result that is offered by every
   poll is delivered and removed at last if calls succeed again and again.        *)
FairSpec ==
  /\ Spec /\ WF_vars(ipa_init) /\ WF_vars(Procedure)
  /\ \A t \in Tx : SF_vars(ipa_notif_delivery(t) /\ told'[t] = fate[t])

-----------------------------------------------------------------------------
(* Properties *)

Pcs == {"down", "idle", "euiccInfo", "challenge", "initAuth", "authServ", "authClnt", "prepDwnld",
        "getBpp", "consent", "load", "autoEnable", "deliver", "remove", "cancelCard", "cancelEim"}
Fates == {"none", "installed", "aborted", "cancelled"}
Stages == Cancellable \cup {"none", "challenged"}

(* Every variable stays in its type. *)
TypeOK ==
  /\ pc \in Pcs /\ trigger \in Triggers \cup {NoTrigger} /\ tx \in 0..MaxTx
  /\ segment \in 0..Segments /\ answer \in {"none", "ok", "error", "installed", "aborted"}
  /\ context \in Triggers \cup {NoTrigger}
  /\ {auto_enable, saved, order, keptOrder} \subseteq AutoEnableCfgs \cup {Off}
  /\ orders \in 0..MaxOrders
  /\ card \in [stage : Stages, tx : 0..MaxTx]
  /\ fate \in [Tx -> Fates] /\ results \subseteq Tx
  /\ active \in {Profile[t] : t \in Triggers} \cup {NoProfile}
  /\ opened \in [Tx -> Triggers \cup {NoTrigger}] /\ open \subseteq Tx
  /\ told \in [Tx -> (Fates \ {"none"}) \cup {"nothing", "failed", "unclear"}]
  /\ consented \subseteq Tx /\ clean \in BOOLEAN /\ crashes \in 0..MaxCrashes

(* What is installed was agreed to: by the user, in this very session, and by the
   configuration of the eIM, which may allow one root CA only.  The eUICC trusts
   the other CAs, too: it is the IPAd that has to look.                          *)
InstalledAsAgreed ==
  \A t \in Tx : fate[t] = "installed" =>
    /\ ConsentCb => t \in consented
    /\ AllowedCa # NoCa => Ca[opened[t]] = AllowedCa

(* A download that has come to the authentication of the client, and whose calls
   were all answered, leaves no session behind, neither on the eUICC nor at the
   eIM: also when one of them refused, the user said no or the package was bad.  *)
NoSessionLeft ==
  pc = "idle" /\ clean /\ tx # 0 => card.tx # tx /\ tx \notin open

(* A profile is enabled automatically only in the session that has installed it, and
   only if the last that was said of automatic enabling permits it for its SM-DP+ and
   no part of that speaks against it: what was revoked stays so, over an orderly stop
   too.  (A crash takes back what was said since the last orderly stop.)              *)
AutoEnabledAsOrdered ==
  [][ active' # active =>
        /\ trigger # NoTrigger /\ active' = Profile[trigger] /\ fate[tx] = "installed"
        /\ order.flag
        /\ order.smdpOid \in {Absent, SmdpOid[trigger]}
        /\ order.smdpAddress \in {Absent, SmdpAddress[trigger]} ]_vars

(* The eIM learns what the eUICC has decided and nothing else. *)
Downloads == INSTANCE DownloadSession
DownloadSessionSpec == Downloads!Spec

(* Once the eUICC has decided, with a result, the eIM gets to know it. *)
ResultTold == \A t \in Tx : t \in results ~> told[t] = fate[t]
=============================================================================

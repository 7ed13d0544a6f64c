------------------------------ MODULE IpaPoll ------------------------------
(***************************************************************************)
(* The poll cycle of the IPAd: ipa_poll (ipad.c) and everything it calls   *)
(* to deliver pending notifications, to fetch an eIM package and to        *)
(* execute, report and, when the report is lost, roll back an eUICC        *)
(* package (proc_notif_delivery.c, proc_eim_pkg_retr.c,                    *)
(* proc_euicc_pkg_dwnld_exec.c, es10b_load_euicc_pkg.c,                    *)
(* es10b_prfle_rollback.c).                                                *)
(*                                                                         *)
(* Every call towards the eUICC and towards the eIM is one step, so that a *)
(* crash, a lost request or a lost answer can fall between any two of      *)
(* them.  The eUICC and the eIM are environment: what they do is modelled  *)
(* from how the code uses them.                                            *)
(***************************************************************************)
EXTENDS Integers, Sequences

CONSTANTS
  EmuEnabled,     \* cfg->iot_euicc_emu_enabled: consumer eUICC, PSMOs emulated
  Profiles,       \* the profiles (ICCIDs) an eUICC package may name
  NoProfile,      \* no profile enabled; rollback_iccid == NULL
  Same,           \* a package result that claims no change of the profile
  NoRes,          \* no result in hand, ctx->proc_eucc_pkg_dwnld_exec_res == NULL
  Packages,       \* the eIM packages
  NoPackage,      \* no package in hand
  EuiccPackages,  \* those packages that carry an euiccPackageRequest
  Ops,            \* [Packages -> Seq(OpType)]: the PSMOs or ECOs of a package
  Notifying,      \* profiles whose metadata ask for notifications
  InitInstalled,  \* profiles on the eUICC at the start
  InitActive,     \* the profile enabled at the start
  InitNotifs,     \* sequence numbers of notifications pending at the start
  InitSeq,        \* the eUICC's next sequence number at the start
  CompactSeqs,    \* sequence numbers the eUICC issues in a compact form
  ErrorCodes,     \* euiccPackageErrorCode values a native eUICC may answer
  CatBusy,        \* may the eUICC refuse a profile change as busy?
  RollbackCarries,\* may a ProfileRollback answer carry the package result?
  CardFaults,     \* what may go wrong with a call to the eUICC
  HttpFaults,     \* what may go wrong with a request to the eIM
  MaxSeq,         \* bound: highest notification sequence number
  MaxOffers,      \* bound: packages the eIM hands out
  MaxCrashes      \* bound: crashes and restarts of the IPAd

(* How a call to a peer may fail.  "lostReq": the peer never saw it; "lostRes":
   the peer did it, its answer was lost; "refused": the peer did nothing and
   its answer is an error; "badRes": the peer did it, its answer cannot be
   decoded; "emptyErr": the peer did nothing and answered an HTTP error status
   with an empty body.  The first two are what raises a canary.             *)
Faults == {"lostReq", "lostRes", "refused", "badRes"}
Profile0 == Profiles \cup {NoProfile}
OpKinds == {"enable", "disable", "delete", "other"}
OpType == [op : OpKinds, iccid : Profiles, rollbackFlag : BOOLEAN]
Present == {"signed", "errorSigned", "errorUnsigned"}
ResType == [present : Present, seq : Nat, allowed : BOOLEAN,
            claim : Profile0 \cup {Same},
            rollback : {"none", "result", "bare"}]

ASSUME ConstantsAssumption ==
  /\ EmuEnabled \in BOOLEAN /\ CatBusy \in BOOLEAN
  /\ RollbackCarries \subseteq BOOLEAN /\ RollbackCarries # {}
  /\ NoProfile \notin Profiles /\ Same \notin Profile0
  /\ NoPackage \notin Packages /\ EuiccPackages \subseteq Packages
  /\ NoRes \notin ResType
  /\ Ops \in [Packages -> Seq(OpType)]
  /\ Notifying \subseteq Profiles /\ InitInstalled \subseteq Profiles
  /\ InitActive \in InitInstalled \cup {NoProfile}
  /\ MaxSeq \in Nat /\ MaxOffers \in Nat /\ MaxCrashes \in Nat
  /\ InitSeq \in 1..(MaxSeq + 1) /\ InitNotifs \subseteq 1..(InitSeq - 1)
  /\ CompactSeqs \subseteq 1..MaxSeq
  /\ ErrorCodes \subseteq Nat \ {0}
  /\ CardFaults \subseteq Faults /\ HttpFaults \subseteq Faults \cup {"emptyErr"}

VARIABLES
  \* the IPAd: all of it is lost in a crash
  pc,             \* the call ipa_poll is about to make
  pending,        \* ctx->proc_eucc_pkg_dwnld_exec_res is set
  res,            \* struct ipa_proc_eucc_pkg_dwnld_exec_res
  package,        \* the package in hand
  queue,          \* notifications or acknowledgements still to work off
  current,        \* the notification delivered last
  rollback_iccid, \* ctx->iot_euicc_emu.rollback_iccid
  check_scard, check_http, \* the canaries
  poll_rc,        \* what ipa_poll returned last
  \* the execution of a package: the IPAd's loop (emulation), the eUICC's (native)
  ops, claim,     \* PSMOs still to run; the profile the results so far claim
  \* the eUICC
  euiccBusy,      \* a native eUICC is executing a package
  active, installed,
  notifs, eprs,   \* stored notifications and eUICC package results
  nextSeq, rollbackTarget,
  \* the eIM
  todo,           \* packages without a result
  eimView,        \* the profile the eIM believes enabled
  eimBase,        \* the same when it handed out the package in hand
  delivered,      \* notifications and results it has received
  offers, crashes,
  \* history, read by the properties only
  before,         \* the profile enabled when the execution began
  processed,      \* the eIM has processed a result of this execution
  reverts,        \* rollbacks the eUICC has performed in this execution
  outcome         \* how the last poll ended

dataVars == <<pending, res, package>>
listVars == <<queue, current>>
canaries == <<check_scard, check_http>>
workVars == <<ops, claim, euiccBusy>>
profileVars == <<active, installed, rollbackTarget>>
storeVars == <<notifs, eprs, nextSeq>>
eimVars == <<todo, eimView, eimBase, delivered, offers>>
history == <<before, processed, reverts>>
vars == <<pc, dataVars, listVars, rollback_iccid, canaries, poll_rc, workVars,
          profileVars, storeVars, eimVars, crashes, history, outcome>>

(* Some operators below are preceded by a variant of the same parameters that a
   plausible mistake would make of them; no specification uses a variant, they
   serve to confirm that the properties notice the mistake.                     *)

-----------------------------------------------------------------------------
(* Calls to the peers *)

Done(o) == o \in {"ok", "lostRes", "badRes"}    \* the peer performed it
Lost(o) == o \in {"lostReq", "lostRes"}         \* communication failed

CardOutcomes == {"ok"} \cup CardFaults
HttpOutcomes == {"ok"} \cup HttpFaults

CardCall(o) == check_scard' = (check_scard \/ Lost(o)) /\ UNCHANGED check_http
HttpCall(o) == check_http' = (check_http \/ Lost(o)) /\ UNCHANGED check_scard

check_canaries_no_default(http, scard) ==
  IF http THEN "CHECK_HTTP" ELSE IF scard THEN "CHECK_SCARD" ELSE "AGAIN"

check_canaries(http, scard) ==
  IF http THEN "CHECK_HTTP" ELSE IF scard THEN "CHECK_SCARD" ELSE "EINVAL"

PollReturn(rc, how) ==
  pc' = "idle" /\ poll_rc' = rc /\ outcome' = how /\ queue' = {} /\ current' = 0

(* The poll ends and there is no execution left to continue. *)
PollEnd(rc, how) ==
  /\ PollReturn(rc, how)
  /\ pending' = FALSE /\ res' = NoRes /\ package' = NoPackage

-----------------------------------------------------------------------------
(* The eUICC: what a profile management operation does to it *)

Allowed(op) ==
  CASE op.op = "disable" -> op.iccid = active
    [] op.op \in {"enable", "delete"} -> op.iccid \in installed /\ op.iccid # active
    [] OTHER -> TRUE

(* The eUICC performs an operation (TRUE) or refuses it with an error. *)
Verdicts(op) == {b \in BOOLEAN : IF b THEN Allowed(op) ELSE CatBusy \/ ~Allowed(op)}

(* A change of a profile leaves a notification when the profile asks for it. *)
Notify(iccid) ==
  /\ IF iccid \in Notifying /\ nextSeq <= MaxSeq
     THEN notifs' = notifs \cup {nextSeq} /\ nextSeq' = nextSeq + 1
     ELSE UNCHANGED <<notifs, nextSeq>>
  /\ UNCHANGED eprs

Perform(op) ==
  /\ active' = CASE op.op = "enable" -> op.iccid
                 [] op.op = "disable" -> NoProfile
                 [] OTHER -> active
  /\ installed' = IF op.op = "delete" THEN installed \ {op.iccid} ELSE installed
  /\ rollbackTarget' = IF op.op = "enable" /\ op.rollbackFlag
                       THEN active ELSE rollbackTarget
  /\ IF op.op = "other" THEN UNCHANGED storeVars ELSE Notify(op.iccid)

(* The enable and disable results are what check_for_profile_change looks at. *)
Claimed(op) ==
  CASE op.op = "enable" -> op.iccid [] op.op = "disable" -> NoProfile [] OTHER -> claim

-----------------------------------------------------------------------------
Init ==
  /\ pc = "down" /\ pending = FALSE /\ res = NoRes /\ package = NoPackage
  /\ queue = {} /\ current = 0 /\ rollback_iccid = NoProfile
  /\ check_scard = FALSE /\ check_http = FALSE /\ poll_rc = "none"
  /\ ops = <<>> /\ claim = Same /\ euiccBusy = FALSE
  /\ active = InitActive /\ installed = InitInstalled /\ rollbackTarget = NoProfile
  /\ notifs = InitNotifs /\ eprs = {}
  /\ nextSeq = InitSeq
  /\ todo = Packages /\ eimView = InitActive /\ eimBase = InitActive
  /\ delivered = {} /\ offers = 0 /\ crashes = 0
  /\ before = InitActive /\ processed = FALSE /\ reverts = 0 /\ outcome = "none"

(* A new process: ipa_new_ctx zeroes the context, ipa_init opens the links. *)
ipa_init ==
  /\ pc = "down" /\ ~euiccBusy
  /\ pc' = "idle"
  /\ UNCHANGED <<dataVars, listVars, rollback_iccid, canaries, poll_rc, workVars,
                 profileVars, storeVars, eimVars, crashes, history, outcome>>

ForgetContext ==
  /\ pc' = "down" /\ pending' = FALSE /\ res' = NoRes /\ package' = NoPackage
  /\ queue' = {} /\ current' = 0 /\ rollback_iccid' = NoProfile
  /\ check_scard' = FALSE /\ check_http' = FALSE /\ poll_rc' = "none"
  /\ crashes < MaxCrashes /\ crashes' = crashes + 1
  /\ UNCHANGED <<profileVars, storeVars, eimVars, history>>

(* The application gives up between two polls and frees the context. *)
ipa_free_ctx ==
  /\ pc = "idle" /\ ForgetContext
  /\ outcome' = "left"
  /\ UNCHANGED workVars

(* The process dies.  A native eUICC finishes the package it is executing. *)
Crash ==
  /\ pc # "down" /\ ForgetContext
  /\ outcome' = "crashed"
  /\ IF euiccBusy THEN UNCHANGED workVars
     ELSE ops' = <<>> /\ claim' = Same /\ UNCHANGED euiccBusy

(* An open execution is finished first. *)
FirstCallAlways == "notifRetrieve"
FirstCall == IF pending THEN "retrieve" ELSE "notifRetrieve"

ipa_poll ==
  /\ pc = "idle"
  /\ check_scard' = FALSE /\ check_http' = FALSE
  /\ pc' = FirstCall
  /\ UNCHANGED <<dataVars, listVars, rollback_iccid, poll_rc, workVars,
                 profileVars, storeVars, eimVars, crashes, history, outcome>>

-----------------------------------------------------------------------------
(* Notification delivery (its result is ignored by ipa_poll) *)

(* All stored notifications are asked for.  A native eUICC that also stores
   package results may answer with a list type the code does not accept.    *)
RetrieveAll ==
  /\ pc = "notifRetrieve"
  /\ \E o \in CardOutcomes, listType \in {"notificationList", "notificationAndEprList"} :
       /\ listType = "notificationAndEprList" => eprs # {}
       /\ CardCall(o)
       /\ IF o = "ok" /\ listType = "notificationList" /\ notifs # {}
          THEN pc' = "notifSend" /\ queue' = notifs
          ELSE pc' = "fetch" /\ queue' = {}
  /\ UNCHANGED <<dataVars, current, rollback_iccid, poll_rc, workVars,
                 profileVars, storeVars, eimVars, crashes, history, outcome>>

NextNotif(rest) == pc' = (IF rest = {} THEN "fetch" ELSE "notifSend")

(* HandleNotification has no response: an empty body counts as success.  The
   two compact notification types are delivered and then skipped.           *)
AcceptedUnlessGarbled(o) == o # "badRes"
Accepted(o) == o \in {"ok", "emptyErr"}

handle_notif(n) ==
  /\ pc = "notifSend" /\ n \in queue
  /\ queue' = queue \ {n}
  /\ \E o \in HttpOutcomes :
       /\ HttpCall(o)
       /\ delivered' = IF Done(o) THEN delivered \cup {n} ELSE delivered
       /\ IF Accepted(o) /\ n \notin CompactSeqs
          THEN pc' = "notifRemove" /\ current' = n
          ELSE NextNotif(queue') /\ UNCHANGED current
  /\ UNCHANGED <<dataVars, rollback_iccid, poll_rc, workVars, profileVars, storeVars,
                 todo, eimView, eimBase, offers, crashes, history, outcome>>

(* RemoveNotificationFromList, by sequence number *)
Remove(o, seq) ==
  /\ notifs' = IF Done(o) THEN notifs \ {seq} ELSE notifs
  /\ eprs' = IF Done(o) THEN eprs \ {seq} ELSE eprs
  /\ UNCHANGED nextSeq

rm_notif ==
  /\ pc = "notifRemove"
  /\ \E o \in CardOutcomes : CardCall(o) /\ Remove(o, current)
  /\ current' = 0
  /\ NextNotif(queue)
  /\ UNCHANGED <<dataVars, queue, rollback_iccid, poll_rc, workVars, profileVars,
                 eimVars, crashes, history, outcome>>

-----------------------------------------------------------------------------
(* eIM package retrieval: ipa_proc_eim_pkg_retr and eim_pkg_exec *)

(* The eIM has an open package to hand out (bounded by MaxOffers; a native
   execution must leave room for its sequence numbers under MaxSeq).         *)
Offerable(p) ==
  /\ p \in todo /\ offers < MaxOffers
  /\ EmuEnabled \/ nextSeq + Len(Ops[p]) <= MaxSeq

get_eim_pkg_fails ==
  /\ pc = "fetch"
  /\ \E o \in HttpFaults :
       /\ HttpCall(o)
       /\ PollEnd(check_canaries(check_http', check_scard'), "noAnswer")
  /\ UNCHANGED <<rollback_iccid, workVars, profileVars, storeVars, eimVars,
                 crashes, history>>

no_eim_pkg ==
  /\ pc = "fetch" /\ ~\E p \in Packages : Offerable(p)
  /\ PollEnd("AGAIN_LATER", "noPackage")
  /\ UNCHANGED <<rollback_iccid, canaries, workVars, profileVars, storeVars, eimVars,
                 crashes, history>>

get_eim_pkg(p) ==
  /\ pc = "fetch" /\ Offerable(p)
  /\ package' = p /\ offers' = offers + 1
  /\ eimBase' = eimView
  /\ before' = active /\ processed' = FALSE /\ reverts' = 0
  /\ pc' = IF p \notin EuiccPackages THEN "otherPackage"
           ELSE IF EmuEnabled THEN "updateRollback" ELSE "load"
  /\ UNCHANGED <<pending, res, listVars, rollback_iccid, canaries, poll_rc, workVars,
                 profileVars, storeVars, todo, eimView, delivered, crashes, outcome>>

(* Data requests, download triggers and unsupported requests: the procedures
   behind them touch no state of this module but the canaries and the eIM.   *)
exec_other_pkg ==
  /\ pc = "otherPackage"
  /\ \E rc \in {0, -1}, answered \in BOOLEAN, o \in HttpOutcomes, c \in CardOutcomes :
       /\ check_http' = (check_http \/ Lost(o)) /\ check_scard' = (check_scard \/ Lost(c))
       /\ todo' = IF answered THEN todo \ {package} ELSE todo
       /\ PollEnd(IF rc = 0 THEN "AGAIN" ELSE check_canaries(check_http', check_scard'), "other")
  /\ UNCHANGED <<rollback_iccid, workVars, profileVars, storeVars, eimView, eimBase,
                 delivered, offers, crashes, history>>

-----------------------------------------------------------------------------
(* ES10b.LoadEuiccPackage, emulated on a consumer eUICC *)

RecordedOnce(o) == IF o = "ok" /\ rollback_iccid = NoProfile THEN active ELSE rollback_iccid
Recorded(o) == IF o = "ok" THEN active ELSE rollback_iccid

update_rollback_iccid ==
  /\ pc = "updateRollback"
  /\ \E o \in CardOutcomes :
       /\ CardCall(o)
       /\ rollback_iccid' = Recorded(o)
  /\ pc' = "psmo" /\ ops' = Ops[package] /\ claim' = Same
  /\ UNCHANGED <<dataVars, listVars, poll_rc, euiccBusy, profileVars, storeVars, eimVars,
                 crashes, history, outcome>>

(* One PSMO: an answer that does not arrive is reported as undefinedError. *)
do_psmo ==
  /\ pc = "psmo" /\ ops # <<>>
  /\ ops' = Tail(ops)
  /\ \E o \in CardOutcomes, granted \in Verdicts(Head(ops)) :
       /\ CardCall(o)
       /\ IF Done(o) /\ granted THEN Perform(Head(ops)) ELSE UNCHANGED <<profileVars, storeVars>>
       /\ claim' = IF o = "ok" /\ granted THEN Claimed(Head(ops)) ELSE claim
  /\ UNCHANGED <<pc, dataVars, listVars, rollback_iccid, poll_rc, euiccBusy, eimVars,
                 crashes, history, outcome>>

check_for_rollback_flag(p) ==
  \E i \in DOMAIN Ops[p] : Ops[p][i].op = "enable" /\ Ops[p][i].rollbackFlag

(* The rest of ipa_proc_eucc_pkg_dwnld_exec: a result that changed the profile
   is kept for the next poll, any other is reported at once.                 *)
Loaded(present, seq) ==
  /\ res' = [present |-> present, seq |-> seq, claim |-> claim,
             allowed |-> check_for_rollback_flag(package), rollback |-> "none"]
  /\ claim' = Same /\ ops' = <<>>
  /\ IF claim # Same
     THEN pending' = TRUE /\ PollReturn("AGAIN_WHEN_ONLINE", "switched")
     ELSE pc' = "retrieve" /\ UNCHANGED <<pending, listVars, poll_rc, outcome>>
  /\ UNCHANGED package

psmo_done ==
  /\ pc = "psmo" /\ ops = <<>>
  /\ Loaded("signed", 0)
  /\ UNCHANGED <<rollback_iccid, canaries, euiccBusy, profileVars, storeVars, eimVars,
                 crashes, history>>

-----------------------------------------------------------------------------
(* ES10b.LoadEuiccPackage on a native (IoT) eUICC *)

(* No result from the execution: eim_pkg_exec returns rc without ever having
   assigned it.  Whatever value it finds there decides what ipa_poll returns. *)
ExecFails ==
  \E rc \in {"AGAIN", "AGAIN_LATER", check_canaries(check_http', check_scard')} :
     PollEnd(rc, "failed")

(* The request does not reach the eUICC, or is refused before it executes. *)
load_fails ==
  /\ pc = "load"
  /\ \E o \in CardFaults : ~Done(o) /\ CardCall(o)
  /\ ExecFails
  /\ UNCHANGED <<rollback_iccid, workVars, profileVars, storeVars, eimVars,
                 crashes, history>>

(* The eUICC answers with a package error.  The code goes on to read a seqNumber
   from the result: in the union the code of a signed error lies in its place. *)
load_rejected ==
  /\ pc = "load"
  /\ \/ \E code \in ErrorCodes : Loaded("errorSigned", code)
     \/ Loaded("errorUnsigned", 0)
  /\ UNCHANGED <<rollback_iccid, canaries, euiccBusy, profileVars, storeVars, eimVars,
                 crashes, history>>

load_euicc_pkg ==
  /\ pc = "load"
  /\ pc' = "loading" /\ euiccBusy' = TRUE /\ ops' = Ops[package] /\ claim' = Same
  /\ UNCHANGED <<dataVars, listVars, rollback_iccid, canaries, poll_rc, profileVars,
                 storeVars, eimVars, crashes, history, outcome>>

(* The eUICC runs the package on its own, whether the IPAd waits or not. *)
euicc_psmo ==
  /\ euiccBusy /\ ops # <<>>
  /\ ops' = Tail(ops)
  /\ \E granted \in Verdicts(Head(ops)) :
       IF granted THEN Perform(Head(ops)) /\ claim' = Claimed(Head(ops))
       ELSE UNCHANGED <<profileVars, storeVars, claim>>
  /\ UNCHANGED <<pc, dataVars, listVars, rollback_iccid, canaries, poll_rc, euiccBusy,
                 eimVars, crashes, history, outcome>>

(* It stores its result under a sequence number and answers, if anyone waits. *)
euicc_done ==
  /\ euiccBusy /\ ops = <<>>
  /\ euiccBusy' = FALSE
  /\ eprs' = eprs \cup {nextSeq} /\ nextSeq' = nextSeq + 1
  /\ IF pc # "loading"
     THEN claim' = Same /\ UNCHANGED <<pc, dataVars, listVars, canaries, poll_rc, ops, outcome>>
     ELSE \/ UNCHANGED canaries /\ Loaded("signed", nextSeq)
          \/ \E o \in CardFaults : /\ Done(o) /\ CardCall(o) /\ ExecFails
                                   /\ claim' = Same /\ UNCHANGED ops
  /\ UNCHANGED <<rollback_iccid, profileVars, notifs, eimVars, crashes, history>>

-----------------------------------------------------------------------------
(* ipa_proc_eucc_pkg_dwnld_exec_onset *)

(* Its error exit: ipa_poll drops a pending result and returns an error; a result
   that was reported in the same poll makes the execution fail.               *)
OnsetFailsRetrying ==
  IF pending THEN PollReturn(check_canaries(check_http', check_scard'), "failed") /\ UNCHANGED dataVars
  ELSE ExecFails

OnsetFails ==
  IF pending THEN PollEnd(check_canaries(check_http', check_scard'), "failed") ELSE ExecFails

Requested == {res.seq}
Retrieved == {res.seq} \cap (notifs \cup eprs)

retr_notif ==
  /\ pc = "retrieve"
  /\ \E o \in CardOutcomes :
       /\ CardCall(o)
       /\ IF o = "ok"
          THEN /\ pc' = "provide" /\ queue' = Retrieved
               /\ UNCHANGED <<dataVars, current, poll_rc, outcome>>
          ELSE OnsetFails
  /\ UNCHANGED <<rollback_iccid, workVars, profileVars, storeVars, eimVars,
                 crashes, history>>

(* The result that is sent, by what the eIM learns from it: that of the rollback
   if there is one and it carries a package result, else that of LoadEuiccPackage. *)
LoadResult == IF res.claim = Same THEN eimView ELSE res.claim
ChosenResult == IF res.rollback = "result" THEN eimBase ELSE LoadResult

eim_takes_result ==
  /\ todo' = todo \ {package} /\ processed' = TRUE
  /\ delivered' = delivered \cup queue
  /\ eimView' = ChosenResult

MayRollBackOnlyOffline == res.claim # Same /\ res.allowed /\ res.rollback = "none" /\ check_http'
MayRollBack == res.claim # Same /\ res.allowed /\ res.rollback = "none"

prvde_eim_pkg_rslt ==
  /\ pc = "provide"
  /\ \E o \in HttpOutcomes :
       /\ HttpCall(o)
       /\ IF Done(o) THEN eim_takes_result ELSE UNCHANGED <<todo, processed, delivered, eimView>>
       /\ \/ /\ o = "ok"
             /\ \E acks \in SUBSET (delivered' \cap (notifs \cup eprs)) : queue' = acks
             /\ pc' = "removeResult"
             /\ UNCHANGED <<dataVars, current, poll_rc, outcome>>
          \/ /\ o # "ok" /\ MayRollBack
             /\ pc' = "rollback" /\ queue' = {}
             /\ UNCHANGED <<dataVars, current, poll_rc, outcome>>
          \/ o # "ok" /\ ~MayRollBack /\ OnsetFails
  /\ UNCHANGED <<rollback_iccid, workVars, profileVars, storeVars, eimBase, offers,
                 crashes, before, reverts>>

RollbackOp == [op |-> "enable", rollbackFlag |-> FALSE,
               iccid |-> IF EmuEnabled THEN rollback_iccid ELSE rollbackTarget]

(* The emulation duplicates the cached result and appends its own; a native eUICC
   answers with a package result of its choice or with none.                  *)
prfle_rollback ==
  /\ pc = "rollback"
  /\ \/ /\ RollbackOp.iccid = NoProfile
        /\ UNCHANGED <<canaries, profileVars, storeVars, reverts>>
        /\ OnsetFails
     \/ /\ RollbackOp.iccid # NoProfile
        /\ \E o \in CardOutcomes, granted \in Verdicts(RollbackOp) :
             /\ CardCall(o)
             /\ IF Done(o) /\ granted THEN Perform(RollbackOp) /\ reverts' = reverts + 1
                ELSE UNCHANGED <<profileVars, storeVars, reverts>>
             /\ IF o = "ok" /\ granted
                THEN /\ \E carries \in IF EmuEnabled THEN {TRUE} ELSE RollbackCarries :
                          res' = [res EXCEPT !.rollback = IF carries THEN "result" ELSE "bare"]
                     /\ PollReturn("AGAIN_WHEN_ONLINE", "rolledBack")
                     /\ UNCHANGED <<pending, package>>
                ELSE OnsetFails
  /\ UNCHANGED <<rollback_iccid, workVars, eimVars, crashes, before, processed>>

(* Removal of the package result, then of what the eIM has acknowledged; the
   first removal that fails ends the procedure with an error.                 *)
rm_result ==
  /\ pc = "removeResult"
  /\ \E o \in CardOutcomes :
       /\ CardCall(o) /\ Remove(o, res.seq)
       /\ IF o # "ok" THEN OnsetFails
          ELSE IF queue = {} THEN PollEnd("AGAIN", "confirmed")
          ELSE pc' = "removeAcked" /\ UNCHANGED <<dataVars, listVars, poll_rc, outcome>>
  /\ UNCHANGED <<rollback_iccid, workVars, profileVars, eimVars, crashes, history>>

remove_notifications(n) ==
  /\ pc = "removeAcked" /\ n \in queue
  /\ \E o \in CardOutcomes :
       /\ CardCall(o) /\ Remove(o, n)
       /\ IF o # "ok" THEN OnsetFails
          ELSE IF queue = {n} THEN PollEnd("AGAIN", "confirmed")
          ELSE queue' = queue \ {n} /\ UNCHANGED <<pc, dataVars, current, poll_rc, outcome>>
  /\ UNCHANGED <<rollback_iccid, workVars, profileVars, eimVars, crashes, history>>

-----------------------------------------------------------------------------
Seqs == 1..MaxSeq

Deliver == RetrieveAll \/ (\E n \in Seqs : handle_notif(n)) \/ rm_notif
Fetch == get_eim_pkg_fails \/ no_eim_pkg \/ (\E p \in Packages : get_eim_pkg(p)) \/ exec_other_pkg
LoadEmu == update_rollback_iccid \/ do_psmo \/ psmo_done
LoadNative == load_fails \/ load_rejected \/ load_euicc_pkg
Onset == \/ retr_notif \/ prvde_eim_pkg_rslt \/ prfle_rollback \/ rm_result
         \/ \E n \in Seqs : remove_notifications(n)
Euicc == euicc_psmo \/ euicc_done

Ipad == ipa_init \/ ipa_poll \/ Deliver \/ Fetch \/ LoadEmu \/ LoadNative \/ Onset
Next == Ipad \/ Euicc \/ ipa_free_ctx \/ Crash

Spec == Init /\ [][Next]_vars

(* The application polls again after every return (main.c) and every call to a
   peer returns, with an answer or a timeout; crashes owe nothing.            *)
FairSpec == Spec /\ WF_vars(Ipad) /\ WF_vars(Euicc)

-----------------------------------------------------------------------------
(* Properties *)

Errors == {"CHECK_HTTP", "CHECK_SCARD", "EINVAL"}
PollCodes == {"none", "AGAIN", "AGAIN_LATER", "AGAIN_WHEN_ONLINE"} \cup Errors
DeliveryPcs == {"notifRetrieve", "notifSend", "notifRemove"}
ExecPcs == {"updateRollback", "psmo", "load", "loading"}
OnsetPcs == {"retrieve", "provide", "rollback", "removeResult", "removeAcked"}
Pcs == {"down", "idle", "fetch", "otherPackage"} \cup DeliveryPcs \cup ExecPcs \cup OnsetPcs
Outcomes == {"none", "left", "crashed", "noAnswer", "noPackage", "other", "switched",
             "rolledBack", "confirmed", "failed"}

IpadType ==
  /\ pc \in Pcs /\ pending \in BOOLEAN /\ res \in ResType \cup {NoRes}
  /\ package \in Packages \cup {NoPackage}
  /\ rollback_iccid \in Profile0
  /\ check_scard \in BOOLEAN /\ check_http \in BOOLEAN /\ poll_rc \in PollCodes
ListType == queue \subseteq Seqs /\ current \in 0..MaxSeq
WorkType == ops \in Seq(OpType) /\ claim \in Profile0 \cup {Same} /\ euiccBusy \in BOOLEAN
ProfileType == active \in Profile0 /\ installed \subseteq Profiles /\ rollbackTarget \in Profile0
StoreType == notifs \subseteq Seqs /\ eprs \subseteq Seqs /\ nextSeq \in 1..(MaxSeq + 1)
EimType ==
  /\ todo \subseteq Packages /\ eimView \in Profile0 /\ eimBase \in Profile0
  /\ delivered \subseteq Seqs /\ offers \in 0..MaxOffers

(* Every variable stays in its type. *)
TypeOK ==
  /\ IpadType /\ ListType /\ WorkType /\ ProfileType /\ StoreType /\ EimType
  /\ crashes \in 0..MaxCrashes /\ reverts \in Nat /\ processed \in BOOLEAN
  /\ before \in Profile0 /\ outcome \in Outcomes

(* The application is told to poll again when it is online exactly while a switch
   of the profile is still to be reported, and no other package is executed
   meanwhile (the assert of eim_pkg_exec, that of the onset procedure).        *)
PollCodeTruthful ==
  /\ pc = "idle" => (poll_rc = "AGAIN_WHEN_ONLINE" <=> pending)
  /\ pc \in {"otherPackage"} \cup DeliveryPcs \cup ExecPcs \cup {"fetch"} => ~pending
  /\ pc \in OnsetPcs => res # NoRes
  /\ pending => res # NoRes /\ res.claim # Same

(* A stored notification or package result leaves the eUICC only after the eIM has
   received it: ipa_notif_delivery removes after a successful delivery, the onset
   procedure removes under the sequence number it retrieved and sent.          *)
RemovedOnlyDelivered ==
  [][\A n \in Seqs : (n \in notifs \cup eprs /\ n \notin notifs' \cup eprs') => n \in delivered]_vars

(* When a package execution ends confirmed, the eIM knows which profile is enabled,
   provided it knew when it handed the package out: also when its first answer was
   lost, the profile was rolled back and the result of the rollback replaced the
   result it had taken in before.                                              *)
ConfirmedViewAccurate ==
  pc = "idle" /\ outcome = "confirmed" /\ eimBase = before => eimView = active

(* After a rollback the profile that was enabled before the package is enabled. *)
RollbackRestores ==
  pending /\ res.rollback # "none" => active = before

(* A pending switch is given up without the eIM having taken in its result only when
   rollback was not allowed, when the old profile is gone or there was none, when the
   eUICC was too busy for the one attempt, or else with the old profile enabled.   *)
AbandonedSwitchUndone ==
  [][ pending /\ ~pending' /\ outcome' = "failed" /\ res.allowed /\ ~processed'
      => before \notin installed \/ active' = before \/ (CatBusy /\ pc = "rollback") ]_vars

(* A failed report of a pending switch is told to the application as an error. *)
FailedSwitchTold ==
  [][ pending /\ outcome' = "failed" => poll_rc' \in Errors ]_vars

(* The onset procedure removes the result of the package and nothing else. *)
RemovesOnlyResult ==
  [][ pc = "removeResult" => notifs' = notifs ]_vars

(* A switch that waits to be reported is not left waiting: the next polls report it,
   roll it back or give it up.                                                 *)
PendingResolved == pending ~> ~pending

(* Every notification the eUICC stores reaches the eIM, if calls to the eUICC and to
   the eIM succeed again and again: a failed delivery is repeated by a later poll.  *)
Recovering ==
  /\ SF_vars(RetrieveAll /\ pc' = "notifSend")
  /\ \A n \in Seqs : SF_vars(handle_notif(n) /\ n \in delivered')
DeliveredEventually == Recovering => \A n \in Seqs : n \in notifs ~> n \in delivered

(* The poll cycle keeps the promise of ReportCycle. *)
phase ==
  IF pending THEN IF reverts = 0 THEN "switched" ELSE IF reverts = 1 THEN "reverted" ELSE "revertedTwice"
  ELSE IF pc \in ExecPcs \cup OnsetPcs THEN "executing" ELSE "free"

told == CASE poll_rc = "AGAIN_WHEN_ONLINE" -> "whenOnline"
          [] poll_rc \in Errors -> "error"
          [] OTHER -> "continue"

Cycle == INSTANCE ReportCycle
ReportCycleSpec == Cycle!Spec

=============================================================================

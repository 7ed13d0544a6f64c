------------------------ MODULE IpaPollReportProofs ------------------------
(***************************************************************************)
(* Proofs about the report of a profile switch: that the poll cycle keeps  *)
(* the promise of ReportCycle, that the rollback restores the profile that *)
(* was enabled before the package, and that the eIM knows the enabled      *)
(* profile when a package execution ends confirmed.                        *)
(***************************************************************************)
EXTENDS IpaPollProofs

(* The eUICC performs at most one rollback in an execution, and the result in hand
   tells whether it did; what the application was told last is not a failure as long
   as a switch is pending.                                                        *)
Report ==
  /\ pc \in ExecPcs => reverts = 0
  /\ pending \/ pc \in OnsetPcs => reverts = (IF res.rollback = "none" THEN 0 ELSE 1)
  /\ pc = "rollback" => res.rollback = "none"
  /\ pending => outcome \in {"switched", "rolledBack"}

-----------------------------------------------------------------------------
(* What is assumed of the peers where the profile is concerned: calls from the
   emulation to the consumer eUICC succeed (they may be refused as busy); a native
   eUICC puts a package result into the answer of its rollback, and a package that
   allows rollback switches the profile once.                                     *)
Switching(op) == op.op \in {"enable", "disable"}

OneSwitch(list) == \A i, j \in DOMAIN list : Switching(list[i]) /\ Switching(list[j]) => i = j

Reliable ==
  IF EmuEnabled THEN CardFaults = {}
  ELSE /\ RollbackCarries = {TRUE}
       /\ \A p \in Packages : check_for_rollback_flag(p) => OneSwitch(Ops[p])

Target == IF EmuEnabled THEN rollback_iccid ELSE rollbackTarget
Reporting == pending \/ pc \in OnsetPcs

(* Which of the two ways of execution is taken, and when results are collected. *)
Mode ==
  /\ pc \in {"updateRollback", "psmo"} => EmuEnabled
  /\ pc \in {"load", "loading"} \/ euiccBusy => ~EmuEnabled
  /\ pc \notin {"psmo", "loading"} /\ ~euiccBusy => claim = Same

(* The profile that is enabled, as the results collected so far claim it. *)
Enabled ==
  /\ pc \in {"updateRollback", "load"} => active = before
  /\ pc \in {"psmo", "loading"} => active = (IF claim = Same THEN before ELSE claim)
  /\ Reporting => active = (IF res.claim = Same \/ res.rollback # "none" THEN before ELSE res.claim)
  /\ Reporting => res.rollback # "bare"

(* The profile a rollback will enable. *)
Remembered ==
  /\ pc = "psmo" => rollback_iccid = before
  /\ pc = "loading" /\ check_for_rollback_flag(package) =>
       /\ claim # Same => rollbackTarget = before /\ \A i \in DOMAIN ops : ~Switching(ops[i])
       /\ OneSwitch(ops)
       /\ \A i \in DOMAIN ops : Switching(ops[i]) => ops[i].op = "enable" /\ ops[i].rollbackFlag
  /\ Reporting /\ res.claim # Same /\ res.allowed => Target = before
  /\ pc = "rollback" => res.allowed

(* What the eIM believes. *)
View ==
  /\ pc \in ExecPcs => eimView = eimBase
  /\ Reporting /\ res.claim = Same => eimView = eimBase
  /\ pc \in {"removeResult", "removeAcked"} =>
       processed /\ (eimBase = before => eimView = active)
  /\ pc = "down" => outcome # "confirmed"
  /\ ConfirmedViewAccurate

VInv == Mode /\ Enabled /\ Remembered /\ View

(* What every step has to show: the invariant, a step of the abstract cycle or a
   stutter, and that a failed report is told.                                      *)
Kept ==
  /\ Report'
  /\ Cycle!Next \/ UNCHANGED Cycle!vars
  /\ pending /\ outcome' = "failed" => poll_rc' \in Errors

LEMMA PcSets ==
  /\ "idle" \notin ExecPcs \cup OnsetPcs /\ "down" \notin ExecPcs \cup OnsetPcs
  /\ "otherPackage" \notin ExecPcs \cup OnsetPcs /\ "fetch" \notin ExecPcs \cup OnsetPcs
  /\ DeliveryPcs \cap (ExecPcs \cup OnsetPcs) = {} /\ ExecPcs \cap OnsetPcs = {}
  /\ {"updateRollback", "psmo", "load", "loading"} \subseteq ExecPcs
  /\ {"retrieve", "provide", "rollback", "removeResult", "removeAcked"} \subseteq OnsetPcs
BY DEF ExecPcs, OnsetPcs, DeliveryPcs

(* A step that leaves the result and what was told alone, and begins no report. *)
LEMMA QuietStep ==
  ASSUME Report, UNCHANGED <<pending, res, reverts, poll_rc, outcome>>,
         pc' \in ExecPcs => pc \in ExecPcs,
         ~pending => (pc \in ExecPcs \cup OnsetPcs <=> pc' \in ExecPcs \cup OnsetPcs),
         pc' \in OnsetPcs => pending \/ pc \in OnsetPcs,
         pc' = "rollback" => res.rollback = "none"
  PROVE  Kept
<1>1. Report'
  BY DEF Report
<1>2. UNCHANGED Cycle!vars
  BY DEF Cycle!vars, phase, told
<1>3. ~(pending /\ outcome' = "failed")
  BY DEF Report
<1> QED BY <1>1, <1>2, <1>3 DEF Kept

(* A poll that ends and leaves no switch pending. *)
LEMMA EndStep ==
  ASSUME IInv, Report, ~pending', pc' = "idle", poll_rc' \in PollCodes \ {"AGAIN_WHEN_ONLINE"},
         pending => poll_rc' \in Errors \/ outcome' = "confirmed"
  PROVE  Kept
<1>1. Report'
  BY PcSets DEF Report
<1>2. phase' = "free" /\ told' \in {"continue", "error"}
  BY PcSets DEF phase, told
<1>3. CASE pending
  <2>1. phase \in Cycle!Open
    BY <1>3 DEF Report, phase, Cycle!Open
  <2>2. Cycle!Report \/ Cycle!GiveUp
    BY <1>2, <2>1 DEF Cycle!Report, Cycle!GiveUp
  <2> QED BY <1>1, <1>3, <2>2 DEF Kept, Cycle!Next
<1>4. CASE ~pending
  <2>1. phase \in {"free", "executing"}
    BY <1>4 DEF phase
  <2>2. Cycle!Finish \/ Cycle!Idle
    BY <1>2, <2>1 DEF Cycle!Finish, Cycle!Idle
  <2> QED BY <1>1, <1>4, <2>2 DEF Kept, Cycle!Next
<1> QED BY <1>3, <1>4

LEMMA PollEndStep ==
  ASSUME IInv, Report, NEW rc \in PollCodes \ {"AGAIN_WHEN_ONLINE"}, NEW how, PollEnd(rc, how),
         pending => rc \in Errors \/ how = "confirmed"
  PROVE  Kept
BY EndStep DEF PollEnd, PollReturn

LEMMA ExecFailsStep ==
  ASSUME IInv, Report, CanaryType', ExecFails, ~pending
  PROVE  Kept
<1>1. PICK rc \in {"AGAIN", "AGAIN_LATER", check_canaries(check_http', check_scard')} :
        PollEnd(rc, "failed")
  BY DEF ExecFails
<1>2. rc \in PollCodes \ {"AGAIN_WHEN_ONLINE"}
  BY <1>1, Canaries DEF CanaryType, PollCodes, Errors
<1> QED BY <1>1, <1>2, PollEndStep

LEMMA OnsetFailsStep ==
  ASSUME IInv, Report, CanaryType', OnsetFails
  PROVE  Kept
<1>1. CASE pending
  <2>1. check_canaries(check_http', check_scard') \in Errors
    BY Canaries DEF CanaryType
  <2>2. PollEnd(check_canaries(check_http', check_scard'), "failed")
    BY <1>1 DEF OnsetFails
  <2> QED BY <2>1, <2>2, PollEndStep DEF PollCodes, Errors
<1>2. CASE ~pending
  BY <1>2, ExecFailsStep DEF OnsetFails
<1> QED BY <1>1, <1>2

(* A result arrives: the execution has switched the profile or is reported now. *)
LEMMA LoadedStep ==
  ASSUME IInv, Report, pc \in {"psmo", "load", "loading"}, UNCHANGED reverts,
         NEW present, NEW seq, Loaded(present, seq)
  PROVE  Kept
<1>0. ~pending /\ reverts' = 0 /\ phase = "executing"
  <2>1. pc \in ExecPcs
    BY DEF ExecPcs
  <2>2. ~pending
    BY <2>1 DEF IInv, Control, PollCodeTruthful
  <2> QED BY <2>1, <2>2 DEF Report, phase
<1>1. res'.rollback = "none"
  BY DEF Loaded
<1>2. CASE claim # Same
  <2>1. pending' /\ pc' = "idle" /\ poll_rc' = "AGAIN_WHEN_ONLINE" /\ outcome' = "switched"
    BY <1>2 DEF Loaded, PollReturn
  <2>2. Report'
    BY <1>0, <1>1, <2>1, PcSets DEF Report
  <2>3. phase' = "switched" /\ told' = "whenOnline"
    BY <1>0, <2>1 DEF phase, told, Errors
  <2> QED BY <1>0, <2>1, <2>2, <2>3 DEF Kept, Cycle!Next, Cycle!Switch
<1>3. CASE claim = Same
  <2>1. UNCHANGED <<pending, poll_rc, outcome>> /\ pc' = "retrieve"
    BY <1>3 DEF Loaded
  <2>2. Report'
    BY <1>0, <1>1, <2>1, PcSets DEF Report
  <2>3. phase' = "executing" /\ told' = told
    BY <1>0, <2>1, PcSets DEF phase, told
  <2> QED BY <1>0, <2>1, <2>2, <2>3 DEF Kept, Cycle!vars
<1> QED BY <1>2, <1>3

LEMMA KeptByNext == ASSUME IInv, Report, Next PROVE Kept
<1> USE DEF dataVars, listVars, canaries, workVars, profileVars, storeVars, eimVars, history
<1>0. IInv'
  BY NextIInv
<1>a. CanaryType' /\ pc \in Pcs
  BY <1>0 DEF IInv, TypeOK, IpadType, CanaryType
<1>b. pc \in {"down", "otherPackage", "fetch"} \cup DeliveryPcs \cup ExecPcs => ~pending
  BY DEF IInv, Control, PollCodeTruthful
<1>1. CASE ipa_init \/ ipa_poll
  <2>1. /\ UNCHANGED <<pending, res, reverts, poll_rc, outcome>>
        /\ pc \in {"down", "idle"} /\ pc' \in {"idle", "notifRetrieve", "retrieve"}
        /\ pc' = "retrieve" => pending
    BY <1>1 DEF ipa_init, ipa_poll, FirstCall
  <2> QED BY <2>1, QuietStep DEF ExecPcs, OnsetPcs
<1>2. CASE ipa_free_ctx \/ Crash
  <2>1. /\ ForgetContext /\ UNCHANGED reverts /\ outcome' \in {"left", "crashed"}
    BY <1>2 DEF ipa_free_ctx, Crash, ForgetContext
  <2>2. pc' = "down" /\ pending' = FALSE /\ poll_rc' = "none"
    BY <2>1 DEF ForgetContext
  <2>3. phase' = "free" /\ told' = "continue"
    BY <2>2, PcSets DEF phase, told, Errors
  <2> QED BY <2>1, <2>2, <2>3, PcSets DEF Kept, Report, Cycle!Next, Cycle!Lose
<1>3. CASE Deliver
  <2>1. /\ UNCHANGED <<pending, res, reverts, poll_rc, outcome>>
        /\ pc \in DeliveryPcs /\ pc' \in DeliveryPcs \cup {"fetch"}
    <3>1. CASE RetrieveAll
      BY <3>1 DEF RetrieveAll, DeliveryPcs
    <3>2. CASE rm_notif
      BY <3>2 DEF rm_notif, NextNotif, DeliveryPcs
    <3>3. ASSUME NEW n \in Seqs, handle_notif(n)
          PROVE  /\ UNCHANGED <<pending, res, reverts, poll_rc, outcome>>
                 /\ pc \in DeliveryPcs /\ pc' \in DeliveryPcs \cup {"fetch"}
      BY <3>3 DEF handle_notif, NextNotif, DeliveryPcs
    <3> QED BY <1>3, <3>1, <3>2, <3>3 DEF Deliver
  <2>2. pc \notin ExecPcs \cup OnsetPcs /\ pc' \notin ExecPcs \cup OnsetPcs /\ pc' # "rollback"
    BY <2>1, PcSets
  <2> QED BY <2>1, <2>2, QuietStep
<1>4. CASE Fetch
  <2>1. pc \in {"fetch", "otherPackage"} /\ ~pending
    BY <1>4, <1>b DEF Fetch, get_eim_pkg_fails, no_eim_pkg, get_eim_pkg, exec_other_pkg
  <2>2. check_canaries(check_http', check_scard') \in Errors
    BY <1>a, Canaries DEF CanaryType
  <2>3. CASE get_eim_pkg_fails
    BY <2>1, <2>2, <2>3, PollEndStep DEF get_eim_pkg_fails, PollCodes, Errors
  <2>4. CASE no_eim_pkg
    BY <2>1, <2>4, PollEndStep DEF no_eim_pkg, PollCodes
  <2>5. ASSUME NEW p \in Packages, get_eim_pkg(p) PROVE Kept
    <3>1. /\ UNCHANGED <<pending, res, poll_rc, outcome>> /\ reverts' = 0
          /\ pc = "fetch" /\ pc' \in {"otherPackage", "updateRollback", "load"}
      BY <2>5 DEF get_eim_pkg
    <3>2. Report' /\ ~(pending /\ outcome' = "failed")
      BY <2>1, <3>1 DEF Report, OnsetPcs
    <3>3. phase = "free" /\ phase' \in {"free", "executing"} /\ told' = told
      BY <2>1, <3>1, PcSets DEF phase, told
    <3>4. Cycle!Start \/ UNCHANGED Cycle!vars
      BY <3>3 DEF Cycle!Start, Cycle!vars
    <3> QED BY <3>2, <3>4 DEF Kept, Cycle!Next
  <2>6. CASE exec_other_pkg
    <3>1. PICK rc \in {"AGAIN", check_canaries(check_http', check_scard')} : PollEnd(rc, "other")
      BY <2>6 DEF exec_other_pkg
    <3>2. rc \in PollCodes \ {"AGAIN_WHEN_ONLINE"}
      BY <2>2, <3>1 DEF PollCodes, Errors
    <3> QED BY <2>1, <3>1, <3>2, PollEndStep
  <2> QED BY <1>4, <2>3, <2>4, <2>5, <2>6 DEF Fetch
<1>5. CASE LoadEmu
  <2>1. CASE update_rollback_iccid \/ do_psmo
    <3>1. /\ UNCHANGED <<pending, res, reverts, poll_rc, outcome>>
          /\ pc \in {"updateRollback", "psmo"} /\ pc' = "psmo"
      BY <2>1 DEF update_rollback_iccid, do_psmo
    <3> QED BY <3>1, QuietStep DEF ExecPcs, OnsetPcs
  <2>2. CASE psmo_done
    BY <2>2, LoadedStep DEF psmo_done
  <2> QED BY <1>5, <2>1, <2>2 DEF LoadEmu
<1>6. CASE LoadNative
  <2>1. CASE load_fails
    BY <1>a, <1>b, <2>1, PcSets, ExecFailsStep DEF load_fails
  <2>2. CASE load_rejected
    BY <2>2, LoadedStep DEF load_rejected
  <2>3. CASE load_euicc_pkg
    <3>1. /\ UNCHANGED <<pending, res, reverts, poll_rc, outcome>>
          /\ pc = "load" /\ pc' = "loading"
      BY <2>3 DEF load_euicc_pkg
    <3> QED BY <3>1, QuietStep DEF ExecPcs, OnsetPcs
  <2> QED BY <1>6, <2>1, <2>2, <2>3 DEF LoadNative
<1>7. CASE Euicc
  <2>1. CASE UNCHANGED <<pc, dataVars, poll_rc, outcome>>
    <3>1. UNCHANGED <<pc, pending, res, reverts, poll_rc, outcome>>
      BY <1>7, <2>1 DEF Euicc, euicc_psmo, euicc_done
    <3> QED BY <3>1, QuietStep DEF Report
  <2>2. CASE euicc_done /\ pc = "loading"
    <3>1. UNCHANGED reverts /\ ~pending
      BY <1>b, <2>2, PcSets DEF euicc_done
    <3>2. Loaded("signed", nextSeq) \/ ExecFails
      BY <2>2 DEF euicc_done
    <3> QED BY <1>a, <2>2, <3>1, <3>2, LoadedStep, ExecFailsStep
  <2> QED BY <1>7, <2>1, <2>2 DEF Euicc, euicc_psmo, euicc_done
<1>8. CASE Onset
  <2>0. pc \in OnsetPcs
    BY <1>8 DEF Onset, retr_notif, prvde_eim_pkg_rslt, prfle_rollback, rm_result,
                remove_notifications, OnsetPcs
  <2>1. CASE OnsetFails
    BY <1>a, <2>1, OnsetFailsStep
  <2>2. CASE retr_notif /\ ~OnsetFails
    <3>1. /\ UNCHANGED <<pending, res, reverts, poll_rc, outcome>>
          /\ pc = "retrieve" /\ pc' = "provide"
      BY <2>2 DEF retr_notif
    <3> QED BY <3>1, QuietStep DEF ExecPcs, OnsetPcs
  <2>3. CASE prvde_eim_pkg_rslt /\ ~OnsetFails
    <3>1. /\ UNCHANGED <<pending, res, reverts, poll_rc, outcome>>
          /\ pc = "provide" /\ pc' \in {"removeResult", "rollback"}
          /\ pc' = "rollback" => res.rollback = "none"
      BY <2>3 DEF prvde_eim_pkg_rslt, MayRollBack
    <3> QED BY <3>1, QuietStep DEF ExecPcs, OnsetPcs
  <2>4. CASE prfle_rollback /\ ~OnsetFails
    <3>1. /\ reverts' = reverts + 1 /\ PollReturn("AGAIN_WHEN_ONLINE", "rolledBack")
          /\ UNCHANGED <<pending, package>> /\ pc = "rollback"
          /\ \E c \in {"result", "bare"} : res' = [res EXCEPT !.rollback = c]
      <4>1. PICK o \in CardOutcomes, granted \in Verdicts(RollbackOp) :
              /\ IF Done(o) /\ granted THEN Perform(RollbackOp) /\ reverts' = reverts + 1
                 ELSE UNCHANGED <<profileVars, storeVars, reverts>>
              /\ o = "ok" /\ granted
              /\ \E carries \in IF EmuEnabled THEN {TRUE} ELSE RollbackCarries :
                   res' = [res EXCEPT !.rollback = IF carries THEN "result" ELSE "bare"]
              /\ PollReturn("AGAIN_WHEN_ONLINE", "rolledBack")
              /\ UNCHANGED <<pending, package>>
        BY <2>4 DEF prfle_rollback
      <4>2. \E c \in {"result", "bare"} : res' = [res EXCEPT !.rollback = c]
        BY <4>1
      <4> QED BY <2>4, <4>1, <4>2 DEF prfle_rollback, Done
    <3>2. pending /\ reverts = 0 /\ res \in ResType
      BY <3>1 DEF Report, IInv, Control, PollCodeTruthful, TypeOK, IpadType
    <3>3. res'.rollback # "none"
      BY <3>1, <3>2 DEF ResType
    <3>4. pending' /\ reverts' = 1 /\ pc' = "idle" /\ outcome' = "rolledBack"
          /\ poll_rc' = "AGAIN_WHEN_ONLINE"
      BY <3>1, <3>2 DEF PollReturn
    <3>5. Report'
      BY <3>3, <3>4, PcSets DEF Report
    <3>6. phase = "switched" /\ phase' = "reverted" /\ told' = "whenOnline"
      BY <3>2, <3>4 DEF phase, told, Errors
    <3> QED BY <3>4, <3>5, <3>6 DEF Kept, Cycle!Next, Cycle!Revert
  <2>5. CASE (rm_result \/ \E n \in Seqs : remove_notifications(n)) /\ ~OnsetFails
    <3>1. CASE PollEnd("AGAIN", "confirmed")
      BY <3>1, PollEndStep DEF PollCodes
    <3>2. CASE ~PollEnd("AGAIN", "confirmed")
      <4>1. /\ UNCHANGED <<pending, res, reverts, poll_rc, outcome>>
            /\ pc \in {"removeResult", "removeAcked"} /\ pc' = "removeAcked"
        BY <2>5, <3>2 DEF rm_result, remove_notifications
      <4> QED BY <4>1, QuietStep DEF ExecPcs, OnsetPcs
    <3> QED BY <3>1, <3>2
  <2> QED BY <1>8, <2>1, <2>2, <2>3, <2>4, <2>5 DEF Onset
<1> QED BY <1>1, <1>2, <1>3, <1>4, <1>5, <1>6, <1>7, <1>8 DEF Next, Ipad

LEMMA KeptAlways == ASSUME IInv, Report, [Next]_vars PROVE Kept
<1>1. CASE Next
  BY <1>1, KeptByNext
<1>2. CASE UNCHANGED vars
  <2>1. UNCHANGED <<pc, pending, res, reverts, poll_rc, outcome>>
    BY <1>2 DEF vars, dataVars, history
  <2> QED BY <2>1, QuietStep DEF Report
<1> QED BY <1>1, <1>2

LEMMA InitReport == Init => Report /\ Cycle!Init
<1> SUFFICES ASSUME Init PROVE Report /\ Cycle!Init
  OBVIOUS
<1>1. Report
  BY DEF Init, Report, ExecPcs, OnsetPcs
<1>2. phase = "free" /\ told = "continue"
  BY DEF Init, phase, told, Errors, ExecPcs, OnsetPcs
<1> QED BY <1>1, <1>2 DEF Cycle!Init

(* The result in hand always tells whether the profile was rolled back. *)
THEOREM SpecReport == Spec => []Report
<1>1. IInv /\ Report /\ [Next]_vars => Report'
  BY KeptAlways DEF Kept
<1> QED BY <1>1, InitReport, SpecIInv, PTL DEF Spec

(* The poll cycle keeps the promise of ReportCycle: one execution is open at a time,
   it is reverted at most once, and the return code tells whether one is open.     *)
THEOREM PollImplementsReportCycle == Spec => ReportCycleSpec
<1>1. IInv /\ Report /\ [Next]_vars => [Cycle!Next]_(Cycle!vars)
  BY KeptAlways DEF Kept
<1> QED BY <1>1, InitReport, SpecReport, SpecIInv, PTL DEF Spec, ReportCycleSpec, Cycle!Spec

(* A failed report of a pending switch is told to the application as an error. *)
THEOREM SwitchFailureTold == Spec => FailedSwitchTold
<1>1. IInv /\ Report /\ [Next]_vars => [pending /\ outcome' = "failed" => poll_rc' \in Errors]_vars
  BY KeptAlways DEF Kept
<1> QED BY <1>1, SpecReport, SpecIInv, PTL DEF Spec, FailedSwitchTold

-----------------------------------------------------------------------------
(* A step after which nothing is executed or reported. *)
LEMMA AwayStep ==
  ASSUME ~pending', pc' \notin ExecPcs \cup OnsetPcs,
         euiccBusy' => ~EmuEnabled, ~euiccBusy' => claim' = Same,
         pc' = "down" => outcome' # "confirmed",
         pc' = "idle" /\ outcome' = "confirmed" => (eimBase' = before' => eimView' = active')
  PROVE  VInv'
<1>1. ~Reporting' /\ pc' \notin {"updateRollback", "psmo", "load", "loading", "rollback",
                                "removeResult", "removeAcked"}
  BY PcSets DEF Reporting
<1>2. Mode'
  BY <1>1 DEF Mode
<1>3. Enabled' /\ Remembered'
  BY <1>1 DEF Enabled, Remembered
<1>4. View'
  BY <1>1 DEF View, ConfirmedViewAccurate
<1> QED BY <1>2, <1>3, <1>4 DEF VInv

(* A step within a report that does not touch the profiles. *)
LEMMA ReportStep ==
  ASSUME VInv, Reporting, Reporting', pc' \in OnsetPcs, claim = Same, ~euiccBusy,
         UNCHANGED <<res, rollback_iccid, workVars, profileVars, before, eimBase>>,
         pc' = "rollback" => res.allowed,
         res.claim = Same => eimView' = eimView \/ eimView' = eimBase,
         pc' \in {"removeResult", "removeAcked"} =>
           processed' /\ (eimBase = before => eimView' = active)
  PROVE  VInv'
<1>1. pc' \notin ExecPcs \cup {"idle", "down"}
  BY PcSets
<1>a. pc' \notin {"updateRollback", "psmo", "load", "loading"}
  BY <1>1, PcSets
<1>2. Mode'
  BY <1>a DEF VInv, Mode, workVars
<1>3. Enabled'
  BY <1>a DEF VInv, Enabled, profileVars
<1>4. Remembered'
  BY <1>a DEF VInv, Remembered, Target, profileVars
<1>5. View'
  BY <1>1 DEF VInv, View, ConfirmedViewAccurate, profileVars
<1> QED BY <1>2, <1>3, <1>4, <1>5 DEF VInv

(* A procedure that ends the poll with an error. *)
LEMMA FailsAway ==
  ASSUME IInv, VInv, OnsetFails \/ ExecFails, ~euiccBusy', claim' = Same
  PROVE  VInv'
<1>1. \E rc : PollEnd(rc, "failed")
  BY DEF OnsetFails, ExecFails
<1>2. pc' = "idle" /\ ~pending' /\ outcome' = "failed"
  BY <1>1 DEF PollEnd, PollReturn
<1> QED BY <1>2, PcSets, AwayStep

(* A result arrives. *)
LEMMA LoadedView ==
  ASSUME IInv, VInv, pc \in {"psmo", "load", "loading"}, ~euiccBusy', ~pending,
         UNCHANGED <<rollback_iccid, profileVars, eimVars, history>>,
         NEW present, NEW seq, Loaded(present, seq)
  PROVE  VInv'
<1>0. /\ res'.claim = claim /\ res'.allowed = check_for_rollback_flag(package)
      /\ res'.rollback = "none" /\ claim' = Same
  BY DEF Loaded
<1>1. /\ pc' \notin ExecPcs \cup {"down", "rollback", "removeResult", "removeAcked"}
      /\ pc' = "idle" => outcome' = "switched"
  BY DEF Loaded, PollReturn, ExecPcs
<1>a. pc' \notin {"updateRollback", "psmo", "load", "loading"}
  BY <1>1, PcSets
<1>2. Mode'
  BY <1>0, <1>a DEF Mode
<1>3. active = (IF claim = Same THEN before ELSE claim) /\ eimView = eimBase
  <2>1. pc = "load" => claim = Same
    BY DEF VInv, Mode, IInv, Control
  <2>2. eimView = eimBase
    BY PcSets DEF VInv, View
  <2> QED BY <2>1, <2>2 DEF VInv, Enabled
<1>4. Enabled'
  BY <1>0, <1>3, <1>a DEF Enabled, profileVars, history
<1>5. claim # Same /\ check_for_rollback_flag(package) => Target = before
  <2>1. pc = "load" => claim = Same
    BY DEF VInv, Mode, IInv, Control
  <2>2. (pc = "psmo" => EmuEnabled) /\ (pc = "loading" => ~EmuEnabled)
    BY DEF VInv, Mode
  <2>3. pc = "psmo" => Target = before
    BY <2>2 DEF VInv, Remembered, Target
  <2>4. pc = "loading" /\ claim # Same /\ check_for_rollback_flag(package) => Target = before
    BY <2>2 DEF VInv, Remembered, Target
  <2> QED BY <2>1, <2>3, <2>4
<1>6. Target' = Target /\ before' = before
  BY DEF Target, profileVars, history
<1>7. Remembered'
  BY <1>0, <1>1, <1>a, <1>5, <1>6 DEF Remembered
<1>8. View'
  BY <1>1, <1>3 DEF View, ConfirmedViewAccurate, eimVars
<1> QED BY <1>2, <1>4, <1>7, <1>8 DEF VInv

(* A package that allows rollback has one operation that switches the profile, and
   it carries the rollback flag.                                                   *)
LEMMA FlaggedSwitch ==
  ASSUME Reliable, ~EmuEnabled, NEW p \in Packages, check_for_rollback_flag(p)
  PROVE  /\ OneSwitch(Ops[p])
         /\ \A i \in DOMAIN Ops[p] :
              Switching(Ops[p][i]) => Ops[p][i].op = "enable" /\ Ops[p][i].rollbackFlag
<1>1. OneSwitch(Ops[p])
  BY DEF Reliable
<1>2. PICK k \in DOMAIN Ops[p] : Ops[p][k].op = "enable" /\ Ops[p][k].rollbackFlag
  BY DEF check_for_rollback_flag
<1>3. \A i \in DOMAIN Ops[p] : Switching(Ops[p][i]) => i = k
  BY <1>1, <1>2 DEF OneSwitch, Switching
<1> QED BY <1>1, <1>2, <1>3

(* What the operation at the head leaves of that. *)
LEMMA SwitchDone ==
  ASSUME ops \in Seq(OpType), ops # <<>>, OneSwitch(ops)
  PROVE  /\ OneSwitch(Tail(ops))
         /\ \A i \in DOMAIN Tail(ops) : i + 1 \in DOMAIN ops /\ Tail(ops)[i] = ops[i + 1]
         /\ Switching(Head(ops)) => \A i \in DOMAIN Tail(ops) : ~Switching(Tail(ops)[i])
<1>1. /\ \A i \in DOMAIN Tail(ops) : i \in 1..(Len(ops) - 1) /\ i + 1 \in DOMAIN ops /\ Tail(ops)[i] = ops[i + 1]
      /\ 1 \in DOMAIN ops /\ Head(ops) = ops[1]
  OBVIOUS
<1>2. OneSwitch(Tail(ops))
  BY <1>1 DEF OneSwitch
<1>3. Switching(Head(ops)) => \A i \in DOMAIN Tail(ops) : ~Switching(Tail(ops)[i])
  BY <1>1 DEF OneSwitch
<1> QED BY <1>1, <1>2, <1>3

LEMMA ViewNext == ASSUME Reliable, IInv, Report, VInv, Next PROVE VInv'
<1> USE DEF dataVars, listVars, canaries, workVars, profileVars, storeVars, eimVars, history
<1>a. pc \in {"down", "otherPackage", "fetch"} \cup DeliveryPcs \cup ExecPcs => ~pending
  BY DEF IInv, Control, PollCodeTruthful
<1>b. /\ euiccBusy => pc \in {"loading", "down"} /\ ~EmuEnabled
      /\ pc \notin {"psmo", "loading"} /\ ~euiccBusy => claim = Same
  BY DEF IInv, Control, VInv, Mode
<1>c. EmuEnabled => CardOutcomes = {"ok"}
  BY DEF Reliable, CardOutcomes
<1>1. CASE ipa_init
  <2>1. /\ pc = "down" /\ pc' = "idle" /\ UNCHANGED <<pending, claim, euiccBusy, outcome>>
        /\ ~euiccBusy
    BY <1>1 DEF ipa_init
  <2>2. outcome # "confirmed"
    BY <2>1 DEF VInv, View
  <2> QED BY <1>a, <1>b, <2>1, <2>2, PcSets, AwayStep
<1>2. CASE ipa_poll
  <2>0. /\ pc = "idle" /\ pc' = FirstCall
        /\ UNCHANGED <<pending, res, rollback_iccid, workVars, profileVars, eimVars, history>>
    BY <1>2 DEF ipa_poll
  <2>1. CASE pending
    <3>1. pc' = "retrieve" /\ Reporting /\ Reporting'
      BY <2>0, <2>1 DEF FirstCall, Reporting
    <3> QED BY <1>b, <2>0, <3>1, PcSets, ReportStep
  <2>2. CASE ~pending
    <3>1. pc' = "notifRetrieve"
      BY <2>0, <2>2 DEF FirstCall
    <3> QED BY <1>b, <2>0, <2>2, <3>1, AwayStep DEF ExecPcs, OnsetPcs
  <2> QED BY <2>1, <2>2
<1>3. CASE ipa_free_ctx \/ Crash
  <2>1. /\ pc' = "down" /\ pending' = FALSE /\ outcome' \in {"left", "crashed"}
        /\ euiccBusy' = euiccBusy /\ claim' \in {claim, Same}
    BY <1>3 DEF ipa_free_ctx, Crash, ForgetContext
  <2>2. ~euiccBusy => claim' = Same
    BY <1>3, <1>b, <2>1 DEF ipa_free_ctx, Crash
  <2> QED BY <1>b, <2>1, <2>2, PcSets, AwayStep
<1>4. CASE Deliver
  <2>1. /\ UNCHANGED <<pending, claim, euiccBusy>>
        /\ pc \in DeliveryPcs /\ pc' \in DeliveryPcs \cup {"fetch"}
    <3>1. CASE RetrieveAll
      BY <3>1 DEF RetrieveAll, DeliveryPcs
    <3>2. CASE rm_notif
      BY <3>2 DEF rm_notif, NextNotif, DeliveryPcs
    <3>3. ASSUME NEW n \in Seqs, handle_notif(n)
          PROVE  /\ UNCHANGED <<pending, claim, euiccBusy>>
                 /\ pc \in DeliveryPcs /\ pc' \in DeliveryPcs \cup {"fetch"}
      BY <3>3 DEF handle_notif, NextNotif, DeliveryPcs
    <3> QED BY <1>4, <3>1, <3>2, <3>3 DEF Deliver
  <2>2. pc' \notin ExecPcs \cup OnsetPcs \cup {"idle", "down"} /\ pc \notin {"psmo", "loading"}
    BY <2>1, PcSets DEF DeliveryPcs
  <2> QED BY <1>a, <1>b, <2>1, <2>2, AwayStep
<1>5. CASE Fetch
  <2>0. /\ pc \in {"fetch", "otherPackage"} /\ ~pending /\ ~euiccBusy /\ claim = Same
        /\ UNCHANGED <<claim, euiccBusy>>
    BY <1>5, <1>a, <1>b DEF Fetch, get_eim_pkg_fails, no_eim_pkg, get_eim_pkg, exec_other_pkg
  <2>1. CASE get_eim_pkg_fails \/ no_eim_pkg \/ exec_other_pkg
    <3>1. \E rc : \E how \in {"noAnswer", "noPackage", "other"} : PollEnd(rc, how)
      BY <2>1 DEF get_eim_pkg_fails, no_eim_pkg, exec_other_pkg
    <3>2. pc' = "idle" /\ ~pending' /\ outcome' # "confirmed"
      BY <3>1 DEF PollEnd, PollReturn
    <3> QED BY <2>0, <3>2, PcSets, AwayStep
  <2>2. ASSUME NEW p \in Packages, get_eim_pkg(p) PROVE VInv'
    <3>1. /\ pending' = pending /\ eimBase' = eimView /\ eimView' = eimView
          /\ before' = active /\ active' = active
      BY <2>2 DEF get_eim_pkg
    <3>2. CASE pc' = "otherPackage"
      BY <2>0, <3>1, <3>2, PcSets, AwayStep
    <3>3. CASE pc' \in {"updateRollback", "load"}
      <4>1. ~Reporting'
        BY <2>0, <3>1, <3>3 DEF Reporting, OnsetPcs
      <4>2. Mode'
        BY <2>0, <2>2, <3>3 DEF Mode, get_eim_pkg
      <4>3. Enabled' /\ Remembered'
        BY <2>0, <3>1, <3>3, <4>1 DEF Enabled, Remembered
      <4>4. View'
        BY <3>1, <3>3, <4>1 DEF View, ConfirmedViewAccurate
      <4> QED BY <4>2, <4>3, <4>4 DEF VInv
    <3> QED BY <2>2, <3>2, <3>3 DEF get_eim_pkg
  <2> QED BY <1>5, <2>1, <2>2 DEF Fetch
<1>6. CASE LoadEmu
  <2>0. pc \in {"updateRollback", "psmo"} /\ EmuEnabled /\ ~pending /\ ~euiccBusy
    <3>1. pc \in {"updateRollback", "psmo"}
      BY <1>6 DEF LoadEmu, update_rollback_iccid, do_psmo, psmo_done
    <3>2. EmuEnabled
      BY <3>1 DEF VInv, Mode
    <3> QED BY <1>a, <1>b, <3>1, <3>2, PcSets
  <2>1. CASE update_rollback_iccid
    <3>1. /\ pc = "updateRollback" /\ pc' = "psmo" /\ claim' = Same /\ rollback_iccid' = active
          /\ UNCHANGED <<pending, euiccBusy, profileVars, eimVars, history>>
      BY <1>c, <2>0, <2>1 DEF update_rollback_iccid, Recorded
    <3>2. active = before /\ eimView = eimBase
      BY <3>1, PcSets DEF VInv, Enabled, View
    <3>3. ~Reporting'
      BY <2>0, <3>1 DEF Reporting, OnsetPcs
    <3>4. Mode' /\ Enabled' /\ Remembered'
      BY <2>0, <3>1, <3>2, <3>3 DEF Mode, Enabled, Remembered
    <3>5. View'
      BY <3>1, <3>2, <3>3 DEF View, ConfirmedViewAccurate
    <3> QED BY <3>4, <3>5 DEF VInv
  <2>2. CASE do_psmo
    <3>1. PICK granted \in Verdicts(Head(ops)) :
            /\ IF granted THEN Perform(Head(ops)) ELSE UNCHANGED <<profileVars, storeVars>>
            /\ claim' = IF granted THEN Claimed(Head(ops)) ELSE claim
      BY <1>c, <2>0, <2>2 DEF do_psmo, Done
    <3>2. /\ pc = "psmo" /\ pc' = "psmo"
          /\ UNCHANGED <<pending, rollback_iccid, euiccBusy, eimVars, history>>
      BY <2>2 DEF do_psmo
    <3>3. Head(ops) \in OpType
      BY <2>2, NextOp DEF do_psmo, IInv, TypeOK, WorkType
    <3>4. active' = (IF claim' = Same THEN before ELSE claim')
      <4>1. active = (IF claim = Same THEN before ELSE claim)
        BY <3>2 DEF VInv, Enabled
      <4>2. CASE ~granted
        BY <3>1, <4>1, <4>2
      <4>3. CASE granted
        BY <3>1, <3>3, <4>1, <4>3, ConstantsAssumption DEF Perform, Claimed, OpType, OpKinds, Profile0
      <4> QED BY <4>2, <4>3
    <3>5. ~Reporting'
      BY <2>0, <3>2 DEF Reporting, OnsetPcs
    <3>6. Mode'
      BY <2>0, <3>2 DEF Mode
    <3>7. Enabled'
      BY <3>2, <3>4, <3>5 DEF Enabled
    <3>8. Remembered'
      BY <3>2, <3>5 DEF VInv, Remembered
    <3>9. View'
      BY <3>2, <3>5, PcSets DEF VInv, View, ConfirmedViewAccurate
    <3> QED BY <3>6, <3>7, <3>8, <3>9 DEF VInv
  <2>3. CASE psmo_done
    BY <2>0, <2>3, LoadedView DEF psmo_done
  <2> QED BY <1>6, <2>1, <2>2, <2>3 DEF LoadEmu
<1>7. CASE LoadNative
  <2>0. pc = "load" /\ ~EmuEnabled /\ ~pending /\ ~euiccBusy /\ claim = Same
    <3>1. pc = "load"
      BY <1>7 DEF LoadNative, load_fails, load_rejected, load_euicc_pkg
    <3>2. ~EmuEnabled
      BY <3>1 DEF VInv, Mode
    <3> QED BY <1>a, <1>b, <3>1, <3>2, PcSets
  <2>1. CASE load_fails
    BY <2>0, <2>1, FailsAway DEF load_fails
  <2>2. CASE load_rejected
    <3>1. UNCHANGED <<rollback_iccid, profileVars, eimVars, history, euiccBusy>>
      BY <2>2 DEF load_rejected
    <3>2. PICK present, seq : Loaded(present, seq)
      BY <2>2 DEF load_rejected
    <3> QED BY <2>0, <3>1, <3>2, LoadedView
  <2>3. CASE load_euicc_pkg
    <3>1. /\ pc' = "loading" /\ euiccBusy' /\ ops' = Ops[package] /\ claim' = Same
          /\ UNCHANGED <<pending, package, profileVars, eimVars, history>>
      BY <2>3 DEF load_euicc_pkg
    <3>2. active = before /\ eimView = eimBase
      BY <2>0, PcSets DEF VInv, Enabled, View
    <3>3. ~Reporting'
      BY <2>0, <3>1 DEF Reporting, OnsetPcs
    <3>4. package \in Packages
      BY <2>0, PcSets DEF IInv, Control
    <3>5. Mode' /\ Enabled'
      BY <2>0, <3>1, <3>2, <3>3 DEF Mode, Enabled
    <3>6. check_for_rollback_flag(package) =>
            /\ OneSwitch(ops')
            /\ \A i \in DOMAIN ops' : Switching(ops'[i]) => ops'[i].op = "enable" /\ ops'[i].rollbackFlag
      BY <2>0, <3>1, <3>4, FlaggedSwitch
    <3>7. check_for_rollback_flag(package)' <=> check_for_rollback_flag(package)
      BY <3>1 DEF check_for_rollback_flag
    <3>8. Remembered'
      BY <3>1, <3>3, <3>6, <3>7 DEF Remembered, OneSwitch
    <3>9. View'
      BY <3>1, <3>2, <3>3 DEF View, ConfirmedViewAccurate
    <3> QED BY <3>5, <3>8, <3>9 DEF VInv
  <2> QED BY <1>7, <2>1, <2>2, <2>3 DEF LoadNative
<1>8. CASE Euicc
  <2>0. euiccBusy /\ ~EmuEnabled /\ pc \in {"loading", "down"} /\ ~pending
    <3>1. euiccBusy
      BY <1>8 DEF Euicc, euicc_psmo, euicc_done
    <3> QED BY <1>a, <1>b, <3>1, PcSets
  <2>1. CASE pc = "down"
    <3>1. /\ UNCHANGED <<pc, pending, outcome>> /\ euiccBusy' \in BOOLEAN
          /\ ~euiccBusy' => claim' = Same
      BY <1>8, <2>0, <2>1 DEF Euicc, euicc_psmo, euicc_done
    <3>2. outcome # "confirmed"
      BY <2>1 DEF VInv, View
    <3> QED BY <2>0, <2>1, <3>1, <3>2, PcSets, AwayStep
  <2>2. CASE pc = "loading" /\ euicc_psmo
    <3>1. PICK granted \in Verdicts(Head(ops)) :
            IF granted THEN Perform(Head(ops)) /\ claim' = Claimed(Head(ops))
            ELSE UNCHANGED <<profileVars, storeVars, claim>>
      BY <2>2 DEF euicc_psmo
    <3>2. /\ pc' = "loading" /\ ops # <<>> /\ ops' = Tail(ops)
          /\ UNCHANGED <<pending, package, euiccBusy, eimVars, history>>
      BY <2>2 DEF euicc_psmo
    <3>3. Head(ops) \in OpType /\ ops \in Seq(OpType)
      BY <3>2, NextOp DEF IInv, TypeOK, WorkType
    <3>4. active = (IF claim = Same THEN before ELSE claim)
      BY <2>2 DEF VInv, Enabled
    <3>5. active' = (IF claim' = Same THEN before ELSE claim')
      <4>1. CASE ~granted
        BY <3>1, <3>4, <4>1
      <4>2. CASE granted
        BY <3>1, <3>3, <3>4, <4>2, ConstantsAssumption DEF Perform, Claimed, OpType, OpKinds, Profile0
      <4> QED BY <4>1, <4>2
    <3>6. ~Reporting'
      BY <2>0, <3>2 DEF Reporting, OnsetPcs
    <3>7. Mode' /\ Enabled'
      BY <2>0, <3>2, <3>5, <3>6 DEF Mode, Enabled
    <3>8. check_for_rollback_flag(package)' <=> check_for_rollback_flag(package)
      BY <3>2 DEF check_for_rollback_flag
    <3>9. ASSUME check_for_rollback_flag(package)
          PROVE  /\ claim' # Same => rollbackTarget' = before /\ \A i \in DOMAIN ops' : ~Switching(ops'[i])
                 /\ OneSwitch(ops')
                 /\ \A i \in DOMAIN ops' : Switching(ops'[i]) => ops'[i].op = "enable" /\ ops'[i].rollbackFlag
      <4>1. /\ claim # Same => rollbackTarget = before /\ \A i \in DOMAIN ops : ~Switching(ops[i])
            /\ OneSwitch(ops)
            /\ \A i \in DOMAIN ops : Switching(ops[i]) => ops[i].op = "enable" /\ ops[i].rollbackFlag
        BY <2>2, <3>9 DEF VInv, Remembered
      <4>2. /\ OneSwitch(Tail(ops))
            /\ \A i \in DOMAIN Tail(ops) : i + 1 \in DOMAIN ops /\ Tail(ops)[i] = ops[i + 1]
            /\ Switching(Head(ops)) => \A i \in DOMAIN Tail(ops) : ~Switching(Tail(ops)[i])
        BY <3>2, <3>3, <4>1, SwitchDone
      <4>3. 1 \in DOMAIN ops /\ Head(ops) = ops[1]
        BY <3>2, <3>3
      <4>4. CASE ~granted \/ ~Switching(Head(ops))
        <5>1. claim' = claim /\ rollbackTarget' = rollbackTarget
          BY <3>1, <4>4 DEF Claimed, Perform, Switching
        <5> QED BY <3>2, <4>1, <4>2, <5>1
      <4>5. CASE granted /\ Switching(Head(ops))
        <5>1. Head(ops).op = "enable" /\ Head(ops).rollbackFlag /\ claim = Same
          BY <4>1, <4>3, <4>5
        <5>2. rollbackTarget' = active /\ active = before
          BY <3>1, <3>4, <4>5, <5>1 DEF Perform
        <5> QED BY <3>2, <4>1, <4>2, <4>5, <5>2
      <4> QED BY <4>4, <4>5
    <3>10. Remembered'
      BY <3>2, <3>6, <3>8, <3>9 DEF Remembered, OneSwitch
    <3>11. View'
      BY <2>2, <3>2, <3>6, PcSets DEF VInv, View, ConfirmedViewAccurate
    <3> QED BY <3>7, <3>10, <3>11 DEF VInv
  <2>3. CASE pc = "loading" /\ euicc_done
    <3>1. /\ UNCHANGED <<rollback_iccid, profileVars, eimVars, history>> /\ ~euiccBusy'
          /\ Loaded("signed", nextSeq) \/ (ExecFails /\ claim' = Same)
      BY <2>3 DEF euicc_done
    <3> QED BY <2>0, <2>3, <3>1, LoadedView, FailsAway
  <2> QED BY <1>8, <2>0, <2>1, <2>2, <2>3 DEF Euicc
<1>9. CASE Onset
  <2>0. /\ pc \in OnsetPcs /\ Reporting /\ claim = Same /\ ~euiccBusy
        /\ UNCHANGED <<workVars, rollback_iccid, before, eimBase>>
    <3>1. pc \in {"retrieve", "provide", "rollback", "removeResult", "removeAcked"}
      BY <1>9 DEF Onset, retr_notif, prvde_eim_pkg_rslt, prfle_rollback, rm_result,
                  remove_notifications
    <3>2. UNCHANGED <<workVars, rollback_iccid, before, eimBase>>
      BY <1>9 DEF Onset, retr_notif, prvde_eim_pkg_rslt, prfle_rollback, rm_result,
                  remove_notifications
    <3> QED BY <1>b, <3>1, <3>2, PcSets DEF Reporting
  <2>1. CASE OnsetFails
    BY <2>0, <2>1, FailsAway
  <2>2. CASE retr_notif /\ ~OnsetFails
    <3>1. /\ UNCHANGED <<pending, res, profileVars, eimVars>> /\ pc' = "provide"
      BY <2>2 DEF retr_notif
    <3> QED BY <2>0, <3>1, PcSets, ReportStep DEF Reporting
  <2>3. CASE prvde_eim_pkg_rslt /\ ~OnsetFails
    <3>1. PICK o \in HttpOutcomes :
            /\ IF Done(o) THEN eim_takes_result ELSE UNCHANGED <<todo, processed, delivered, eimView>>
            /\ \/ o = "ok" /\ pc' = "removeResult"
               \/ o # "ok" /\ MayRollBack /\ pc' = "rollback"
      BY <2>3 DEF prvde_eim_pkg_rslt
    <3>2. UNCHANGED <<pending, res, profileVars>>
      BY <2>3 DEF prvde_eim_pkg_rslt
    <3>3. /\ active = (IF res.claim = Same \/ res.rollback # "none" THEN before ELSE res.claim)
          /\ res.rollback # "bare" /\ (res.claim = Same => eimView = eimBase)
      BY <2>0 DEF VInv, Enabled, View
    <3>4. res.claim = Same => eimView' = eimView \/ eimView' = eimBase
      BY <3>1 DEF eim_takes_result, ChosenResult, LoadResult
    <3>5. pc' = "removeResult" => processed' /\ (eimBase = before => eimView' = active)
      <4>1. res.rollback \in {"none", "result"}
        <5>1. res \in ResType
          BY <2>0 DEF IInv, Control, PollCodeTruthful, TypeOK, IpadType
        <5> QED BY <3>3, <5>1 DEF ResType
      <4> QED BY <3>1, <3>3, <4>1 DEF eim_takes_result, ChosenResult, LoadResult, Done
    <3>6. pc' \in OnsetPcs /\ Reporting' /\ pc' # "removeAcked" /\ (pc' = "rollback" => res.allowed)
      BY <3>1, PcSets DEF Reporting, MayRollBack
    <3> QED BY <2>0, <3>2, <3>4, <3>5, <3>6, ReportStep
  <2>4. CASE prfle_rollback /\ ~OnsetFails
    <3>1. PICK carries \in (IF EmuEnabled THEN {TRUE} ELSE RollbackCarries) :
              /\ Perform(RollbackOp)
              /\ res' = [res EXCEPT !.rollback = IF carries THEN "result" ELSE "bare"]
              /\ PollReturn("AGAIN_WHEN_ONLINE", "rolledBack")
              /\ UNCHANGED pending
      BY <2>4 DEF prfle_rollback, Done
    <3>2. carries /\ pc = "rollback" /\ UNCHANGED eimVars
      BY <2>4, <3>1 DEF prfle_rollback, Reliable
    <3>3. pending /\ res \in ResType /\ res.claim # Same /\ res.allowed
      BY <3>2 DEF IInv, Control, PollCodeTruthful, TypeOK, IpadType, VInv, Remembered
    <3>4. /\ res'.rollback = "result" /\ res'.claim = res.claim /\ res'.allowed = res.allowed
      BY <3>1, <3>2, <3>3 DEF ResType
    <3>5. Target = before
      BY <2>0, <3>3 DEF VInv, Remembered
    <3>6. active' = before /\ rollbackTarget' = rollbackTarget
      BY <3>1, <3>5 DEF Perform, RollbackOp, Target
    <3>7. pc' = "idle" /\ outcome' = "rolledBack" /\ pending'
      BY <3>1, <3>3 DEF PollReturn
    <3>8. Mode' /\ Enabled'
      BY <2>0, <3>4, <3>6, <3>7 DEF Mode, Enabled
    <3>9. Remembered'
      BY <2>0, <3>4, <3>5, <3>6, <3>7 DEF Remembered, Target
    <3>10. View'
      BY <3>2, <3>3, <3>4, <3>7, PcSets DEF View, ConfirmedViewAccurate
    <3> QED BY <3>8, <3>9, <3>10 DEF VInv
  <2>5. CASE (rm_result \/ \E n \in Seqs : remove_notifications(n)) /\ ~OnsetFails
    <3>0. /\ UNCHANGED <<profileVars, eimVars, history>> /\ pc \in {"removeResult", "removeAcked"}
      BY <2>5 DEF rm_result, remove_notifications
    <3>a. processed /\ (eimBase = before => eimView = active)
      BY <3>0 DEF VInv, View
    <3>1. CASE PollEnd("AGAIN", "confirmed")
      <4>1. pc' = "idle" /\ ~pending'
        BY <3>1 DEF PollEnd, PollReturn
      <4> QED BY <2>0, <3>0, <3>a, <4>1, PcSets, AwayStep
    <3>2. CASE ~PollEnd("AGAIN", "confirmed")
      <4>1. UNCHANGED <<pending, res>> /\ pc' = "removeAcked"
        BY <2>5, <3>2 DEF rm_result, remove_notifications
      <4> QED BY <2>0, <3>0, <3>a, <4>1, PcSets, ReportStep DEF Reporting
    <3> QED BY <3>1, <3>2
  <2> QED BY <1>9, <2>1, <2>2, <2>3, <2>4, <2>5 DEF Onset
<1> QED BY <1>1, <1>2, <1>3, <1>4, <1>5, <1>6, <1>7, <1>8, <1>9 DEF Next, Ipad
LEMMA ViewAlways == ASSUME Reliable, IInv, Report, VInv, [Next]_vars PROVE VInv'
<1>1. CASE Next
  BY <1>1, ViewNext
<1>2. CASE UNCHANGED vars
  <2> USE <1>2 DEF vars, dataVars, listVars, workVars, profileVars, eimVars, history
  <2>1. Mode' /\ Enabled'
    BY DEF VInv, Mode, Enabled, Reporting
  <2>2. Remembered'
    BY DEF VInv, Remembered, Reporting, Target, OneSwitch, check_for_rollback_flag
  <2>3. View'
    BY DEF VInv, View, Reporting, ConfirmedViewAccurate
  <2> QED BY <2>1, <2>2, <2>3 DEF VInv
<1> QED BY <1>1, <1>2

LEMMA InitView == Init => VInv
<1> SUFFICES ASSUME Init PROVE VInv
  OBVIOUS
<1>1. pc = "down" /\ ~pending /\ ~euiccBusy /\ claim = Same /\ outcome = "none"
  BY DEF Init
<1> QED BY <1>1, PcSets DEF VInv, Mode, Enabled, Remembered, View, Reporting, ConfirmedViewAccurate

(* With reliable peers the results in hand describe the profile that is enabled. *)
THEOREM SpecView == ASSUME Reliable PROVE Spec => []VInv
<1>1. Init => VInv
  BY InitView
<1>2. IInv /\ Report /\ VInv /\ [Next]_vars => VInv'
  BY ViewAlways
<1> QED BY <1>1, <1>2, SpecReport, SpecIInv, PTL DEF Spec

(* When a package execution ends confirmed, the eIM knows which profile is enabled,
   if it knew when it handed the package out.                                     *)
THEOREM ConfirmationsTrue == ASSUME Reliable PROVE Spec => []ConfirmedViewAccurate
<1>1. VInv => ConfirmedViewAccurate
  BY DEF VInv, View
<1> QED BY <1>1, SpecView, PTL

(* After a rollback the profile that was enabled before the package is enabled. *)
THEOREM RollbacksRestore == ASSUME Reliable PROVE Spec => []RollbackRestores
<1>1. VInv => RollbackRestores
  BY DEF VInv, Enabled, Reporting, RollbackRestores
<1> QED BY <1>1, SpecView, PTL

(* What a step must show when it gives a pending switch up. *)
GivenUp ==
  pending /\ ~pending' /\ outcome' = "failed" /\ res.allowed /\ ~processed'
    => before \notin installed \/ active' = before \/ (CatBusy /\ pc = "rollback")

LEMMA GivenUpStep ==
  ASSUME Reliable, CardFaults = {}, IInv, Report, VInv, [Next]_vars
  PROVE  GivenUp
<1> SUFFICES ASSUME pending, ~pending', outcome' = "failed", res.allowed, ~processed'
             PROVE  before \notin installed \/ active' = before \/ (CatBusy /\ pc = "rollback")
  BY DEF GivenUp
<1> USE DEF dataVars, listVars, canaries, workVars, profileVars, storeVars, eimVars, history
<1>a. CardOutcomes = {"ok"}
  BY DEF CardOutcomes
<1>b. /\ pc \notin {"down", "otherPackage", "fetch"} \cup DeliveryPcs \cup ExecPcs
      /\ res.claim # Same
  BY DEF IInv, Control, PollCodeTruthful
<1>c. pc \in {"removeResult", "removeAcked"} => processed
  BY DEF VInv, View
<1>d. res.rollback # "none" => active = before
  BY DEF VInv, Enabled, Reporting
<1>e. Target = before
  BY <1>b DEF VInv, Remembered, Reporting
<1>1. Onset
  <2>1. Next
    BY DEF vars
  <2>2. ~(ipa_init \/ ipa_poll \/ ipa_free_ctx \/ Crash)
    BY <1>b DEF ipa_init, ipa_poll, ipa_free_ctx, Crash
  <2>3. ~Deliver
    BY <1>b DEF Deliver, RetrieveAll, rm_notif, handle_notif, DeliveryPcs
  <2>4. ~Fetch
    BY <1>b DEF Fetch, get_eim_pkg_fails, no_eim_pkg, get_eim_pkg, exec_other_pkg
  <2>5. ~LoadEmu /\ ~LoadNative
    BY <1>b, PcSets DEF LoadEmu, update_rollback_iccid, do_psmo, psmo_done,
                        LoadNative, load_fails, load_rejected, load_euicc_pkg
  <2>6. ~Euicc
    BY <1>b, PcSets DEF IInv, Control, Euicc, euicc_psmo, euicc_done
  <2> QED BY <2>1, <2>2, <2>3, <2>4, <2>5, <2>6 DEF Next, Ipad
<1>2. ~retr_notif
  BY <1>a DEF retr_notif
<1>3. ~rm_result /\ ~\E n \in Seqs : remove_notifications(n)
  BY <1>a, <1>c DEF rm_result, remove_notifications
<1>4. CASE prvde_eim_pkg_rslt
  <2>1. ~MayRollBack /\ active' = active
    BY <1>4 DEF prvde_eim_pkg_rslt
  <2> QED BY <1>b, <1>d, <2>1 DEF MayRollBack
<1>5. CASE prfle_rollback
  <2>1. pc = "rollback" /\ RollbackOp.iccid = before /\ RollbackOp.op = "enable"
    BY <1>5, <1>e DEF prfle_rollback, RollbackOp, Target
  <2>2. CASE before = NoProfile
    BY <2>2, ConstantsAssumption DEF IInv, TypeOK, ProfileType
  <2>3. CASE before # NoProfile
    <3>1. PICK o \in CardOutcomes, granted \in Verdicts(RollbackOp) :
            /\ IF Done(o) /\ granted THEN Perform(RollbackOp) /\ reverts' = reverts + 1
               ELSE UNCHANGED <<profileVars, storeVars, reverts>>
            /\ IF o = "ok" /\ granted
               THEN PollReturn("AGAIN_WHEN_ONLINE", "rolledBack") ELSE OnsetFails
      BY <1>5, <2>1, <2>3 DEF prfle_rollback
    <3>2. ~granted /\ active' = active
      BY <1>a, <3>1 DEF PollReturn
    <3>3. CatBusy \/ ~Allowed(RollbackOp)
      BY <3>2 DEF Verdicts
    <3>4. Allowed(RollbackOp) <=> before \in installed /\ before # active
      BY <2>1 DEF Allowed
    <3> QED BY <2>1, <3>2, <3>3, <3>4
  <2> QED BY <2>2, <2>3
<1> QED BY <1>1, <1>2, <1>3, <1>4, <1>5 DEF Onset

(* A pending switch whose result the eIM has not taken in is given up only where
   rollback is not allowed, where the old profile is gone or there was none, where the
   eUICC was too busy for the one attempt, or else with the old profile enabled: for
   all packages and all losses on the way to the eIM.                               *)
THEOREM GivenUpUndone ==
  ASSUME Reliable, CardFaults = {}
  PROVE  Spec => AbandonedSwitchUndone
<1>1. IInv /\ Report /\ VInv /\ [Next]_vars
      => [ pending /\ ~pending' /\ outcome' = "failed" /\ res.allowed /\ ~processed'
             => before \notin installed \/ active' = before \/ (CatBusy /\ pc = "rollback") ]_vars
  BY GivenUpStep DEF GivenUp
<1> QED BY <1>1, SpecView, SpecReport, SpecIInv, PTL DEF Spec, AbandonedSwitchUndone
=============================================================================

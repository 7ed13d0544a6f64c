--------------------------- MODULE IpaPollProofs ---------------------------
(***************************************************************************)
(* Proofs about IpaPoll, for every value of its constants: the types, the  *)
(* control invariant behind the return codes of ipa_poll, and that what is *)
(* removed from the eUICC was delivered before.                            *)
(***************************************************************************)
EXTENDS IpaPoll, SequenceTheorems, TLAPS

(* Control: which data the procedures may rely on at each of their calls. *)
Control ==
  /\ PollCodeTruthful
  /\ pc = "down" => ~pending /\ poll_rc = "none"
  /\ pc \in OnsetPcs /\ ~pending => res.claim = Same
  /\ pc = "rollback" => pending
  /\ pc \in ExecPcs \cup {"otherPackage"} => package \in Packages
  /\ euiccBusy => pc \in {"loading", "down"}

(* A native execution has room for the sequence numbers it will use. *)
SeqRoom ==
  /\ pc = "load" => ~EmuEnabled /\ nextSeq + Len(Ops[package]) <= MaxSeq
  /\ euiccBusy => nextSeq + Len(ops) <= MaxSeq

IInv == TypeOK /\ Control /\ SeqRoom

LEMMA Canaries == \A h, s \in BOOLEAN : check_canaries(h, s) \in Errors
BY DEF check_canaries, Errors

LEMMA OpsType == \A p \in Packages : Ops[p] \in Seq(OpType)
BY ConstantsAssumption

LEMMA NextOp == ASSUME ops \in Seq(OpType), ops # <<>>
                PROVE  /\ Head(ops) \in OpType /\ Tail(ops) \in Seq(OpType)
                       /\ Len(Tail(ops)) = Len(ops) - 1
BY HeadTailProperties

LEMMA InitIInv == Init => IInv
<1> SUFFICES ASSUME Init PROVE IInv
  OBVIOUS
<1> USE ConstantsAssumption DEF Init
<1>1. IpadType
  BY DEF IpadType, Pcs, PollCodes, Profile0
<1>2. ListType
  BY DEF ListType
<1>a. <<>> \in Seq(OpType)
  OBVIOUS
<1>b. WorkType
  BY <1>a DEF WorkType
<1>3. ProfileType
  BY DEF ProfileType, Profile0
<1>4. StoreType
  BY DEF StoreType, Seqs
<1>5. EimType
  BY DEF EimType, Profile0
<1>c. crashes \in 0..MaxCrashes /\ reverts \in Nat
  OBVIOUS
<1>d. processed \in BOOLEAN /\ before \in Profile0 /\ outcome \in Outcomes
  BY DEF Profile0, Outcomes
<1>6. TypeOK
  BY <1>1, <1>2, <1>b, <1>3, <1>4, <1>5, <1>c, <1>d, Zenon DEF TypeOK
<1>7. Control
  BY DEF Control, PollCodeTruthful, OnsetPcs, ExecPcs, DeliveryPcs
<1>8. SeqRoom
  BY DEF SeqRoom
<1> QED BY <1>6, <1>7, <1>8 DEF IInv

(* What the shared endings of the actions do to the types. *)
ControlType ==
  /\ pc \in Pcs /\ pending \in BOOLEAN /\ res \in ResType \cup {NoRes}
  /\ package \in Packages \cup {NoPackage} /\ poll_rc \in PollCodes
  /\ outcome \in Outcomes
CanaryType == check_scard \in BOOLEAN /\ check_http \in BOOLEAN
HistoryType == reverts \in Nat /\ processed \in BOOLEAN /\ before \in Profile0

LEMMA TypeParts ==
  TypeOK <=> /\ ControlType /\ CanaryType /\ ListType /\ WorkType /\ ProfileType
             /\ StoreType /\ EimType /\ HistoryType
             /\ rollback_iccid \in Profile0 /\ crashes \in 0..MaxCrashes
BY Zenon DEF TypeOK, IpadType, ControlType, CanaryType, HistoryType

LEMMA TypePartsNext ==
  TypeOK' <=> /\ ControlType' /\ CanaryType' /\ ListType' /\ WorkType' /\ ProfileType'
              /\ StoreType' /\ EimType' /\ HistoryType'
              /\ rollback_iccid' \in Profile0 /\ crashes' \in 0..MaxCrashes
BY Zenon DEF TypeOK, IpadType, ControlType, CanaryType, HistoryType

LEMMA CardCallType == ASSUME TypeOK, NEW o, CardCall(o) PROVE CanaryType'
BY DEF CardCall, Lost, TypeOK, IpadType, CanaryType

LEMMA HttpCallType == ASSUME TypeOK, NEW o, HttpCall(o) PROVE CanaryType'
BY DEF HttpCall, Lost, TypeOK, IpadType, CanaryType

LEMMA PollEndType ==
  ASSUME NEW rc \in PollCodes \ {"AGAIN_WHEN_ONLINE"}, NEW how \in Outcomes, PollEnd(rc, how)
  PROVE  ControlType' /\ ListType' /\ ~pending' /\ pc' = "idle" /\ poll_rc' # "AGAIN_WHEN_ONLINE"
<1>1. ListType'
  BY ConstantsAssumption DEF PollEnd, PollReturn, ListType
<1>2. ControlType'
  BY DEF PollEnd, PollReturn, ControlType, Pcs, PollCodes, Outcomes
<1> QED BY <1>1, <1>2 DEF PollEnd, PollReturn

LEMMA ExecFailsType ==
  ASSUME CanaryType', ExecFails
  PROVE  ControlType' /\ ListType' /\ ~pending' /\ pc' = "idle" /\ poll_rc' # "AGAIN_WHEN_ONLINE"
<1>1. check_canaries(check_http', check_scard') \in Errors
  BY Canaries DEF CanaryType
<1>2. PICK rc \in {"AGAIN", "AGAIN_LATER", check_canaries(check_http', check_scard')} :
        PollEnd(rc, "failed")
  BY DEF ExecFails
<1>3. rc \in PollCodes \ {"AGAIN_WHEN_ONLINE"}
  BY <1>1, <1>2 DEF PollCodes, Errors
<1> QED BY <1>2, <1>3, PollEndType DEF Outcomes

LEMMA OnsetFailsType ==
  ASSUME CanaryType', OnsetFails
  PROVE  ControlType' /\ ListType' /\ ~pending' /\ pc' = "idle" /\ poll_rc' # "AGAIN_WHEN_ONLINE"
<1>1. CASE pending
  <2>1. check_canaries(check_http', check_scard') \in Errors
    BY Canaries DEF CanaryType
  <2>2. PollEnd(check_canaries(check_http', check_scard'), "failed")
    BY <1>1 DEF OnsetFails
  <2> QED BY <2>1, <2>2, PollEndType DEF PollCodes, Errors, Outcomes
<1>2. CASE ~pending
  BY <1>2, ExecFailsType DEF OnsetFails
<1> QED BY <1>1, <1>2

LEMMA PerformType ==
  ASSUME ProfileType, StoreType, NEW op \in OpType, Perform(op)
  PROVE  ProfileType' /\ StoreType'
<1>1. ProfileType'
  BY DEF Perform, ProfileType, Profile0, OpType
<1>2. StoreType'
  BY ConstantsAssumption DEF Perform, Notify, StoreType, storeVars, Seqs
<1> QED BY <1>1, <1>2

LEMMA LoadedType ==
  ASSUME TypeOK, ~pending, package \in Packages,
         NEW present \in Present, NEW seq \in Nat, Loaded(present, seq)
  PROVE  /\ ControlType' /\ ListType' /\ ops' = <<>> /\ claim' = Same
         /\ res' # NoRes /\ (res'.claim # Same <=> pending') /\ package' = package
         /\ \/ pc' = "idle" /\ poll_rc' = "AGAIN_WHEN_ONLINE" /\ pending'
            \/ pc' = "retrieve" /\ ~pending'
<1> DEFINE r == [present |-> present, seq |-> seq, claim |-> claim,
                 allowed |-> check_for_rollback_flag(package), rollback |-> "none"]
<1>1. check_for_rollback_flag(package) \in BOOLEAN
  BY DEF check_for_rollback_flag
<1>2. r \in ResType
  BY <1>1 DEF ResType, TypeOK, WorkType
<1>3. r # NoRes
  BY <1>2, ConstantsAssumption
<1>4. res' = r /\ ops' = <<>> /\ claim' = Same /\ package' = package
  BY DEF Loaded
<1>5. CASE claim # Same
  <2>1. /\ pending' = TRUE /\ pc' = "idle" /\ poll_rc' = "AGAIN_WHEN_ONLINE"
        /\ outcome' = "switched" /\ queue' = {} /\ current' = 0
    BY <1>5 DEF Loaded, PollReturn
  <2>2. ListType'
    BY <2>1, ConstantsAssumption DEF ListType
  <2>3. ControlType'
    BY <1>2, <1>4, <2>1 DEF ControlType, Pcs, PollCodes, Outcomes
  <2> QED BY <1>3, <1>4, <1>5, <2>1, <2>2, <2>3
<1>6. CASE claim = Same
  <2>1. /\ pending' = pending /\ pc' = "retrieve" /\ poll_rc' = poll_rc
        /\ outcome' = outcome /\ queue' = queue /\ current' = current
    BY <1>6 DEF Loaded, listVars
  <2>2. ListType'
    BY <2>1 DEF TypeOK, ListType
  <2>3. ControlType'
    BY <1>2, <1>4, <2>1 DEF ControlType, Pcs, OnsetPcs, TypeOK, IpadType
  <2> QED BY <1>3, <1>4, <1>6, <2>1, <2>2, <2>3
<1> QED BY <1>5, <1>6

(* Every action preserves the invariant.  Each of the following lemmas covers one
   group of actions: the types first, then control, then the room for numbers.    *)

LEMMA LifecycleStep ==
  ASSUME IInv, ipa_init \/ ipa_poll \/ ipa_free_ctx \/ Crash
  PROVE  IInv'
<1> USE DEF IInv
<1>1. ASSUME ipa_init \/ ipa_poll PROVE IInv'
  <2>1. TypeOK'
    BY <1>1, Zenon, SMT DEF ipa_init, ipa_poll, FirstCall, TypeOK, IpadType, ListType, WorkType,
       ProfileType, StoreType, EimType, Pcs, DeliveryPcs, OnsetPcs, dataVars, listVars, canaries, workVars, profileVars, storeVars, eimVars, history
  <2>2. Control'
    BY <1>1 DEF ipa_init, ipa_poll, FirstCall, Control, PollCodeTruthful, OnsetPcs, ExecPcs, DeliveryPcs, TypeOK, IpadType, PollCodes, Errors, dataVars, listVars, canaries, workVars, profileVars, storeVars, eimVars, history
  <2>3. SeqRoom'
    BY <1>1 DEF ipa_init, ipa_poll, FirstCall, SeqRoom, Control, PollCodeTruthful, OnsetPcs, ExecPcs, DeliveryPcs, dataVars, listVars, canaries, workVars, profileVars, storeVars, eimVars, history
  <2> QED BY <2>1, <2>2, <2>3
<1>2. ASSUME ipa_free_ctx \/ Crash PROVE IInv'
  <2> USE ConstantsAssumption
  <2>b. ForgetContext /\ outcome' \in Outcomes
    BY <1>2 DEF ipa_free_ctx, Crash, Outcomes
  <2>d. ListType'
    BY <2>b DEF ForgetContext, ListType
  <2>e. CanaryType'
    BY <2>b DEF ForgetContext, CanaryType
  <2>c. ListType' /\ CanaryType'
    BY <2>d, <2>e
  <2>1. ControlType' /\ rollback_iccid' \in Profile0
    BY <2>b DEF ForgetContext, ControlType, Pcs, PollCodes, Profile0
  <2>a. <<>> \in Seq(OpType)
    OBVIOUS
  <2>2. WorkType'
    BY <1>2, <2>a DEF ipa_free_ctx, Crash, TypeOK, WorkType, workVars
  <2>3. ProfileType' /\ StoreType' /\ EimType' /\ HistoryType' /\ crashes' \in 0..MaxCrashes
    BY <1>2 DEF ipa_free_ctx, Crash, ForgetContext, TypeOK, ProfileType, StoreType, EimType,
       HistoryType, profileVars, storeVars, eimVars, history
  <2>4. TypeOK'
    BY <2>c, <2>1, <2>2, <2>3, TypePartsNext
  <2>5. Control'
    BY <1>2 DEF ipa_free_ctx, Crash, ForgetContext, Control, PollCodeTruthful, OnsetPcs, ExecPcs, DeliveryPcs, workVars
  <2>6. SeqRoom'
    BY <1>2 DEF ipa_free_ctx, Crash, ForgetContext, SeqRoom, Control, PollCodeTruthful, OnsetPcs, ExecPcs, DeliveryPcs, workVars, storeVars
  <2> QED BY <2>4, <2>5, <2>6
<1> QED BY <1>1, <1>2

LEMMA DeliverStep ==
  ASSUME IInv, Deliver
  PROVE  IInv'
<1> USE DEF IInv
<1>1. ASSUME RetrieveAll PROVE IInv'
  <2>1. CanaryType'
    BY <1>1, CardCallType DEF RetrieveAll
  <2>2. ListType'
    BY <1>1 DEF RetrieveAll, TypeOK, ListType, StoreType
  <2>3. TypeOK'
    BY <1>1, <2>1, <2>2 DEF RetrieveAll, TypeOK, IpadType, CanaryType, WorkType, ProfileType,
       StoreType, EimType, Pcs, DeliveryPcs, dataVars, listVars, canaries, workVars, profileVars, storeVars, eimVars, history
  <2>4. Control' /\ SeqRoom'
    BY <1>1 DEF RetrieveAll, SeqRoom, Control, PollCodeTruthful, OnsetPcs, ExecPcs, DeliveryPcs, dataVars, listVars, canaries, workVars, profileVars, storeVars, eimVars, history
  <2> QED BY <2>3, <2>4
<1>2. ASSUME NEW n \in Seqs, handle_notif(n) PROVE IInv'
  <2>1. CanaryType'
    BY <1>2, HttpCallType DEF handle_notif
  <2>2. ListType' /\ delivered' \subseteq Seqs
    BY <1>2, ConstantsAssumption DEF handle_notif, TypeOK, ListType, EimType, Seqs
  <2>3. TypeOK'
    BY <1>2, <2>1, <2>2 DEF handle_notif, NextNotif, TypeOK, IpadType, CanaryType, WorkType,
       ProfileType, StoreType, EimType, Pcs, DeliveryPcs, dataVars, listVars, canaries, workVars, profileVars, storeVars, eimVars, history
  <2>4. Control' /\ SeqRoom'
    BY <1>2 DEF handle_notif, NextNotif, SeqRoom, Control, PollCodeTruthful, OnsetPcs, ExecPcs, DeliveryPcs, dataVars, listVars, canaries, workVars, profileVars, storeVars, eimVars, history
  <2> QED BY <2>3, <2>4
<1>3. ASSUME rm_notif PROVE IInv'
  <2>1. CanaryType'
    BY <1>3, CardCallType DEF rm_notif
  <2>2. ListType' /\ StoreType'
    BY <1>3, ConstantsAssumption DEF rm_notif, Remove, TypeOK, ListType, StoreType
  <2>3. TypeOK'
    BY <1>3, <2>1, <2>2 DEF rm_notif, NextNotif, TypeOK, IpadType, CanaryType, WorkType,
       ProfileType, EimType, Pcs, DeliveryPcs, dataVars, listVars, canaries, workVars, profileVars, storeVars, eimVars, history
  <2>4. Control' /\ SeqRoom'
    BY <1>3 DEF rm_notif, NextNotif, SeqRoom, Control, PollCodeTruthful, OnsetPcs, ExecPcs, DeliveryPcs, dataVars, listVars, canaries, workVars, profileVars, storeVars, eimVars, history
  <2> QED BY <2>3, <2>4
<1> QED BY <1>1, <1>2, <1>3 DEF Deliver

LEMMA FetchStep ==
  ASSUME IInv, Fetch
  PROVE  IInv'
<1> USE DEF IInv
<1>1. ASSUME get_eim_pkg_fails PROVE IInv'
  <2>1. CanaryType'
    BY <1>1, HttpCallType DEF get_eim_pkg_fails
  <2>2. check_canaries(check_http', check_scard') \in PollCodes \ {"AGAIN_WHEN_ONLINE"}
    BY <2>1, Canaries DEF CanaryType, PollCodes, Errors
  <2>3. ControlType' /\ ListType' /\ ~pending' /\ pc' = "idle" /\ poll_rc' # "AGAIN_WHEN_ONLINE"
    BY <1>1, <2>2, PollEndType DEF get_eim_pkg_fails, Outcomes
  <2>4. TypeOK'
    BY <1>1, <2>1, <2>3, TypeParts, TypePartsNext DEF get_eim_pkg_fails, WorkType, ProfileType,
       StoreType, EimType, HistoryType, dataVars, listVars, canaries, workVars, profileVars, storeVars, eimVars, history
  <2>5. Control' /\ SeqRoom'
    BY <1>1, <2>3 DEF get_eim_pkg_fails, SeqRoom, Control, PollCodeTruthful, OnsetPcs, ExecPcs, DeliveryPcs, dataVars, listVars, canaries, workVars, profileVars, storeVars, eimVars, history
  <2> QED BY <2>4, <2>5
<1>2. ASSUME no_eim_pkg PROVE IInv'
  <2>3. ControlType' /\ ListType' /\ ~pending' /\ pc' = "idle" /\ poll_rc' # "AGAIN_WHEN_ONLINE"
    BY <1>2, PollEndType DEF no_eim_pkg, Outcomes, PollCodes
  <2>4. TypeOK'
    BY <1>2, <2>3, TypeParts, TypePartsNext DEF no_eim_pkg, CanaryType, WorkType, ProfileType,
       StoreType, EimType, HistoryType, dataVars, listVars, canaries, workVars, profileVars, storeVars, eimVars, history
  <2>5. Control' /\ SeqRoom'
    BY <1>2, <2>3 DEF no_eim_pkg, SeqRoom, Control, PollCodeTruthful, OnsetPcs, ExecPcs, DeliveryPcs, dataVars, listVars, canaries, workVars, profileVars, storeVars, eimVars, history
  <2> QED BY <2>4, <2>5
<1>3. ASSUME NEW p \in Packages, get_eim_pkg(p) PROVE IInv'
  <2>1. ControlType' /\ HistoryType'
    BY <1>3 DEF get_eim_pkg, TypeOK, IpadType, ProfileType, ControlType, HistoryType, Pcs, ExecPcs
  <2>2. EimType'
    BY <1>3, ConstantsAssumption DEF get_eim_pkg, Offerable, TypeOK, EimType
  <2>3. TypeOK'
    BY <1>3, <2>1, <2>2, TypeParts, TypePartsNext DEF get_eim_pkg, CanaryType, ListType, WorkType,
       ProfileType, StoreType, dataVars, listVars, canaries, workVars, profileVars, storeVars, eimVars, history
  <2>4. Control'
    BY <1>3 DEF get_eim_pkg, Control, PollCodeTruthful, OnsetPcs, ExecPcs, DeliveryPcs, dataVars, listVars, canaries, workVars, profileVars, storeVars, eimVars, history
  <2>5. SeqRoom'
    BY <1>3 DEF get_eim_pkg, Offerable, SeqRoom, Control, PollCodeTruthful, OnsetPcs, ExecPcs, DeliveryPcs, dataVars, listVars, canaries, workVars, profileVars, storeVars, eimVars, history
  <2> QED BY <2>3, <2>4, <2>5
<1>4. ASSUME exec_other_pkg PROVE IInv'
  <2>1. PICK rc \in {0, -1}, answered \in BOOLEAN, o \in HttpOutcomes, c \in CardOutcomes :
          /\ check_http' = (check_http \/ Lost(o)) /\ check_scard' = (check_scard \/ Lost(c))
          /\ todo' = IF answered THEN todo \ {package} ELSE todo
          /\ PollEnd(IF rc = 0 THEN "AGAIN" ELSE check_canaries(check_http', check_scard'), "other")
    BY <1>4 DEF exec_other_pkg
  <2>2. CanaryType'
    BY <2>1 DEF CanaryType, Lost, TypeOK, IpadType
  <2>3. (IF rc = 0 THEN "AGAIN" ELSE check_canaries(check_http', check_scard'))
          \in PollCodes \ {"AGAIN_WHEN_ONLINE"}
    BY <2>2, Canaries DEF CanaryType, PollCodes, Errors
  <2>4. ControlType' /\ ListType' /\ ~pending' /\ pc' = "idle" /\ poll_rc' # "AGAIN_WHEN_ONLINE"
    BY <2>1, <2>3, PollEndType DEF Outcomes
  <2>5. EimType'
    BY <1>4, <2>1 DEF exec_other_pkg, TypeOK, EimType
  <2>6. TypeOK'
    BY <1>4, <2>2, <2>4, <2>5, TypeParts, TypePartsNext DEF exec_other_pkg, WorkType, ProfileType,
       StoreType, HistoryType, dataVars, listVars, canaries, workVars, profileVars, storeVars, eimVars, history
  <2>7. Control' /\ SeqRoom'
    BY <1>4, <2>4 DEF exec_other_pkg, SeqRoom, Control, PollCodeTruthful, OnsetPcs, ExecPcs, DeliveryPcs, dataVars, listVars, canaries, workVars, profileVars, storeVars, eimVars, history
  <2> QED BY <2>6, <2>7
<1> QED BY <1>1, <1>2, <1>3, <1>4 DEF Fetch

LEMMA LoadEmuStep ==
  ASSUME IInv, LoadEmu
  PROVE  IInv'
<1> USE DEF IInv
<1>1. ASSUME update_rollback_iccid PROVE IInv'
  <2>1. CanaryType'
    BY <1>1, CardCallType DEF update_rollback_iccid
  <2>2. ops' \in Seq(OpType) /\ claim' \in Profile0 \cup {Same}
    BY <1>1, OpsType DEF update_rollback_iccid, Control, PollCodeTruthful, OnsetPcs, ExecPcs, DeliveryPcs
  <2>3. rollback_iccid' \in Profile0
    BY <1>1 DEF update_rollback_iccid, Recorded, TypeOK, IpadType, ProfileType
  <2>4. TypeOK'
    BY <1>1, <2>1, <2>2, <2>3 DEF update_rollback_iccid, TypeOK, IpadType, CanaryType, ListType,
       WorkType, ProfileType, StoreType, EimType, Pcs, ExecPcs, dataVars, listVars, canaries, workVars, profileVars,
       storeVars, eimVars, history
  <2>5. Control' /\ SeqRoom'
    BY <1>1 DEF update_rollback_iccid, SeqRoom, Control, PollCodeTruthful, OnsetPcs, ExecPcs, DeliveryPcs, dataVars, listVars, canaries, workVars, profileVars,
       storeVars, eimVars, history
  <2> QED BY <2>4, <2>5
<1>2. ASSUME do_psmo PROVE IInv'
  <2>1. PICK o \in CardOutcomes, granted \in Verdicts(Head(ops)) :
          /\ CardCall(o)
          /\ IF Done(o) /\ granted THEN Perform(Head(ops)) ELSE UNCHANGED <<profileVars, storeVars>>
          /\ claim' = IF o = "ok" /\ granted THEN Claimed(Head(ops)) ELSE claim
    BY <1>2 DEF do_psmo
  <2>2. CanaryType'
    BY <2>1, CardCallType
  <2>3. Head(ops) \in OpType /\ Tail(ops) \in Seq(OpType)
    BY <1>2, NextOp DEF do_psmo, TypeOK, WorkType
  <2>4. ProfileType' /\ StoreType'
    BY <2>1, <2>3, PerformType DEF TypeOK, ProfileType, StoreType, profileVars, storeVars
  <2>5. WorkType'
    BY <1>2, <2>1, <2>3 DEF do_psmo, Claimed, TypeOK, WorkType, OpType, Profile0
  <2>6. TypeOK'
    BY <1>2, <2>2, <2>4, <2>5, TypeParts, TypePartsNext DEF do_psmo, ControlType, ListType,
       EimType, HistoryType, dataVars, listVars, canaries, workVars, profileVars,
       storeVars, eimVars, history
  <2>7. Control' /\ SeqRoom'
    BY <1>2 DEF do_psmo, SeqRoom, Control, PollCodeTruthful, OnsetPcs, ExecPcs, DeliveryPcs, dataVars, listVars, canaries, workVars, profileVars,
       storeVars, eimVars, history
  <2> QED BY <2>6, <2>7
<1>3. ASSUME psmo_done PROVE IInv'
  <2>1. ~pending /\ package \in Packages /\ ~euiccBusy
    BY <1>3 DEF psmo_done, Control, PollCodeTruthful, OnsetPcs, ExecPcs, DeliveryPcs
  <2>2. /\ ControlType' /\ ListType' /\ ops' = <<>> /\ claim' = Same
        /\ res' # NoRes /\ (res'.claim # Same <=> pending') /\ package' = package
        /\ \/ pc' = "idle" /\ poll_rc' = "AGAIN_WHEN_ONLINE" /\ pending'
           \/ pc' = "retrieve" /\ ~pending'
    BY <1>3, <2>1, LoadedType DEF psmo_done, Present
  <2>3. WorkType'
    BY <1>3, <2>2 DEF psmo_done, TypeOK, WorkType
  <2>4. TypeOK'
    BY <1>3, <2>2, <2>3, TypeParts, TypePartsNext DEF psmo_done, CanaryType, ProfileType,
       StoreType, EimType, HistoryType, dataVars, listVars, canaries, workVars, profileVars,
       storeVars, eimVars, history
  <2>5. Control' /\ SeqRoom'
    BY <1>3, <2>1, <2>2 DEF psmo_done, SeqRoom, Control, PollCodeTruthful, OnsetPcs, ExecPcs, DeliveryPcs
  <2> QED BY <2>4, <2>5
<1> QED BY <1>1, <1>2, <1>3 DEF LoadEmu

LEMMA LoadNativeStep ==
  ASSUME IInv, LoadNative
  PROVE  IInv'
<1> USE DEF IInv
<1>1. ASSUME load_fails PROVE IInv'
  <2>1. CanaryType'
    BY <1>1, CardCallType DEF load_fails
  <2>2. ControlType' /\ ListType' /\ ~pending' /\ pc' = "idle" /\ poll_rc' # "AGAIN_WHEN_ONLINE"
    BY <1>1, <2>1, ExecFailsType DEF load_fails
  <2>3. TypeOK'
    BY <1>1, <2>1, <2>2, TypeParts, TypePartsNext DEF load_fails, WorkType, ProfileType,
       StoreType, EimType, HistoryType, dataVars, listVars, canaries, workVars, profileVars,
       storeVars, eimVars, history
  <2>4. Control' /\ SeqRoom'
    BY <1>1, <2>2 DEF load_fails, SeqRoom, Control, PollCodeTruthful, OnsetPcs, ExecPcs, DeliveryPcs, dataVars, listVars, canaries, workVars, profileVars,
       storeVars, eimVars, history
  <2> QED BY <2>3, <2>4
<1>2. ASSUME load_rejected PROVE IInv'
  <2>1. ~pending /\ package \in Packages /\ ~euiccBusy
    BY <1>2 DEF load_rejected, Control, PollCodeTruthful, OnsetPcs, ExecPcs, DeliveryPcs
  <2>2. PICK present \in Present, seq \in Nat : Loaded(present, seq)
    BY <1>2, ConstantsAssumption DEF load_rejected, Present
  <2>3. /\ ControlType' /\ ListType' /\ ops' = <<>> /\ claim' = Same
        /\ res' # NoRes /\ (res'.claim # Same <=> pending') /\ package' = package
        /\ \/ pc' = "idle" /\ poll_rc' = "AGAIN_WHEN_ONLINE" /\ pending'
           \/ pc' = "retrieve" /\ ~pending'
    BY <2>1, <2>2, LoadedType
  <2>4. WorkType'
    BY <1>2, <2>3 DEF load_rejected, TypeOK, WorkType
  <2>5. TypeOK'
    BY <1>2, <2>3, <2>4, TypeParts, TypePartsNext DEF load_rejected, CanaryType, ProfileType,
       StoreType, EimType, HistoryType, dataVars, listVars, canaries, workVars, profileVars,
       storeVars, eimVars, history
  <2>6. Control' /\ SeqRoom'
    BY <1>2, <2>1, <2>3 DEF load_rejected, SeqRoom, Control, PollCodeTruthful, OnsetPcs, ExecPcs, DeliveryPcs
  <2> QED BY <2>5, <2>6
<1>3. ASSUME load_euicc_pkg PROVE IInv'
  <2>1. WorkType'
    BY <1>3, OpsType DEF load_euicc_pkg, WorkType, Control, PollCodeTruthful, OnsetPcs, ExecPcs, DeliveryPcs
  <2>2. TypeOK'
    BY <1>3, <2>1 DEF load_euicc_pkg, TypeOK, IpadType, ListType, ProfileType, StoreType,
       EimType, Pcs, ExecPcs, dataVars, listVars, canaries, workVars, profileVars,
       storeVars, eimVars, history
  <2>3. Control' /\ SeqRoom'
    BY <1>3 DEF load_euicc_pkg, SeqRoom, Control, PollCodeTruthful, OnsetPcs, ExecPcs, DeliveryPcs, dataVars, listVars, canaries, workVars, profileVars,
       storeVars, eimVars, history
  <2> QED BY <2>2, <2>3
<1> QED BY <1>1, <1>2, <1>3 DEF LoadNative

LEMMA EuiccStep ==
  ASSUME IInv, Euicc
  PROVE  IInv'
<1> USE DEF IInv
<1>1. ASSUME euicc_psmo PROVE IInv'
  <2>1. PICK granted \in Verdicts(Head(ops)) :
          IF granted THEN Perform(Head(ops)) /\ claim' = Claimed(Head(ops))
          ELSE UNCHANGED <<profileVars, storeVars, claim>>
    BY <1>1 DEF euicc_psmo
  <2>2. /\ Head(ops) \in OpType /\ Tail(ops) \in Seq(OpType)
        /\ Len(Tail(ops)) = Len(ops) - 1 /\ Len(ops) \in Nat
    BY <1>1, NextOp DEF euicc_psmo, TypeOK, WorkType
  <2>3. ProfileType' /\ StoreType'
    BY <2>1, <2>2, PerformType DEF TypeOK, ProfileType, StoreType, profileVars, storeVars
  <2>4. WorkType'
    BY <1>1, <2>1, <2>2 DEF euicc_psmo, Claimed, TypeOK, WorkType, OpType, Profile0
  <2>5. TypeOK'
    BY <1>1, <2>3, <2>4, TypeParts, TypePartsNext DEF euicc_psmo, CanaryType, ControlType, ListType,
       EimType, HistoryType, dataVars, listVars, canaries, workVars, profileVars,
       storeVars, eimVars, history
  <2>6. Control'
    BY <1>1 DEF euicc_psmo, Control, PollCodeTruthful, OnsetPcs, ExecPcs, DeliveryPcs, dataVars, listVars, canaries, workVars, profileVars,
       storeVars, eimVars, history
  <2>7. nextSeq' <= nextSeq + 1
    BY <2>1 DEF Perform, Notify, storeVars, TypeOK, StoreType
  <2>8. SeqRoom'
    BY <1>1, <2>2, <2>3, <2>7, ConstantsAssumption DEF euicc_psmo, SeqRoom, Control, PollCodeTruthful, OnsetPcs, ExecPcs, DeliveryPcs, TypeOK, StoreType
  <2> QED BY <2>5, <2>6, <2>8
<1>2. ASSUME euicc_done PROVE IInv'
  <2>1. nextSeq <= MaxSeq /\ nextSeq \in Nat
    BY <1>2, ConstantsAssumption DEF euicc_done, SeqRoom, TypeOK, StoreType
  <2>2. StoreType'
    BY <1>2, <2>1, ConstantsAssumption DEF euicc_done, TypeOK, StoreType, Seqs
  <2>3. CASE pc # "loading"
    <3>1. TypeOK'
      BY <1>2, <2>2, <2>3 DEF euicc_done, TypeOK, IpadType, ListType, WorkType, ProfileType,
         EimType, dataVars, listVars, canaries, workVars, profileVars,
       storeVars, eimVars, history
    <3>2. Control' /\ SeqRoom'
      BY <1>2, <2>3 DEF euicc_done, SeqRoom, Control, PollCodeTruthful, OnsetPcs, ExecPcs, DeliveryPcs, dataVars, listVars, canaries, workVars, profileVars,
       storeVars, eimVars, history
    <3> QED BY <3>1, <3>2
  <2>4. ASSUME pc = "loading", UNCHANGED canaries, Loaded("signed", nextSeq) PROVE IInv'
    <3>1. ~pending /\ package \in Packages
      BY <2>4 DEF Control, PollCodeTruthful, OnsetPcs, ExecPcs, DeliveryPcs
    <3>2. /\ ControlType' /\ ListType' /\ ops' = <<>> /\ claim' = Same
          /\ res' # NoRes /\ (res'.claim # Same <=> pending') /\ package' = package
          /\ \/ pc' = "idle" /\ poll_rc' = "AGAIN_WHEN_ONLINE" /\ pending'
             \/ pc' = "retrieve" /\ ~pending'
      BY <2>1, <2>4, <3>1, LoadedType DEF Present
    <3>a. <<>> \in Seq(OpType)
      OBVIOUS
    <3>3. WorkType'
      BY <1>2, <3>2, <3>a DEF euicc_done, WorkType
    <3>4. TypeOK'
      BY <1>2, <2>2, <2>4, <3>2, <3>3, TypeParts, TypePartsNext DEF euicc_done, CanaryType,
         ProfileType, EimType, HistoryType, dataVars, listVars, canaries, workVars, profileVars,
       storeVars, eimVars, history
    <3>5. Control' /\ SeqRoom'
      BY <1>2, <3>1, <3>2 DEF euicc_done, SeqRoom, Control, PollCodeTruthful, OnsetPcs, ExecPcs, DeliveryPcs
    <3> QED BY <3>4, <3>5
  <2>5. ASSUME pc = "loading", NEW o \in CardFaults, CardCall(o), ExecFails,
               claim' = Same, UNCHANGED ops
        PROVE  IInv'
    <3>1. CanaryType'
      BY <2>5, CardCallType
    <3>2. ControlType' /\ ListType' /\ ~pending' /\ pc' = "idle" /\ poll_rc' # "AGAIN_WHEN_ONLINE"
      BY <2>5, <3>1, ExecFailsType
    <3>3. WorkType'
      BY <1>2, <2>5 DEF euicc_done, TypeOK, WorkType
    <3>4. TypeOK'
      BY <1>2, <2>2, <3>1, <3>2, <3>3, TypeParts, TypePartsNext DEF euicc_done, ProfileType,
         EimType, HistoryType, dataVars, listVars, canaries, workVars, profileVars,
       storeVars, eimVars, history
    <3>5. Control' /\ SeqRoom'
      BY <1>2, <3>2 DEF euicc_done, SeqRoom, Control, PollCodeTruthful, OnsetPcs, ExecPcs, DeliveryPcs
    <3> QED BY <3>4, <3>5
  <2> QED BY <1>2, <2>3, <2>4, <2>5 DEF euicc_done
<1> QED BY <1>1, <1>2 DEF Euicc

LEMMA OnsetStep ==
  ASSUME IInv, Onset
  PROVE  IInv'
<1> USE DEF IInv
<1>1. ASSUME retr_notif PROVE IInv'
  <2>1. CanaryType'
    BY <1>1, CardCallType DEF retr_notif
  <2>2. \/ OnsetFails
        \/ /\ pc' = "provide" /\ queue' = Retrieved
           /\ UNCHANGED <<dataVars, current, poll_rc, outcome>>
    BY <1>1 DEF retr_notif
  <2>3. CASE OnsetFails
    <3>1. ControlType' /\ ListType' /\ ~pending' /\ pc' = "idle" /\ poll_rc' # "AGAIN_WHEN_ONLINE"
      BY <2>1, <2>3, OnsetFailsType
    <3>2. TypeOK'
      BY <1>1, <2>1, <3>1, TypeParts, TypePartsNext DEF retr_notif, WorkType, ProfileType,
         StoreType, EimType, HistoryType, dataVars, listVars, canaries, workVars, profileVars,
       storeVars, eimVars, history
    <3>3. Control' /\ SeqRoom'
      BY <1>1, <3>1 DEF retr_notif, SeqRoom, Control, PollCodeTruthful, OnsetPcs, ExecPcs, DeliveryPcs, dataVars, listVars, canaries, workVars, profileVars,
       storeVars, eimVars, history
    <3> QED BY <3>2, <3>3
  <2>4. ASSUME pc' = "provide", queue' = Retrieved, UNCHANGED <<dataVars, current, poll_rc, outcome>>
        PROVE  IInv'
    <3>1. ListType'
      BY <2>4 DEF Retrieved, TypeOK, ListType, StoreType
    <3>2. TypeOK'
      BY <1>1, <2>1, <2>4, <3>1 DEF retr_notif, TypeOK, IpadType, CanaryType, WorkType,
         ProfileType, StoreType, EimType, Pcs, OnsetPcs, dataVars, listVars, canaries, workVars, profileVars,
       storeVars, eimVars, history
    <3>3. Control' /\ SeqRoom'
      BY <1>1, <2>4 DEF retr_notif, SeqRoom, Control, PollCodeTruthful, OnsetPcs, ExecPcs, DeliveryPcs, dataVars, listVars, canaries, workVars, profileVars,
       storeVars, eimVars, history
    <3> QED BY <3>2, <3>3
  <2> QED BY <2>2, <2>3, <2>4
<1>2. ASSUME prvde_eim_pkg_rslt PROVE IInv'
  <2>1. CanaryType'
    BY <1>2, HttpCallType DEF prvde_eim_pkg_rslt
  <2>2. res \in ResType
    BY <1>2 DEF prvde_eim_pkg_rslt, TypeOK, IpadType, Control, PollCodeTruthful, OnsetPcs, ExecPcs, DeliveryPcs
  <2>3. EimType' /\ processed' \in BOOLEAN
    BY <1>2, <2>2 DEF prvde_eim_pkg_rslt, eim_takes_result, ChosenResult, LoadResult, ResType,
       TypeOK, EimType, ListType
  <2>4. \/ OnsetFails
        \/ /\ pc' \in {"removeResult", "rollback"} /\ queue' \subseteq Seqs
           /\ pc' = "rollback" => MayRollBack
           /\ UNCHANGED <<dataVars, current, poll_rc, outcome>>
    BY <1>2, <2>3 DEF prvde_eim_pkg_rslt, EimType
  <2>5. CASE OnsetFails
    <3>1. ControlType' /\ ListType' /\ ~pending' /\ pc' = "idle" /\ poll_rc' # "AGAIN_WHEN_ONLINE"
      BY <2>1, <2>5, OnsetFailsType
    <3>2. TypeOK'
      BY <1>2, <2>1, <2>3, <3>1, TypeParts, TypePartsNext DEF prvde_eim_pkg_rslt, WorkType,
         ProfileType, StoreType, HistoryType, dataVars, listVars, canaries, workVars, profileVars,
       storeVars, eimVars, history
    <3>3. Control' /\ SeqRoom'
      BY <1>2, <3>1 DEF prvde_eim_pkg_rslt, SeqRoom, Control, PollCodeTruthful, OnsetPcs, ExecPcs, DeliveryPcs, dataVars, listVars, canaries, workVars, profileVars,
       storeVars, eimVars, history
    <3> QED BY <3>2, <3>3
  <2>6. ASSUME pc' \in {"removeResult", "rollback"}, queue' \subseteq Seqs,
               pc' = "rollback" => MayRollBack,
               UNCHANGED <<dataVars, current, poll_rc, outcome>>
        PROVE  IInv'
    <3>1. ListType' /\ ControlType'
      BY <2>6 DEF TypeOK, IpadType, ListType, ControlType, Pcs, OnsetPcs, dataVars
    <3>2. TypeOK'
      BY <1>2, <2>1, <2>3, <3>1, TypeParts, TypePartsNext DEF prvde_eim_pkg_rslt, WorkType,
         ProfileType, StoreType, HistoryType, dataVars, listVars, canaries, workVars, profileVars,
       storeVars, eimVars, history
    <3>3. Control' /\ SeqRoom'
      BY <1>2, <2>6 DEF prvde_eim_pkg_rslt, MayRollBack, SeqRoom, Control, PollCodeTruthful, OnsetPcs, ExecPcs, DeliveryPcs, dataVars, listVars, canaries, workVars, profileVars,
       storeVars, eimVars, history
    <3> QED BY <3>2, <3>3
  <2> QED BY <2>4, <2>5, <2>6
<1>3. ASSUME prfle_rollback PROVE IInv'
  <2>1. CanaryType'
    BY <1>3, CardCallType DEF prfle_rollback, canaries, CanaryType, TypeOK, IpadType
  <2>2. res \in ResType /\ pending
    BY <1>3 DEF prfle_rollback, TypeOK, IpadType, Control, PollCodeTruthful, OnsetPcs, ExecPcs, DeliveryPcs
  <2>3. RollbackOp.iccid # NoProfile => RollbackOp \in OpType
    BY DEF RollbackOp, OpType, OpKinds, TypeOK, IpadType, ProfileType, Profile0
  <2>4. ProfileType' /\ StoreType'
    BY <1>3, <2>3, PerformType DEF prfle_rollback, TypeOK, ProfileType, StoreType, profileVars,
       storeVars
  <2>a. reverts' \in {reverts, reverts + 1} /\ UNCHANGED <<before, processed>>
    BY <1>3 DEF prfle_rollback
  <2>5. HistoryType'
    BY <2>a DEF TypeOK, HistoryType
  <2>6. \/ OnsetFails
        \/ /\ \E c \in {"result", "bare"} : res' = [res EXCEPT !.rollback = c]
           /\ PollReturn("AGAIN_WHEN_ONLINE", "rolledBack")
           /\ UNCHANGED <<pending, package>>
    BY <1>3, Zenon DEF prfle_rollback
  <2>7. CASE OnsetFails
    <3>1. ControlType' /\ ListType' /\ ~pending' /\ pc' = "idle" /\ poll_rc' # "AGAIN_WHEN_ONLINE"
      BY <2>1, <2>7, OnsetFailsType
    <3>2. TypeOK'
      BY <1>3, <2>1, <2>4, <2>5, <3>1, TypeParts, TypePartsNext DEF prfle_rollback, WorkType,
         EimType, dataVars, listVars, canaries, workVars, profileVars,
       storeVars, eimVars, history
    <3>3. Control' /\ SeqRoom'
      BY <1>3, <3>1 DEF prfle_rollback, SeqRoom, Control, PollCodeTruthful, OnsetPcs, ExecPcs, DeliveryPcs, dataVars, listVars, canaries, workVars, profileVars,
       storeVars, eimVars, history
    <3> QED BY <3>2, <3>3
  <2>8. ASSUME NEW c \in {"result", "bare"}, res' = [res EXCEPT !.rollback = c],
               PollReturn("AGAIN_WHEN_ONLINE", "rolledBack"), UNCHANGED <<pending, package>>
        PROVE  IInv'
    <3>1. res' \in ResType /\ res'.claim = res.claim
      BY <2>2, <2>8 DEF ResType
    <3>2. res' # NoRes
      BY <3>1, ConstantsAssumption
    <3>3. ListType'
      BY <2>8, ConstantsAssumption DEF PollReturn, ListType
    <3>4. ControlType'
      BY <2>2, <2>8, <3>1 DEF PollReturn, ControlType, TypeOK, IpadType, Pcs, PollCodes, Outcomes
    <3>5. TypeOK'
      BY <1>3, <2>1, <2>4, <2>5, <3>3, <3>4, TypeParts, TypePartsNext DEF prfle_rollback, WorkType,
         EimType, dataVars, listVars, canaries, workVars, profileVars,
       storeVars, eimVars, history
    <3>6. Control' /\ SeqRoom'
      BY <1>3, <2>2, <2>8, <3>1, <3>2 DEF prfle_rollback, PollReturn, SeqRoom, Control, PollCodeTruthful, OnsetPcs, ExecPcs, DeliveryPcs, dataVars, listVars, canaries, workVars, profileVars,
       storeVars, eimVars, history
    <3> QED BY <3>5, <3>6
  <2> QED BY <2>6, <2>7, <2>8
<1>4. ASSUME rm_result \/ \E n \in Seqs : remove_notifications(n) PROVE IInv'
  <2>1. /\ pc \in {"removeResult", "removeAcked"} /\ CanaryType'
        /\ UNCHANGED <<rollback_iccid, workVars, profileVars, eimVars, crashes, history>>
    BY <1>4, CardCallType DEF rm_result, remove_notifications
  <2>2. StoreType'
    BY <1>4 DEF rm_result, remove_notifications, Remove, TypeOK, StoreType
  <2>3. \/ OnsetFails \/ PollEnd("AGAIN", "confirmed")
        \/ /\ pc' = "removeAcked" /\ queue' \subseteq queue
           /\ UNCHANGED <<dataVars, current, poll_rc, outcome>>
    BY <1>4 DEF rm_result, remove_notifications, listVars
  <2>4. CASE OnsetFails \/ PollEnd("AGAIN", "confirmed")
    <3>1. ControlType' /\ ListType' /\ ~pending' /\ pc' = "idle" /\ poll_rc' # "AGAIN_WHEN_ONLINE"
      BY <2>1, <2>4, OnsetFailsType, PollEndType DEF Outcomes, PollCodes
    <3>2. TypeOK'
      BY <2>1, <2>2, <3>1, TypeParts, TypePartsNext DEF WorkType, ProfileType, EimType,
         HistoryType, dataVars, listVars, canaries, workVars, profileVars,
       storeVars, eimVars, history
    <3>3. Control' /\ SeqRoom'
      BY <2>1, <3>1 DEF SeqRoom, Control, PollCodeTruthful, OnsetPcs, ExecPcs, DeliveryPcs, dataVars, listVars, canaries, workVars, profileVars,
       storeVars, eimVars, history
    <3> QED BY <3>2, <3>3
  <2>5. ASSUME pc' = "removeAcked", queue' \subseteq queue,
               UNCHANGED <<dataVars, current, poll_rc, outcome>>
        PROVE  IInv'
    <3>1. ListType' /\ ControlType'
      BY <2>5 DEF TypeOK, IpadType, ListType, ControlType, Pcs, OnsetPcs, dataVars
    <3>2. TypeOK'
      BY <2>1, <2>2, <3>1, TypeParts, TypePartsNext DEF WorkType, ProfileType, EimType,
         HistoryType, dataVars, listVars, canaries, workVars, profileVars,
       storeVars, eimVars, history
    <3>3. Control' /\ SeqRoom'
      BY <2>1, <2>5 DEF SeqRoom, Control, PollCodeTruthful, OnsetPcs, ExecPcs, DeliveryPcs, dataVars, listVars, canaries, workVars, profileVars,
       storeVars, eimVars, history
    <3> QED BY <3>2, <3>3
  <2> QED BY <2>3, <2>4, <2>5
<1> QED BY <1>1, <1>2, <1>3, <1>4 DEF Onset

LEMMA NextIInv == IInv /\ [Next]_vars => IInv'
<1> SUFFICES ASSUME IInv, [Next]_vars PROVE IInv'
  OBVIOUS
<1>1. CASE Next
  BY <1>1, LifecycleStep, DeliverStep, FetchStep, LoadEmuStep, LoadNativeStep, EuiccStep, OnsetStep
     DEF Next, Ipad
<1>2. CASE UNCHANGED vars
  <2> USE <1>2 DEF IInv, vars, dataVars, listVars, canaries, workVars, profileVars, storeVars,
               eimVars, history
  <2>1. TypeOK'
    BY DEF TypeOK, IpadType, ListType, WorkType, ProfileType, StoreType, EimType
  <2>2. Control' /\ SeqRoom'
    BY DEF Control, PollCodeTruthful, SeqRoom
  <2> QED BY <2>1, <2>2
<1> QED BY <1>1, <1>2

THEOREM SpecIInv == Spec => []IInv
BY InitIInv, NextIInv, PTL DEF Spec

(* Every variable of the poll cycle keeps its type, whatever faults and crashes
   occur; in particular a native eUICC never runs out of sequence numbers below
   MaxSeq in the middle of a package.                                           *)
THEOREM TypeCorrect == Spec => []TypeOK
<1>1. IInv => TypeOK
  BY DEF IInv
<1> QED BY <1>1, SpecIInv, PTL

(* ipa_poll returns IPA_POLL_AGAIN_WHEN_ONLINE exactly when it keeps a result of a
   profile switch, and executes no other package while it does: the assertions of
   eim_pkg_exec and of the onset procedure hold for all packages and all faults.  *)
THEOREM PollCodes_Truthful == Spec => []PollCodeTruthful
<1>1. IInv => PollCodeTruthful
  BY DEF IInv, Control
<1> QED BY <1>1, SpecIInv, PTL
=============================================================================

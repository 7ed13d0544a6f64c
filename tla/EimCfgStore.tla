---------------------------- MODULE EimCfgStore ----------------------------
(***************************************************************************)
(* The eIM configuration that the IoT eUICC emulation keeps for a consumer *)
(* eUICC, and its life in the non volatile state of the IPAd: provisioning *)
(* (ipa_add_init_eim_cfg), the eIM configuration operations an eIM may     *)
(* send (addEim, deleteEim, updateEim), the memory reset, and the file the *)
(* application loads the state from and saves it to (main.c).              *)
(*                                                                         *)
(* The operations work on memory, one after the other; what interrupts     *)
(* them is a crash, also while the file is written, and what they meet     *)
(* after a restart is what the file holds, possibly written by another     *)
(* version of the software.                                                *)
(***************************************************************************)
EXTENDS Integers, Sequences, FiniteSets

CONSTANTS
  EimIds, Fqdns,  \* the eIMs and the addresses they may have
  NoFqdn, NoCounter, NoToken, \* the optional member is absent
  NoEim,          \* ctx->eim_id == NULL
  NoFile, Torn,   \* there is no nvstate file; it was truncated and not written
  InitCfgs,       \* contents of provisioning files, see ipa_add_init_eim_cfg
  Additions,      \* entries an eIM may ask to add
  Updates,        \* updates an eIM may ask for
  Preferred,      \* cfg->preferred_eim_id
  CardOutcomes,   \* how the eUICC may answer its own memory reset
  MaxToken,       \* bound: association tokens assigned
  MaxVersion,     \* bound: upgrades of the software
  MaxCrashes      \* bound: crashes of the IPAd

Requested == -1   \* the associationToken by which an eIM asks for one

(* struct EimConfigurationData as it is received, and as the store keeps it *)
EntryType == [id : EimIds, fqdn : Fqdns \cup {NoFqdn}, counter : Nat \cup {NoCounter},
              token : {Requested, NoToken}]
StoredType == [id : EimIds, fqdn : Fqdns, counter : Nat, token : Nat \cup {NoToken}]
UpdateType == [fqdn : Fqdns \cup {NoFqdn}, counter : Nat \cup {NoCounter}, key : BOOLEAN]
Ids(list) == {list[i].id : i \in DOMAIN list}
IdsDiffer(list) == \A i, j \in DOMAIN list : list[i].id = list[j].id => i = j

(* A provisioning file names an eIM once and holds no token that was assigned
   elsewhere.                                                                *)
ASSUME StoreAssumption ==
  /\ NoFqdn \notin Fqdns /\ NoCounter \notin Nat /\ NoToken \notin Int /\ NoEim \notin EimIds
  /\ InitCfgs \subseteq Seq(EntryType) /\ \A list \in InitCfgs : IdsDiffer(list)
  /\ Additions \subseteq EntryType /\ Updates \subseteq UpdateType
  /\ Preferred \in EimIds \cup {NoEim}
  /\ CardOutcomes \subseteq {"ok", "failed"}
  /\ MaxToken \in Nat /\ MaxVersion \in Nat /\ MaxCrashes \in Nat

VARIABLES
  pc,             \* where the application is
  cfg,            \* ctx->nvstate.iot_euicc_emu.eim_cfg_ber; NULL is the empty list
  stored,         \* eim_cfg_ber # NULL
  token_counter,  \* ctx->nvstate.iot_euicc_emu.association_token_counter
  eim_id, eim_fqdn, \* the eIM in use
  answer,         \* the last operation and what it answered
  version,        \* IPA_NVSTATE_VERSION of the installed software
  file,           \* the nvstate file: NoFile, torn, or what was saved
  crashes,
  \* history, read by the properties only
  handouts,       \* <<eIM, token>> assigned in the life of this nvstate
  fileHandouts    \* the same for the file

nvstate == <<cfg, stored, token_counter, handouts>>
eim == <<eim_id, eim_fqdn>>
disk == <<file, fileHandouts, version>>
vars == <<pc, nvstate, eim, answer, disk, crashes>>

Answer(op, code) == answer' = [op |-> op, of |-> NoEim, code |-> code]
EcoAnswer(op, id, code) == answer' = [op |-> op, of |-> id, code |-> code]
Running == pc \in {"ready", "polling"}

-----------------------------------------------------------------------------
(* ES10b.AddInitialEim as the emulation carries it out *)

\* This definition and those with a similar name below are the mistakes the
\* properties must notice; the model does not use them.
CompleteExceptCounter(entry) == entry.fqdn # NoFqdn
Complete(entry) == entry.fqdn # NoFqdn /\ entry.counter # NoCounter

Requests(list, n) == Cardinality({i \in 1..n : list[i].token = Requested})

(* The n-th entry that asks for a token receives the n-th number from here on. *)
NewToken(list, i) == token_counter + Requests(list, i)

complete_eim_cfg_list_at_end(list) ==
  [i \in DOMAIN list |-> IF list[i].token = Requested
                         THEN [list[i] EXCEPT !.token = NewToken(list, Len(list))] ELSE list[i]]

complete_eim_cfg_list(list) ==
  [i \in DOMAIN list |-> IF list[i].token = Requested
                         THEN [list[i] EXCEPT !.token = NewToken(list, i)] ELSE list[i]]

Assigned(list) ==
  {<<list[i].id, NewToken(list, i)>> : i \in {j \in DOMAIN list : list[j].token = Requested}}

Accepts(list) == \A i \in DOMAIN list : Complete(list[i])

(* The requests complete_eim_cfg has served when it meets the first entry that is
   incomplete, which ends the loop; the counter keeps them.                       *)
ServedInVain(list) ==
  Cardinality({i \in DOMAIN list : /\ list[i].token = Requested
                                   /\ \A j \in 1..i : Complete(list[j])})

add_init_eim_iot_emu(list) ==
  IF Accepts(list)
  THEN /\ token_counter + Requests(list, Len(list)) <= MaxToken
       /\ cfg' = complete_eim_cfg_list(list) /\ stored' = TRUE
       /\ token_counter' = token_counter + Requests(list, Len(list))
       /\ handouts' = handouts \cup Assigned(list)
  ELSE /\ token_counter + ServedInVain(list) <= MaxToken
       /\ token_counter' = token_counter + ServedInVain(list)
       /\ UNCHANGED <<cfg, stored, handouts>>

-----------------------------------------------------------------------------
(* Start of the IPAd, choice of the eIM *)

Fresh == cfg' = <<>> /\ stored' = FALSE /\ token_counter' = 0 /\ handouts' = {}

(* nvstate_deserialize; a file of another version, or one that ends early, is
   discarded after its bytes have been copied over the state, so that freeing
   the state frees the addresses which the process that saved it had used: that
   is undefined, the process dies or goes on.                                  *)
StrayPointers(f) == IF f = Torn THEN BOOLEAN ELSE {f.stored}

Loads(f) ==
  /\ cfg' = f.cfg /\ stored' = f.stored /\ token_counter' = f.token_counter
  /\ handouts' = fileHandouts

Readable(f) == f # NoFile /\ f # Torn /\ f.version = version

ipa_new_ctx ==
  /\ pc = "down"
  /\ \/ /\ Readable(file) /\ Loads(file) /\ pc' = "ready" /\ Answer("ipa_new_ctx", "ok")
     \/ /\ ~Readable(file) /\ Fresh /\ pc' = "ready" /\ Answer("ipa_new_ctx", "ok")
     \/ /\ ~Readable(file) /\ file # NoFile /\ TRUE \in StrayPointers(file)
        /\ Answer("ipa_new_ctx", "died") /\ UNCHANGED <<pc, nvstate>>
  /\ UNCHANGED <<eim, disk, crashes>>

(* ipa_es10b_get_eim_cfg_data_filter *)
Suitable == {i \in DOMAIN cfg : IF Preferred = NoEim THEN i = 1 ELSE cfg[i].id = Preferred}

eim_init ==
  /\ pc = "ready"
  /\ IF Suitable = {}
     THEN Answer("eim_init", "error") /\ UNCHANGED <<pc, eim>>
     ELSE \E i \in Suitable :
            /\ eim_id' = cfg[i].id /\ eim_fqdn' = cfg[i].fqdn
            /\ pc' = "polling" /\ Answer("eim_init", "ok")
  /\ UNCHANGED <<nvstate, disk, crashes>>

-----------------------------------------------------------------------------
(* Provisioning and reset by the application *)

(* The answer of AddInitialEim is not looked at. *)
ipa_add_init_eim_cfg(list) ==
  /\ pc = "ready"
  /\ add_init_eim_iot_emu(list)
  /\ Answer("ipa_add_init_eim_cfg", "ok")
  /\ UNCHANGED <<pc, eim, disk, crashes>>

undecodable_cfg ==
  /\ pc = "ready"
  /\ Answer("ipa_add_init_eim_cfg", "error")
  /\ UNCHANGED <<pc, nvstate, eim, disk, crashes>>

ResetCounter_of_new_nvstate == 0
ResetCounter == token_counter

(* The emulation clears its own part first and then asks the eUICC; rc is
   assigned only when the eUICC reports a failure.                         *)
ipa_euicc_mem_rst(eim_cfg_data) ==
  /\ pc = "ready"
  /\ IF eim_cfg_data
     THEN cfg' = <<>> /\ stored' = FALSE /\ token_counter' = ResetCounter /\ UNCHANGED handouts
     ELSE UNCHANGED nvstate
  /\ \E o \in CardOutcomes : \E rc \in IF o = "ok" THEN {"ok", "error"} ELSE {"error"} :
       Answer("ipa_euicc_mem_rst", rc)
  /\ UNCHANGED <<pc, eim, disk, crashes>>

-----------------------------------------------------------------------------
(* eCOs of an eUICC package *)

At(id) == CHOOSE i \in DOMAIN cfg : cfg[i].id = id

iot_emo_do_addEim_eco(entry) ==
  /\ pc = "polling"
  /\ IF entry.id \in Ids(cfg)
     THEN EcoAnswer("addEim", entry.id, "exists") /\ UNCHANGED nvstate
     ELSE /\ add_init_eim_iot_emu(Append(cfg, entry))
          /\ EcoAnswer("addEim", entry.id, IF Complete(entry) THEN "ok" ELSE "error")
  /\ UNCHANGED <<pc, eim, disk, crashes>>

Skip_first(list, k) == [i \in 1..(Len(list) - 1) |-> list[i + 1]]

(* The list without the entry at k. *)
Skip(list, k) == [i \in 1..(Len(list) - 1) |-> IF i < k THEN list[i] ELSE list[i + 1]]

iot_emo_do_deleteEim_eco(id) ==
  /\ pc = "polling"
  /\ IF id \in Ids(cfg)
     THEN add_init_eim_iot_emu(Skip(cfg, At(id))) /\ EcoAnswer("deleteEim", id, "ok")
     ELSE EcoAnswer("deleteEim", id, "notFound") /\ UNCHANGED nvstate
  /\ UNCHANGED <<pc, eim, disk, crashes>>

(* The addresses of the two counter values are compared, not the values:
   without a new key the new value is taken over or ignored.              *)
Updated(entry, u, accepted) ==
  [entry EXCEPT !.fqdn = IF u.fqdn = NoFqdn THEN @ ELSE u.fqdn,
                !.counter = IF u.counter = NoCounter \/ ~accepted THEN @ ELSE u.counter]

(* When the eIM is not found, a pointer that was never assigned is freed: the
   process dies or goes on.                                                  *)
iot_emo_do_updateEim_eco(id, u) ==
  /\ pc = "polling"
  /\ IF id \in Ids(cfg)
     THEN /\ \E accepted \in IF u.key THEN {TRUE} ELSE BOOLEAN :
               add_init_eim_iot_emu([cfg EXCEPT ![At(id)] = Updated(@, u, accepted)])
          /\ EcoAnswer("updateEim", id, "ok") /\ UNCHANGED <<pc, eim>>
     ELSE \/ EcoAnswer("updateEim", id, "notFound") /\ UNCHANGED <<pc, nvstate, eim>>
          \/ /\ pc' = "down" /\ Fresh /\ eim_id' = NoEim /\ eim_fqdn' = NoFqdn
             /\ Answer("updateEim", "died")
  /\ UNCHANGED <<disk, crashes>>

-----------------------------------------------------------------------------
(* End of the IPAd *)

Down == pc' = "down" /\ Fresh /\ eim_id' = NoEim /\ eim_fqdn' = NoFqdn

(* nvstate_serialize *)
Image == [version |-> version, cfg |-> cfg, stored |-> stored, token_counter |-> token_counter]

(* fopen(path, "w") truncates the file, or fails *)
ipa_free_ctx ==
  /\ Running
  /\ \/ pc' = "saving" /\ file' = Torn /\ fileHandouts' = {} /\ UNCHANGED <<nvstate, eim>>
     \/ Down /\ UNCHANGED <<file, fileHandouts>>
  /\ Answer("ipa_free_ctx", "none")
  /\ UNCHANGED <<version, crashes>>

(* fwrite; nobody looks whether it succeeds *)
save_nvstate_to_file ==
  /\ pc = "saving"
  /\ \/ file' = Image /\ fileHandouts' = handouts
     \/ UNCHANGED <<file, fileHandouts>>
  /\ Down /\ Answer("save_nvstate_to_file", "none")
  /\ UNCHANGED <<version, crashes>>

Crash ==
  /\ pc # "down" /\ crashes < MaxCrashes /\ crashes' = crashes + 1
  /\ Down /\ Answer("none", "none")
  /\ UNCHANGED disk

(* Another release of the software is installed. *)
Upgrade ==
  /\ pc = "down" /\ version < MaxVersion /\ version' = version + 1
  /\ UNCHANGED <<pc, nvstate, eim, answer, file, fileHandouts, crashes>>

-----------------------------------------------------------------------------
Init ==
  /\ pc = "down" /\ cfg = <<>> /\ stored = FALSE /\ token_counter = 0
  /\ eim_id = NoEim /\ eim_fqdn = NoFqdn
  /\ answer = [op |-> "none", of |-> NoEim, code |-> "none"]
  /\ version = 0 /\ file = NoFile /\ crashes = 0
  /\ handouts = {} /\ fileHandouts = {}

Application ==
  \/ ipa_new_ctx \/ eim_init \/ undecodable_cfg
  \/ \E list \in InitCfgs : ipa_add_init_eim_cfg(list)
  \/ \E b \in BOOLEAN : ipa_euicc_mem_rst(b)
  \/ ipa_free_ctx \/ save_nvstate_to_file

Ecos ==
  \/ \E e \in Additions : iot_emo_do_addEim_eco(e)
  \/ \E id \in EimIds : iot_emo_do_deleteEim_eco(id)
  \/ \E id \in EimIds, u \in Updates : iot_emo_do_updateEim_eco(id, u)

Next == Application \/ Ecos \/ Crash \/ Upgrade

Spec == Init /\ [][Next]_vars
-----------------------------------------------------------------------------
(* Properties *)

Codes == {"none", "ok", "error", "exists", "notFound", "died"}
Cfgs == Seq(StoredType)
Images == [version : Nat, cfg : Cfgs, stored : BOOLEAN, token_counter : Nat]
Handouts == SUBSET (EimIds \X Nat)

(* What is in the store and in its file is complete: every eIM has an address and
   a counter value, and no token is still to be assigned (complete_eim_cfg).     *)
TypeOK ==
  /\ pc \in {"down", "ready", "polling", "saving"}
  /\ cfg \in Cfgs /\ stored \in BOOLEAN /\ token_counter \in Nat
  /\ eim_id \in EimIds \cup {NoEim} /\ eim_fqdn \in Fqdns \cup {NoFqdn}
  /\ answer.code \in Codes
  /\ version \in Nat /\ file \in Images \cup {NoFile, Torn} /\ crashes \in Nat
  /\ handouts \in Handouts /\ fileHandouts \in Handouts

OneOwner(pairs) == \A a, b \in pairs : a[2] = b[2] => a[1] = b[1]

(* An association token is assigned to one eIM only, as long as the non volatile
   state lives: across provisioning, addEim, failed requests, memory resets and
   restarts, in memory and in the file.                                          *)
TokensDistinct == OneOwner(handouts) /\ OneOwner(fileHandouts)

Owned(list, pairs) ==
  /\ IdsDiffer(list)
  /\ \A i \in DOMAIN list : list[i].token # NoToken => <<list[i].id, list[i].token>> \in pairs

(* No eIM is configured twice, and a configured token is the one that was assigned
   to that eIM: what addEim, updateEim and deleteEim carry over from the old list
   keeps its owner, and no two configured eIMs share a token.                     *)
ConfiguredTokens ==
  /\ Owned(cfg, handouts)
  /\ \A i, j \in DOMAIN cfg : cfg[i].token = cfg[j].token /\ i # j => cfg[i].token = NoToken

(* The directory of eIMs as seen by the eIMs and by the next start. *)
DirOf(list) ==
  [id \in Ids(list) |-> LET i == CHOOSE j \in DOMAIN list : list[j].id = id IN list[i].fqdn]
Kept == IF file = NoFile THEN DirOf(<<>>) ELSE IF Readable(file) THEN DirOf(file.cfg) ELSE Torn
Said == [of |-> answer.of, code |-> IF answer.of = NoEim THEN "none" ELSE answer.code]

Directory == INSTANCE EimDirectory
  WITH Unusable <- Torn, Nobody <- NoEim, up <- pc # "down", dir <- DirOf(cfg), kept <- Kept, said <- Said

(* The marks for a file that is absent or torn are no nvstate and no directory. *)
ASSUME MarkAssumption ==
  /\ NoFile # Torn /\ NoFile \notin Images /\ Torn \notin Images
  /\ Torn \notin Directory!Directories

(* The store implements the directory: an eCO changes the entry it names, answers
   what it did, and what was saved is what the next start finds.                  *)
DirectorySpec == Directory!Spec

-----------------------------------------------------------------------------
(* What comments and definitions say, and the code does not do *)

(* A non volatile state of another version is not loaded ("make sure we do not
   load any incompatible nvstate"): the IPAd starts with a fresh one.          *)
OtherVersionSurvived ==
  [][file \notin {NoFile, Torn} /\ answer'.op = "ipa_new_ctx" => answer'.code = "ok"]_vars
=============

------------------------- MODULE EimCfgStoreProofs -------------------------
(***************************************************************************)
(* Proof that the store keeps its type and that an association token never *)
(* has two owners, for every set of eIMs, provisioning files, eCOs and     *)
(* bounds.                                                                 *)
(*                                                                         *)
(* The strengthening: every assigned token is at most the counter, in      *)
(* memory and in the file, so that the next number is new; and the list in *)
(* the file is as good as the one in memory, because a start loads it.     *)
(***************************************************************************)
EXTENDS EimCfgStore, FiniteSetTheorems, TLAPS

Below(pairs, n) == \A h \in pairs : h[2] \in 1..n

Sound(list, pairs, n) == Owned(list, pairs) /\ Below(pairs, n) /\ OneOwner(pairs)

IInv ==
  /\ TypeOK
  /\ Sound(cfg, handouts, token_counter)
  /\ OneOwner(fileHandouts)
  /\ file \notin {NoFile, Torn} => Sound(file.cfg, fileHandouts, file.token_counter)

(* What a request may hold: received entries and stored ones. *)
AnyType == [id : EimIds, fqdn : Fqdns \cup {NoFqdn}, counter : Nat \cup {NoCounter},
            token : Nat \cup {Requested, NoToken}]

LEMMA SeqOfSubset ==
  ASSUME NEW S, NEW T, S \subseteq T, NEW s \in Seq(S)
  PROVE  s \in Seq(T)
<1>1. s = [i \in 1..Len(s) |-> s[i]] /\ Len(s) \in Nat /\ \A i \in 1..Len(s) : s[i] \in T
  OBVIOUS
<1> QED BY <1>1

LEMMA SeqIntro ==
  ASSUME NEW S, NEW n \in Nat, NEW s, s = [i \in 1..n |-> s[i]], \A i \in 1..n : s[i] \in S
  PROVE  s \in Seq(S) /\ Len(s) = n
OBVIOUS

LEMMA EmptyCfg == <<>> \in Cfgs /\ DOMAIN <<>> = {}
BY DEF Cfgs

LEMMA ElementType ==
  ASSUME NEW S, NEW s \in Seq(S)
  PROVE  Len(s) \in Nat /\ DOMAIN s = 1..Len(s) /\ \A i \in DOMAIN s : s[i] \in S
OBVIOUS

LEMMA EntryIsAny == EntryType \subseteq AnyType
BY DEF EntryType, AnyType

LEMMA StoredIsAny == StoredType \subseteq AnyType
BY DEF StoredType, AnyType

LEMMA RequestsType ==
  ASSUME NEW list, NEW n \in Nat
  PROVE  /\ Requests(list, n) \in Nat
         /\ IsFiniteSet({i \in 1..n : list[i].token = Requested})
<1>1. IsFiniteSet(1..n)
  BY FS_Interval
<1>2. IsFiniteSet({i \in 1..n : list[i].token = Requested})
  BY <1>1, FS_Subset
<1> QED BY <1>2, FS_CardinalityType DEF Requests

LEMMA RequestsMonotone ==
  ASSUME NEW list, NEW m \in Nat, NEW n \in Nat, m <= n
  PROVE  Requests(list, m) <= Requests(list, n)
<1>1. {i \in 1..m : list[i].token = Requested} \subseteq {i \in 1..n : list[i].token = Requested}
  OBVIOUS
<1> QED BY <1>1, RequestsType, FS_Subset DEF Requests

(* A later entry that asks for a token gets a higher number. *)
LEMMA RequestsGrow ==
  ASSUME NEW list, NEW m \in Nat, NEW n \in Nat, m < n, list[n].token = Requested
  PROVE  Requests(list, m) < Requests(list, n)
<1> DEFINE before == {i \in 1..m : list[i].token = Requested}
<1>1. IsFiniteSet(before) /\ n \notin before
  BY RequestsType
<1>2. Cardinality(before \cup {n}) = Cardinality(before) + 1
  BY <1>1, FS_AddElement
<1>3. before \cup {n} \subseteq {i \in 1..n : list[i].token = Requested}
  OBVIOUS
<1>4. Cardinality(before \cup {n}) <= Requests(list, n)
  BY <1>3, RequestsType, FS_Subset DEF Requests
<1>5. Requests(list, m) = Cardinality(before)
  BY DEF Requests
<1>6. Cardinality(before) \in Nat /\ Requests(list, n) \in Nat
  BY <1>5, RequestsType
<1> HIDE DEF before
<1> QED BY <1>2, <1>4, <1>5, <1>6

LEMMA NewTokens ==
  ASSUME NEW list \in Seq(AnyType), token_counter \in Nat, NEW i \in DOMAIN list,
         list[i].token = Requested
  PROVE  NewToken(list, i) \in (token_counter + 1)..(token_counter + Requests(list, Len(list)))
<1>1. i \in Nat /\ 0 < i /\ i <= Len(list) /\ Len(list) \in Nat
  OBVIOUS
<1>2. Requests(list, 0) < Requests(list, i)
  BY <1>1, RequestsGrow
<1>3. Requests(list, i) <= Requests(list, Len(list))
  BY <1>1, RequestsMonotone
<1>4. /\ Requests(list, 0) \in Nat /\ Requests(list, i) \in Nat
      /\ Requests(list, Len(list)) \in Nat
  BY <1>1, RequestsType
<1> QED BY <1>2, <1>3, <1>4 DEF NewToken

LEMMA NewTokensDiffer ==
  ASSUME NEW list \in Seq(AnyType), token_counter \in Nat,
         NEW i \in DOMAIN list, NEW j \in DOMAIN list,
         list[i].token = Requested, list[j].token = Requested,
         NewToken(list, i) = NewToken(list, j)
  PROVE  i = j
<1>1. i \in Nat /\ j \in Nat
  OBVIOUS
<1>2. Requests(list, i) \in Nat /\ Requests(list, j) \in Nat
  BY <1>1, RequestsType
<1>3. Requests(list, i) = Requests(list, j)
  BY <1>2 DEF NewToken
<1>4. i < j => Requests(list, i) < Requests(list, j)
  BY <1>1, RequestsGrow
<1>5. j < i => Requests(list, j) < Requests(list, i)
  BY <1>1, RequestsGrow
<1> QED BY <1>1, <1>2, <1>3, <1>4, <1>5

LEMMA AcceptedIsStored ==
  ASSUME StoreAssumption, NEW list \in Seq(AnyType), token_counter \in Nat, Accepts(list)
  PROVE  complete_eim_cfg_list(list) \in Cfgs
<1>1. ASSUME NEW i \in DOMAIN list
      PROVE  complete_eim_cfg_list(list)[i] \in StoredType
  <2>1. list[i] \in AnyType /\ Complete(list[i])
    BY ElementType DEF Accepts
  <2>2. CASE list[i].token = Requested
    <3>1. NewToken(list, i) \in Nat
      BY <2>2, NewTokens, RequestsType
    <3> QED BY <2>1, <2>2, <3>1 DEF complete_eim_cfg_list, Complete, AnyType, StoredType
  <2>3. CASE list[i].token # Requested
    BY <2>1, <2>3 DEF complete_eim_cfg_list, Complete, AnyType, StoredType
  <2> QED BY <2>2, <2>3
<1>2. DOMAIN list = 1..Len(list) /\ Len(list) \in Nat
  OBVIOUS
<1>3. complete_eim_cfg_list(list) = [i \in 1..Len(list) |-> complete_eim_cfg_list(list)[i]]
  BY <1>2 DEF complete_eim_cfg_list
<1> QED BY <1>1, <1>2, <1>3, SeqIntro DEF Cfgs

(* AddInitialEim keeps the list in memory sound, whatever list is written, if the
   tokens it already holds have their owners.                                      *)
LEMMA WriteIsSound ==
  ASSUME StoreAssumption, IInv, NEW list \in Seq(AnyType), IdsDiffer(list),
         \A i \in DOMAIN list :
            list[i].token \in Nat => <<list[i].id, list[i].token>> \in handouts,
         add_init_eim_iot_emu(list)
  PROVE  /\ cfg' \in Cfgs /\ stored' \in BOOLEAN /\ token_counter' \in Nat
         /\ handouts' \in Handouts
         /\ Sound(cfg', handouts', token_counter')
<1> DEFINE total == Requests(list, Len(list))
<1>0. token_counter \in Nat /\ Len(list) \in Nat /\ handouts \in Handouts
  BY DEF IInv, TypeOK
<1>a. total \in Nat
  BY <1>0, RequestsType
<1>1. CASE Accepts(list)
  <2>1. /\ cfg' = complete_eim_cfg_list(list) /\ stored' = TRUE
        /\ token_counter' = token_counter + total
        /\ handouts' = handouts \cup Assigned(list)
    BY <1>1 DEF add_init_eim_iot_emu
  <2>2. \A h \in Assigned(list) : \E i \in DOMAIN list :
           /\ list[i].token = Requested /\ h = <<list[i].id, NewToken(list, i)>>
           /\ NewToken(list, i) \in (token_counter + 1)..(token_counter + total)
    BY <1>0, NewTokens DEF Assigned
  <2>3. handouts' \in Handouts
    <3>1. \A i \in DOMAIN list : list[i].id \in EimIds
      <4>1. \A i \in DOMAIN list : list[i] \in AnyType
        BY ElementType
      <4> QED BY <4>1 DEF AnyType
    <3> QED BY <1>0, <1>a, <2>1, <2>2, <3>1 DEF Handouts
  <2>4. Below(handouts', token_counter')
    <3>1. \A h \in handouts : h[2] \in 1..token_counter
      BY DEF IInv, Sound, Below
    <3>2. \A h \in Assigned(list) : h[2] \in (token_counter + 1)..(token_counter + total)
      BY <2>2
    <3> QED BY <1>0, <1>a, <2>1, <3>1, <3>2 DEF Below
  <2>5. OneOwner(handouts')
    <3> SUFFICES ASSUME NEW a \in handouts', NEW b \in handouts', a[2] = b[2]
                 PROVE  a[1] = b[1]
      BY DEF OneOwner
    <3>1. CASE a \in handouts /\ b \in handouts
      BY <3>1 DEF IInv, Sound, OneOwner
    <3>2. \A h \in handouts, g \in Assigned(list) : h[2] # g[2]
      BY <1>0, <1>a, <2>2 DEF IInv, Sound, Below
    <3>3. CASE a \in Assigned(list) /\ b \in Assigned(list)
      BY <1>0, <1>a, <2>2, <3>3, NewTokensDiffer
    <3> QED BY <2>1, <3>1, <3>2, <3>3
  <2>6. Owned(cfg', handouts')
    <3>1. DOMAIN cfg' = DOMAIN list /\ \A i \in DOMAIN list : cfg'[i].id = list[i].id
      <4>1. \A i \in DOMAIN list : list[i] \in AnyType
        OBVIOUS
      <4> QED BY <2>1, <4>1 DEF complete_eim_cfg_list, AnyType
    <3>2. ASSUME NEW i \in DOMAIN list, cfg'[i].token # NoToken
          PROVE  <<cfg'[i].id, cfg'[i].token>> \in handouts'
      <4>1. list[i] \in AnyType
        OBVIOUS
      <4>2. CASE list[i].token = Requested
        <5>1. cfg'[i].token = NewToken(list, i)
          BY <2>1, <4>1, <4>2 DEF complete_eim_cfg_list, AnyType
        <5> QED BY <2>1, <3>1, <4>2, <5>1 DEF Assigned
      <4>3. CASE list[i].token # Requested
        <5>1. cfg'[i] = list[i] /\ list[i].token \in Nat
          BY <2>1, <3>2, <4>1, <4>3 DEF complete_eim_cfg_list, AnyType
        <5> QED BY <2>1, <5>1
      <4> QED BY <4>2, <4>3
    <3> QED BY <3>1, <3>2 DEF Owned, IdsDiffer
  <2> QED BY <1>0, <1>a, <1>1, <2>1, <2>3, <2>4, <2>5, <2>6, AcceptedIsStored DEF Sound
<1>2. CASE ~Accepts(list)
  <2> DEFINE served == ServedInVain(list)
  <2>1. served \in Nat
    <3>1. IsFiniteSet(DOMAIN list)
      BY <1>0, FS_Interval
    <3>2. IsFiniteSet({i \in DOMAIN list : /\ list[i].token = Requested
                                           /\ \A j \in 1..i : Complete(list[j])})
      BY <3>1, FS_Subset
    <3> QED BY <3>2, FS_CardinalityType DEF ServedInVain
  <2>2. token_counter' = token_counter + served /\ UNCHANGED <<cfg, stored, handouts>>
    BY <1>2 DEF add_init_eim_iot_emu
  <2>3. Below(handouts, token_counter')
    BY <1>0, <2>1, <2>2 DEF IInv, Sound, Below
  <2> QED BY <1>0, <2>1, <2>2, <2>3 DEF IInv, TypeOK, Sound
<1> QED BY <1>1, <1>2

LEMMA InitIInv == Init => IInv
<1> SUFFICES ASSUME Init PROVE IInv
  OBVIOUS
<1>1. TypeOK
  BY EmptyCfg DEF Init, TypeOK, Codes, Handouts
<1> QED BY <1>1 DEF Init, IInv, Sound, Owned, IdsDiffer, Below, OneOwner

(* A fresh state is sound. *)
LEMMA FreshIsSound ==
  ASSUME Fresh
  PROVE  /\ cfg' \in Cfgs /\ stored' \in BOOLEAN /\ token_counter' \in Nat
         /\ handouts' \in Handouts
         /\ Sound(cfg', handouts', token_counter')
BY EmptyCfg DEF Fresh, Handouts, Sound, Owned, IdsDiffer, Below, OneOwner

(* What a step has to show when it leaves the file alone. *)
Memory ==
  /\ cfg \in Cfgs /\ stored \in BOOLEAN /\ token_counter \in Nat /\ handouts \in Handouts
  /\ Sound(cfg, handouts, token_counter)

Rest ==
  /\ pc \in {"down", "ready", "polling", "saving"}
  /\ eim_id \in EimIds \cup {NoEim} /\ eim_fqdn \in Fqdns \cup {NoFqdn}
  /\ answer.code \in Codes /\ crashes \in Nat

LEMMA DiskKept ==
  ASSUME IInv, UNCHANGED disk, Memory', Rest'
  PROVE  IInv'
BY DEF IInv, TypeOK, disk, Memory, Rest, Images

LEMMA MemoryKept ==
  ASSUME IInv, UNCHANGED nvstate
  PROVE  Memory'
BY DEF IInv, TypeOK, nvstate, Memory, Sound, Owned, IdsDiffer, Below, OneOwner, Cfgs, Handouts

LEMMA NextIInv == IInv /\ [Next]_vars => IInv'
<1> SUFFICES ASSUME IInv, [Next]_vars PROVE IInv'
  OBVIOUS
<1>0. Memory /\ Rest /\ version \in Nat
  BY DEF IInv, TypeOK, Memory, Rest
<1>1. CASE ipa_new_ctx
  <2>0. Rest'
    <3>1. pc' \in {pc, "ready"} /\ answer'.code \in {"ok", "died"} /\ UNCHANGED <<eim, crashes>>
      <4>1. UNCHANGED <<eim, crashes>>
        BY <1>1 DEF ipa_new_ctx
      <4>2. pc' \in {pc, "ready"}
        BY <1>1 DEF ipa_new_ctx
      <4>3. Answer("ipa_new_ctx", "ok") \/ Answer("ipa_new_ctx", "died")
        BY <1>1 DEF ipa_new_ctx
      <4>4. answer'.code \in {"ok", "died"}
        BY <4>3 DEF Answer, EcoAnswer
      <4> QED BY <4>1, <4>2, <4>4
    <3> QED BY <1>0, <3>1 DEF Rest, Codes, eim
  <2>1. CASE Readable(file) /\ Loads(file)
    <3>1. Sound(file.cfg, fileHandouts, file.token_counter) /\ file \in Images
          /\ fileHandouts \in Handouts
      BY <2>1 DEF IInv, TypeOK, Readable
    <3>2. Memory'
      BY <2>1, <3>1 DEF Loads, Images, Memory
    <3> QED BY <1>1, <2>0, <3>2, DiskKept DEF ipa_new_ctx
  <2>2. CASE Fresh
    <3>1. Memory'
      BY <2>2, FreshIsSound DEF Memory
    <3> QED BY <1>1, <2>0, <3>1, DiskKept DEF ipa_new_ctx
  <2>3. CASE UNCHANGED nvstate
    BY <1>1, <2>0, <2>3, MemoryKept, DiskKept DEF ipa_new_ctx
  <2> QED BY <1>1, <2>1, <2>2, <2>3 DEF ipa_new_ctx
<1>2. CASE eim_init
  <2>1. Rest'
    <3>1. \A i \in DOMAIN cfg : cfg[i].id \in EimIds /\ cfg[i].fqdn \in Fqdns
      <4>1. \A i \in DOMAIN cfg : cfg[i] \in StoredType
        BY <1>0, ElementType DEF Memory, Cfgs
      <4> QED BY <4>1 DEF StoredType
    <3> QED BY <1>0, <1>2, <3>1 DEF eim_init, Suitable, Rest, Answer, EcoAnswer, Codes, eim
  <2> QED BY <1>2, <2>1, MemoryKept, DiskKept DEF eim_init
<1>3. CASE undecodable_cfg
  BY <1>0, <1>3, MemoryKept, DiskKept DEF undecodable_cfg, Rest, Answer, EcoAnswer, Codes, eim
<1>4. ASSUME NEW list \in InitCfgs, ipa_add_init_eim_cfg(list) PROVE IInv'
  <2>1. list \in Seq(EntryType) /\ IdsDiffer(list)
    BY StoreAssumption
  <2>2. list \in Seq(AnyType)
    BY <2>1, EntryIsAny, SeqOfSubset
  <2>3. \A i \in DOMAIN list : list[i].token \notin Nat
    <3>1. \A i \in DOMAIN list : list[i] \in EntryType
      BY <2>1, ElementType
    <3> QED BY <3>1, StoreAssumption DEF EntryType, Requested
  <2>4. Memory'
    BY <1>4, <2>1, <2>2, <2>3, StoreAssumption, WriteIsSound DEF ipa_add_init_eim_cfg, Memory
  <2> QED BY <1>0, <1>4, <2>4, DiskKept DEF ipa_add_init_eim_cfg, Rest, Answer, EcoAnswer, Codes, eim
<1>5. ASSUME NEW b \in BOOLEAN, ipa_euicc_mem_rst(b) PROVE IInv'
  <2>1. Rest'
    BY <1>0, <1>5 DEF ipa_euicc_mem_rst, Rest, Answer, EcoAnswer, Codes, eim
  <2>2. CASE UNCHANGED nvstate
    BY <1>5, <2>1, <2>2, MemoryKept, DiskKept DEF ipa_euicc_mem_rst
  <2>3. CASE cfg' = <<>> /\ stored' = FALSE /\ UNCHANGED <<token_counter, handouts>>
    <3>1. Memory'
      BY <1>0, <2>3, EmptyCfg DEF Memory, Sound, Owned, IdsDiffer, Below, OneOwner
    <3> QED BY <1>5, <2>1, <3>1, DiskKept DEF ipa_euicc_mem_rst
  <2> QED BY <1>5, <2>2, <2>3 DEF ipa_euicc_mem_rst, ResetCounter
<1>6. ASSUME NEW e \in Additions, iot_emo_do_addEim_eco(e) PROVE IInv'
  <2>1. Rest'
    BY <1>0, <1>6 DEF iot_emo_do_addEim_eco, Rest, Answer, EcoAnswer, Codes, eim
  <2>2. CASE e.id \in Ids(cfg)
    BY <1>6, <2>1, <2>2, MemoryKept, DiskKept DEF iot_emo_do_addEim_eco
  <2>3. CASE e.id \notin Ids(cfg)
    <3> DEFINE list == Append(cfg, e)
    <3>1. e \in EntryType /\ cfg \in Seq(StoredType)
      BY <1>0, StoreAssumption DEF Memory, Cfgs
    <3>2. e \in AnyType /\ cfg \in Seq(AnyType)
      BY <3>1, EntryIsAny, StoredIsAny, SeqOfSubset
    <3>3. /\ list \in Seq(AnyType) /\ DOMAIN list = 1..(Len(cfg) + 1) /\ Len(cfg) \in Nat
          /\ DOMAIN cfg = 1..Len(cfg)
          /\ \A i \in 1..Len(cfg) : list[i] = cfg[i]
          /\ list[Len(cfg) + 1] = e
      BY <3>2
    <3>4. IdsDiffer(list)
      BY <1>0, <2>3, <3>3 DEF IdsDiffer, Ids, Memory, Sound, Owned
    <3>5. ASSUME NEW i \in DOMAIN list, list[i].token \in Nat
          PROVE  <<list[i].id, list[i].token>> \in handouts
      <4>1. e.token \notin Nat
        BY <3>1, StoreAssumption DEF EntryType, Requested
      <4>2. i \in 1..Len(cfg)
        BY <3>3, <3>5, <4>1
      <4>3. cfg[i].token # NoToken
        BY <3>3, <3>5, <4>2, StoreAssumption
      <4> QED BY <1>0, <3>3, <4>2, <4>3 DEF Memory, Sound, Owned
    <3>6. add_init_eim_iot_emu(list)
      BY <1>6, <2>3 DEF iot_emo_do_addEim_eco
    <3>7. Memory'
      BY <3>3, <3>4, <3>5, <3>6, StoreAssumption, WriteIsSound DEF Memory
    <3> QED BY <1>6, <2>1, <3>7, DiskKept DEF iot_emo_do_addEim_eco
  <2> QED BY <2>2, <2>3
<1>7. ASSUME NEW id \in EimIds, iot_emo_do_deleteEim_eco(id) PROVE IInv'
  <2>1. Rest'
    BY <1>0, <1>7 DEF iot_emo_do_deleteEim_eco, Rest, Answer, EcoAnswer, Codes, eim
  <2>2. CASE id \notin Ids(cfg)
    BY <1>7, <2>1, <2>2, MemoryKept, DiskKept DEF iot_emo_do_deleteEim_eco
  <2>3. CASE id \in Ids(cfg)
    <3> DEFINE k == At(id)
               list == Skip(cfg, k)
    <3>0. k \in DOMAIN cfg
      BY <2>3 DEF At, Ids
    <3>1. cfg \in Seq(AnyType)
      BY <1>0, StoredIsAny, SeqOfSubset DEF Memory, Cfgs
    <3>2. /\ Len(cfg) \in Nat /\ DOMAIN cfg = 1..Len(cfg)
          /\ \A i \in DOMAIN cfg : cfg[i] \in AnyType
      BY <3>1, ElementType
    <3>3. /\ Len(cfg) - 1 \in Nat /\ k \in Nat
          /\ list = [i \in 1..(Len(cfg) - 1) |-> IF i < k THEN cfg[i] ELSE cfg[i + 1]]
      BY <3>0, <3>2 DEF Skip
    <3> HIDE DEF k
    <3>4. /\ list \in Seq(AnyType) /\ DOMAIN list = 1..(Len(cfg) - 1)
          /\ \A i \in DOMAIN list : list[i] = IF i < k THEN cfg[i] ELSE cfg[i + 1]
      BY <3>2, <3>3, SeqIntro
    <3> HIDE DEF list
    <3>5. IdsDiffer(list)
      <4>1. IdsDiffer(cfg)
        BY <1>0 DEF Memory, Sound, Owned
      <4> DEFINE from(i) == IF i < k THEN i ELSE i + 1
      <4>2. \A i \in DOMAIN list : from(i) \in DOMAIN cfg /\ list[i] = cfg[from(i)]
        BY <3>2, <3>3, <3>4
      <4>3. \A i, j \in DOMAIN list : from(i) = from(j) => i = j
        BY <3>2, <3>3, <3>4
      <4> HIDE DEF from
      <4> QED BY <4>1, <4>2, <4>3 DEF IdsDiffer
    <3>6. \A i \in DOMAIN list :
             list[i].token \in Nat => <<list[i].id, list[i].token>> \in handouts
      <4>1. \A i \in DOMAIN cfg :
               cfg[i].token \in Nat => <<cfg[i].id, cfg[i].token>> \in handouts
        BY <1>0, StoreAssumption DEF Memory, Sound, Owned
      <4> QED BY <3>2, <3>3, <3>4, <4>1
    <3>7. add_init_eim_iot_emu(list)
      BY <1>7, <2>3 DEF iot_emo_do_deleteEim_eco, k, list
    <3>8. Memory'
      BY <3>4, <3>5, <3>6, <3>7, StoreAssumption, WriteIsSound DEF Memory
    <3> QED BY <1>7, <2>1, <3>8, DiskKept DEF iot_emo_do_deleteEim_eco
  <2> QED BY <2>2, <2>3
<1>8. ASSUME NEW id \in EimIds, NEW u \in Updates, iot_emo_do_updateEim_eco(id, u) PROVE IInv'
  <2>1. CASE id \notin Ids(cfg)
    <3>1. Rest'
      BY <1>0, <1>8, <2>1 DEF iot_emo_do_updateEim_eco, Rest, Answer, EcoAnswer, Codes, eim
    <3>2. Memory'
      BY <1>8, <2>1, MemoryKept, FreshIsSound DEF iot_emo_do_updateEim_eco, Memory
    <3> QED BY <1>8, <3>1, <3>2, DiskKept DEF iot_emo_do_updateEim_eco
  <2>2. CASE id \in Ids(cfg)
    <3>1. Rest'
      BY <1>0, <1>8, <2>2 DEF iot_emo_do_updateEim_eco, Rest, Answer, EcoAnswer, Codes, eim
    <3>2. PICK accepted \in BOOLEAN :
             add_init_eim_iot_emu([cfg EXCEPT ![At(id)] = Updated(@, u, accepted)])
      BY <1>8, <2>2 DEF iot_emo_do_updateEim_eco
    <3> DEFINE list == [cfg EXCEPT ![At(id)] = Updated(@, u, accepted)]
    <3>3. /\ cfg \in Seq(StoredType) /\ u \in UpdateType
      BY <1>0, StoreAssumption DEF Memory, Cfgs
    <3>4. ASSUME NEW i \in DOMAIN cfg
          PROVE  list[i] \in AnyType /\ list[i].id = cfg[i].id /\ list[i].token = cfg[i].token
      <4>1. cfg[i] \in StoredType
        BY <3>3
      <4>2. /\ Updated(cfg[i], u, accepted) \in AnyType
            /\ Updated(cfg[i], u, accepted).id = cfg[i].id
            /\ Updated(cfg[i], u, accepted).token = cfg[i].token
        BY <3>3, <4>1 DEF Updated, StoredType, UpdateType, AnyType
      <4>3. cfg[i] \in AnyType
        BY <4>1 DEF StoredType, AnyType
      <4> QED BY <3>3, <4>2, <4>3
    <3>5. DOMAIN list = DOMAIN cfg /\ list \in Seq(AnyType)
      <4>1. list = [i \in 1..Len(cfg) |-> list[i]] /\ DOMAIN cfg = 1..Len(cfg) /\ Len(cfg) \in Nat
        BY <3>3
      <4> HIDE DEF list
      <4> QED BY <3>4, <4>1, SeqIntro
    <3> HIDE DEF list
    <3>6. IdsDiffer(list)
      BY <1>0, <3>4, <3>5 DEF IdsDiffer, Memory, Sound, Owned
    <3>7. \A i \in DOMAIN list :
             list[i].token \in Nat => <<list[i].id, list[i].token>> \in handouts
      BY <1>0, <3>4, <3>5, StoreAssumption DEF Memory, Sound, Owned
    <3>8. Memory'
      BY <3>2, <3>5, <3>6, <3>7, StoreAssumption, WriteIsSound DEF Memory, list
    <3> QED BY <1>8, <3>1, <3>8, DiskKept DEF iot_emo_do_updateEim_eco
  <2> QED BY <2>1, <2>2
<1>9. CASE ipa_free_ctx
  <2>1. CASE Down /\ UNCHANGED <<file, fileHandouts>>
    BY <1>0, <1>9, <2>1, FreshIsSound, DiskKept
       DEF ipa_free_ctx, Down, Memory, Rest, Answer, EcoAnswer, Codes, disk
  <2>2. CASE pc' = "saving" /\ file' = Torn /\ fileHandouts' = {} /\ UNCHANGED <<nvstate, eim>>
    <3>1. Memory' /\ Rest'
      BY <1>0, <1>9, <2>2, MemoryKept DEF ipa_free_ctx, Rest, Answer, EcoAnswer, Codes, eim
    <3>2. OneOwner(fileHandouts)' /\ fileHandouts' \in Handouts
      BY <2>2 DEF OneOwner, Handouts
    <3> QED BY <1>0, <1>9, <2>2, <3>1, <3>2 DEF ipa_free_ctx, IInv, TypeOK, Memory, Rest
  <2> QED BY <1>9, <2>1, <2>2 DEF ipa_free_ctx
<1>10. CASE save_nvstate_to_file
  <2>1. Memory' /\ Rest'
    BY <1>0, <1>10, FreshIsSound DEF save_nvstate_to_file, Down, Memory, Rest, Answer, EcoAnswer, Codes
  <2>2. CASE UNCHANGED <<file, fileHandouts>>
    BY <1>10, <2>1, <2>2, DiskKept DEF save_nvstate_to_file, disk
  <2>3. CASE file' = Image /\ fileHandouts' = handouts
    <3>1. file' \in Images
      BY <1>0, <2>3 DEF Image, Images, Memory
    <3>2. Sound(file'.cfg, fileHandouts', file'.token_counter) /\ fileHandouts' \in Handouts
      BY <1>0, <2>3 DEF Image, Memory
    <3> QED BY <1>0, <1>10, <2>1, <3>1, <3>2
            DEF save_nvstate_to_file, IInv, TypeOK, Memory, Rest, Sound
  <2> QED BY <1>10, <2>2, <2>3 DEF save_nvstate_to_file
<1>11. CASE Crash
  BY <1>0, <1>11, FreshIsSound, DiskKept DEF Crash, Down, Memory, Rest, Answer, EcoAnswer, Codes
<1>12. CASE Upgrade
  <2>1. Memory' /\ Rest'
    BY <1>0, <1>12, MemoryKept DEF Upgrade, Rest, eim
  <2> QED BY <1>0, <1>12, <2>1 DEF Upgrade, IInv, TypeOK, Memory, Rest
<1>13. CASE UNCHANGED vars
  BY <1>0, <1>13, MemoryKept, DiskKept DEF vars, Rest, eim
<1> QED BY <1>1, <1>2, <1>3, <1>4, <1>5, <1>6, <1>7, <1>8, <1>9, <1>10, <1>11, <1>12, <1>13
        DEF Next, Application, Ecos

THEOREM StoreIInv == Spec => []IInv
BY InitIInv, NextIInv, PTL DEF Spec

(* The store and its file only ever hold complete entries. *)
THEOREM StoreTypeCorrect == Spec => []TypeOK
<1>1. IInv => TypeOK
  BY DEF IInv
<1> QED BY <1>1, StoreIInv, PTL

(* An association token never has two owners as long as the non volatile state
   lives.                                                                       *)
THEOREM TokensNeverReassigned == Spec => []TokensDistinct
<1>1. IInv => TokensDistinct
  BY DEF IInv, Sound, TokensDistinct
<1> QED BY <1>1, StoreIInv, PTL

(* Every configured token belongs to the eIM it is configured for, and to no
   other configured eIM.                                                      *)
THEOREM ConfiguredTokensOwned == Spec => []ConfiguredTokens
<1>1. IInv => ConfiguredTokens
  <2> SUFFICES ASSUME IInv PROVE ConfiguredTokens
    OBVIOUS
  <2>1. Owned(cfg, handouts) /\ OneOwner(handouts)
    BY DEF IInv, Sound
  <2>2. ASSUME NEW i \in DOMAIN cfg, NEW j \in DOMAIN cfg, cfg[i].token = cfg[j].token,
               cfg[i].token # NoToken
        PROVE  i = j
    <3>1. <<cfg[i].id, cfg[i].token>> \in handouts /\ <<cfg[j].id, cfg[j].token>> \in handouts
      BY <2>1, <2>2 DEF Owned
    <3>2. cfg[i].id = cfg[j].id
      BY <2>1, <2>2, <3>1 DEF OneOwner
    <3> QED BY <2>1, <3>2 DEF Owned, IdsDiffer
  <2> QED BY <2>1, <2>2 DEF ConfiguredTokens
<1> QED BY <1>1, StoreIInv, PTL

-----------------------------------------------------------------------------
(* The directory that a list stands for *)

LEMMA DirOfIs ==
  ASSUME NEW list, IdsDiffer(list)
  PROVE  /\ DOMAIN DirOf(list) = Ids(list)
         /\ \A i \in DOMAIN list : DirOf(list)[list[i].id] = list[i].fqdn
         /\ DirOf(list) = [id \in Ids(list) |-> DirOf(list)[id]]
<1>1. \A i \in DOMAIN list : (CHOOSE j \in DOMAIN list : list[j].id = list[i].id) = i
  BY DEF IdsDiffer
<1>2. \A i \in DOMAIN list : list[i].id \in Ids(list)
  BY DEF Ids
<1> DEFINE at(id) == CHOOSE j \in DOMAIN list : list[j].id = id
<1>3. DirOf(list) = [id \in Ids(list) |-> list[at(id)].fqdn]
  BY DEF DirOf
<1>4. \A i \in DOMAIN list : at(list[i].id) = i
  BY <1>1
<1> HIDE DEF at
<1> QED BY <1>2, <1>3, <1>4

LEMMA DirOfUnique ==
  ASSUME NEW list, IdsDiffer(list), NEW d, d = [id \in Ids(list) |-> d[id]],
         \A i \in DOMAIN list : d[list[i].id] = list[i].fqdn
  PROVE  DirOf(list) = d
<1>1. \A id \in Ids(list) : DirOf(list)[id] = d[id]
  <2> TAKE id \in Ids(list)
  <2>1. PICK i \in DOMAIN list : id = list[i].id
    BY DEF Ids
  <2> QED BY <2>1, DirOfIs
<1>2. DirOf(list) = [id \in Ids(list) |-> DirOf(list)[id]]
  BY DirOfIs
<1> QED BY <1>1, <1>2

LEMMA DirOfType ==
  ASSUME NEW list \in Cfgs, IdsDiffer(list)
  PROVE  DirOf(list) \in Directory!Directories /\ Ids(list) \subseteq EimIds
<1>1. \A i \in DOMAIN list : list[i].id \in EimIds /\ list[i].fqdn \in Fqdns
  <2>1. \A i \in DOMAIN list : list[i] \in StoredType
    BY ElementType DEF Cfgs
  <2> QED BY <2>1 DEF StoredType
<1>2. Ids(list) \subseteq EimIds
  BY <1>1 DEF Ids
<1>3. \A id \in Ids(list) : DirOf(list)[id] \in Fqdns
  BY <1>1, DirOfIs DEF Ids
<1>4. DirOf(list) \in [Ids(list) -> Fqdns]
  BY <1>3, DirOfIs
<1> QED BY <1>2, <1>4 DEF Directory!Directories

LEMMA EmptyDir == DirOf(<<>>) = Directory!Empty /\ IdsDiffer(<<>>) /\ Ids(<<>>) = {}
<1>1. IdsDiffer(<<>>) /\ Ids(<<>>) = {}
  BY EmptyCfg DEF IdsDiffer, Ids
<1>2. DirOf(<<>>) \in Directory!Directories /\ DOMAIN DirOf(<<>>) = {}
  BY <1>1, EmptyCfg, DirOfType, DirOfIs
<1>3. Directory!Empty \in Directory!Directories /\ DOMAIN Directory!Empty = {}
  BY <1>2 DEF Directory!Empty
<1>4. \A d \in Directory!Directories : d = [id \in DOMAIN d |-> d[id]]
  BY DEF Directory!Directories
<1> QED BY <1>1, <1>2, <1>3, <1>4

(* Writing a list keeps its eIMs and their addresses. *)
LEMMA WrittenDir ==
  ASSUME NEW list \in Seq(AnyType), IdsDiffer(list), Accepts(list), add_init_eim_iot_emu(list)
  PROVE  DirOf(cfg') = DirOf(list)
<1>1. cfg' = complete_eim_cfg_list(list)
  BY DEF add_init_eim_iot_emu
<1>2. \A i \in DOMAIN list : list[i] \in AnyType
  BY ElementType
<1>3. /\ DOMAIN cfg' = DOMAIN list
      /\ \A i \in DOMAIN list : cfg'[i].id = list[i].id /\ cfg'[i].fqdn = list[i].fqdn
  BY <1>1, <1>2 DEF complete_eim_cfg_list, AnyType
<1>4. IdsDiffer(cfg') /\ Ids(cfg') = Ids(list)
  BY <1>3 DEF IdsDiffer, Ids
<1>5. \A i \in DOMAIN cfg' : DirOf(list)[cfg'[i].id] = cfg'[i].fqdn
  BY <1>3, DirOfIs
<1>6. DirOf(list) = [id \in Ids(cfg') |-> DirOf(list)[id]]
  BY <1>4, DirOfIs
<1> QED BY <1>4, <1>5, <1>6, DirOfUnique

-----------------------------------------------------------------------------
(* A stopped IPAd holds nothing; the file was not written by a later version. *)
Rested ==
  /\ pc = "down" => cfg = <<>> /\ answer.of = NoEim
  /\ file \notin {NoFile, Torn} => file.version <= version

LEMMA Restarted ==
  ASSUME ipa_new_ctx
  PROVE  /\ pc = "down" /\ UNCHANGED disk /\ answer'.of = NoEim
         /\ pc' = "ready" \/ UNCHANGED <<pc, cfg>>
<1>1. pc = "down" /\ UNCHANGED disk
  BY DEF ipa_new_ctx
<1>2. Answer("ipa_new_ctx", "ok") \/ Answer("ipa_new_ctx", "died")
  BY DEF ipa_new_ctx
<1>3. answer'.of = NoEim
  BY <1>2 DEF Answer
<1>4. pc' = "ready" \/ UNCHANGED <<pc, nvstate>>
  BY DEF ipa_new_ctx
<1> QED BY <1>1, <1>3, <1>4 DEF nvstate

LEMMA NotFoundOrDied ==
  ASSUME NEW id, NEW u, iot_emo_do_updateEim_eco(id, u)
  PROVE  /\ UNCHANGED disk
         /\ pc' = "polling" \/ (Fresh /\ answer'.of = NoEim)
<1>1. UNCHANGED disk
  BY DEF iot_emo_do_updateEim_eco
<1>2. pc' = "polling" \/ (Fresh /\ Answer("updateEim", "died"))
  BY DEF iot_emo_do_updateEim_eco
<1> QED BY <1>1, <1>2 DEF Answer

LEMMA RestedNext == ASSUME IInv, Rested, [Next]_vars PROVE Rested'
<1>0. version \in Nat
  BY DEF IInv, TypeOK
<1> USE <1>0 DEF nvstate, disk, eim, Answer, EcoAnswer
<1>1. CASE ipa_new_ctx
  BY <1>1, Restarted DEF Rested
<1>2. CASE eim_init \/ undecodable_cfg
  BY <1>2 DEF Rested, eim_init, undecodable_cfg
<1>3. ASSUME NEW list \in InitCfgs, ipa_add_init_eim_cfg(list) PROVE Rested'
  BY <1>3 DEF Rested, ipa_add_init_eim_cfg
<1>4. ASSUME NEW b \in BOOLEAN, ipa_euicc_mem_rst(b) PROVE Rested'
  BY <1>4 DEF Rested, ipa_euicc_mem_rst
<1>5. CASE ipa_free_ctx
  <2>1. CASE Down /\ UNCHANGED <<file, fileHandouts>>
    BY <1>5, <2>1 DEF Rested, ipa_free_ctx, Down, Fresh
  <2>2. CASE pc' = "saving" /\ file' = Torn
    BY <1>5, <2>2 DEF Rested, ipa_free_ctx
  <2> QED BY <1>5, <2>1, <2>2 DEF ipa_free_ctx
<1>6. CASE save_nvstate_to_file
  BY <1>6 DEF Rested, save_nvstate_to_file, Down, Fresh, Image
<1>7. CASE Crash
  BY <1>7 DEF Rested, Crash, Down, Fresh
<1>8. CASE Upgrade
  <2>1. file \notin {NoFile, Torn} => file.version \in Nat
    BY DEF IInv, TypeOK, Images
  <2> QED BY <1>8, <2>1 DEF Rested, Upgrade
<1>9. ASSUME NEW e \in Additions, iot_emo_do_addEim_eco(e) PROVE Rested'
  BY <1>9 DEF Rested, iot_emo_do_addEim_eco
<1>10. ASSUME NEW id \in EimIds, iot_emo_do_deleteEim_eco(id) PROVE Rested'
  BY <1>10 DEF Rested, iot_emo_do_deleteEim_eco
<1>11. ASSUME NEW id \in EimIds, NEW u \in Updates, iot_emo_do_updateEim_eco(id, u) PROVE Rested'
  BY <1>11, NotFoundOrDied DEF Rested, Fresh
<1>12. CASE UNCHANGED vars
  BY <1>12 DEF Rested, vars
<1> QED BY <1>1, <1>2, <1>3, <1>4, <1>5, <1>6, <1>7, <1>8, <1>9, <1>10, <1>11, <1>12
        DEF Next, Application, Ecos

(* Every step of the store is one of the directory, or none that shows there. *)
LEMMA DirectoryStep ==
  ASSUME IInv, IInv', Rested, [Next]_vars
  PROVE  Directory!Next \/ UNCHANGED Directory!vars
<1> USE StoreAssumption, MarkAssumption DEF nvstate, disk, eim
<1>a. /\ cfg \in Cfgs /\ IdsDiffer(cfg) /\ cfg' \in Cfgs /\ IdsDiffer(cfg')
      /\ file \in Images \cup {NoFile, Torn}
  BY DEF IInv, TypeOK, Sound, Owned
<1>b. /\ DirOf(cfg') \in Directory!Directories /\ DirOf(cfg) \in Directory!Directories
      /\ Ids(cfg) \subseteq EimIds
  BY <1>a, DirOfType
<1>c. /\ cfg \in Seq(AnyType) /\ Accepts(cfg)
  <2>1. \A i \in DOMAIN cfg : cfg[i] \in StoredType
    BY <1>a, ElementType DEF Cfgs
  <2>2. Accepts(cfg)
    BY <2>1 DEF Accepts, Complete, StoredType
  <2> QED BY <1>a, <2>2, StoredIsAny, SeqOfSubset DEF Cfgs
<1>d. /\ DirOf(cfg) = [id \in Ids(cfg) |-> DirOf(cfg)[id]] /\ DOMAIN DirOf(cfg) = Ids(cfg)
      /\ \A i \in DOMAIN cfg : DirOf(cfg)[cfg[i].id] = cfg[i].fqdn
  BY <1>a, DirOfIs
<1>e. UNCHANGED <<file, version>> => Kept' = Kept
  BY DEF Kept, Readable
<1>f. answer'.of = NoEim => Said' = Directory!Silence
  BY DEF Said, Directory!Silence
<1>g. cfg' = <<>> => DirOf(cfg') = Directory!Empty
  BY EmptyDir
<1>h. \A id \in EimIds : answer'.of = id => Said' = [of |-> id, code |-> answer'.code]
  BY DEF Said
<1>1. CASE ipa_new_ctx
  <2>1. UNCHANGED <<file, version>> /\ answer'.of = NoEim /\ pc = "down"
    BY <1>1, Restarted
  <2>2. CASE pc' = "ready"
    <3>1. DirOf(cfg') = IF Kept = Torn THEN Directory!Empty ELSE Kept
      <4>1. CASE Readable(file)
        <5>1. cfg' = file.cfg
          BY <1>1, <2>1, <2>2, <4>1 DEF ipa_new_ctx, Loads
        <5>2. Kept = DirOf(file.cfg)
          BY <4>1 DEF Kept, Readable
        <5> QED BY <1>b, <5>1, <5>2
      <4>2. CASE ~Readable(file)
        <5>1. cfg' = <<>>
          BY <1>1, <2>1, <2>2, <4>2 DEF ipa_new_ctx, Fresh
        <5>2. Kept = Torn \/ Kept = Directory!Empty
          BY <4>2, EmptyDir DEF Kept
        <5> QED BY <1>g, <5>1, <5>2
      <4> QED BY <4>1, <4>2
    <3>2. Directory!Start
      BY <1>e, <1>f, <2>1, <2>2, <3>1 DEF Directory!Start
    <3> QED BY <3>2 DEF Directory!Next
  <2>3. CASE pc' = pc
    <3>1. UNCHANGED <<pc, cfg>> /\ Said' = Said
      BY <1>1, <1>f, <2>1, <2>3 DEF ipa_new_ctx, Rested, Said, Directory!Silence
    <3> QED BY <1>e, <2>1, <3>1 DEF Directory!vars
  <2> QED BY <1>1, <2>2, <2>3 DEF ipa_new_ctx
<1>2. CASE eim_init \/ undecodable_cfg
  <2>1. /\ pc # "down" /\ pc' # "down" /\ UNCHANGED <<cfg, file, version>> /\ answer'.of = NoEim
    BY <1>2 DEF eim_init, undecodable_cfg, Answer
  <2>2. Directory!Pause
    BY <1>e, <1>f, <2>1 DEF Directory!Pause
  <2> QED BY <2>2 DEF Directory!Next
<1>3. CASE \/ \E list \in InitCfgs : ipa_add_init_eim_cfg(list)
           \/ \E b \in BOOLEAN : ipa_euicc_mem_rst(b)
  <2>1. /\ pc # "down" /\ pc' # "down" /\ UNCHANGED <<file, version>> /\ answer'.of = NoEim
    BY <1>3 DEF ipa_add_init_eim_cfg, ipa_euicc_mem_rst, Answer
  <2>2. Directory!Replace(DirOf(cfg'))
    BY <1>e, <1>f, <2>1 DEF Directory!Replace
  <2> QED BY <1>b, <2>2 DEF Directory!Next
<1>4. CASE ipa_free_ctx
  <2>1. pc # "down" /\ answer'.of = NoEim /\ version' = version
    BY <1>4 DEF ipa_free_ctx, Running, Answer
  <2>2. CASE pc' = "saving" /\ file' = Torn /\ cfg' = cfg
    <3>1. Kept' = Torn
      BY <2>2 DEF Kept, Readable
    <3>2. Directory!BeginCopy
      BY <1>f, <2>1, <2>2, <3>1 DEF Directory!BeginCopy
    <3> QED BY <3>2 DEF Directory!Next
  <2>3. CASE Down /\ UNCHANGED file
    <3>1. Directory!Stop
      BY <1>e, <1>f, <1>g, <2>1, <2>3 DEF Directory!Stop, Down, Fresh
    <3> QED BY <3>1 DEF Directory!Next
  <2> QED BY <1>4, <2>2, <2>3 DEF ipa_free_ctx
<1>5. CASE save_nvstate_to_file
  <2>1. pc = "saving" /\ Down /\ answer'.of = NoEim /\ version' = version
    BY <1>5 DEF save_nvstate_to_file, Answer
  <2>2. CASE file' = file
    <3>1. Directory!Stop
      BY <1>e, <1>f, <1>g, <2>1, <2>2 DEF Directory!Stop, Down, Fresh
    <3> QED BY <3>1 DEF Directory!Next
  <2>3. CASE file' = Image
    <3>1. file'.version = version /\ file'.cfg = cfg /\ file' \in Images
      BY <2>3 DEF Image, Images, IInv, TypeOK
    <3>2. Kept' = DirOf(cfg)
      BY <2>1, <3>1 DEF Kept, Readable
    <3>3. Directory!Stop
      BY <1>f, <1>g, <2>1, <3>2 DEF Directory!Stop, Down, Fresh
    <3> QED BY <3>3 DEF Directory!Next
  <2> QED BY <1>5, <2>2, <2>3 DEF save_nvstate_to_file
<1>6. CASE Crash
  <2>1. Down /\ answer'.of = NoEim /\ UNCHANGED <<file, version>>
    BY <1>6 DEF Crash, Answer
  <2>2. Directory!Stop
    BY <1>e, <1>f, <1>g, <2>1 DEF Directory!Stop, Down, Fresh
  <2> QED BY <2>2 DEF Directory!Next
<1>7. CASE Upgrade
  <2>1. pc = "down" /\ UNCHANGED <<pc, cfg, answer, file>> /\ version' = version + 1
    BY <1>7 DEF Upgrade
  <2>2. Said' = Said
    BY <2>1 DEF Said
  <2>3. CASE file = NoFile
    <3>1. Kept' = Kept
      BY <2>1, <2>3 DEF Kept
    <3> QED BY <2>1, <2>2, <3>1 DEF Directory!vars
  <2>4. CASE file # NoFile
    <3>1. ~Readable(file)'
      <4>1. CASE file = Torn
        BY <2>1, <4>1 DEF Readable
      <4>2. CASE file # Torn
        <5>1. file.version <= version /\ file.version \in Nat /\ version \in Nat
          BY <1>a, <2>4, <4>2 DEF Rested, Images, IInv, TypeOK
        <5> QED BY <2>1, <5>1 DEF Readable
      <4> QED BY <4>1, <4>2
    <3>2. Kept' = Torn
      BY <2>1, <2>4, <3>1 DEF Kept
    <3>3. Directory!Upgrade
      BY <2>1, <2>2, <3>2 DEF Directory!Upgrade
    <3> QED BY <3>3 DEF Directory!Next
  <2> QED BY <2>3, <2>4
<1>8. ASSUME NEW e \in Additions, iot_emo_do_addEim_eco(e)
      PROVE  Directory!Next
  <2>0. /\ e \in EntryType /\ e.id \in EimIds
    BY DEF EntryType
  <2>1. /\ pc # "down" /\ pc' # "down" /\ UNCHANGED <<file, version>> /\ answer'.of = e.id
    BY <1>8 DEF iot_emo_do_addEim_eco, EcoAnswer
  <2>2. CASE e.id \in Ids(cfg)
    <3>1. Directory!Refuse(e.id, "exists")
      BY <1>8, <1>e, <1>h, <2>0, <2>1, <2>2
         DEF iot_emo_do_addEim_eco, EcoAnswer, Directory!Refuse, Directory!Says
    <3> QED BY <2>0, <3>1 DEF Directory!Next
  <2>3. CASE e.id \notin Ids(cfg)
    <3> DEFINE list == Append(cfg, e)
    <3>0. /\ list \in Seq(AnyType) /\ DOMAIN list = 1..(Len(cfg) + 1) /\ Len(cfg) \in Nat
          /\ DOMAIN cfg = 1..Len(cfg)
          /\ \A i \in 1..Len(cfg) : list[i] = cfg[i]
          /\ list[Len(cfg) + 1] = e
      <4>1. e \in AnyType
        BY <2>0, EntryIsAny
      <4> QED BY <1>c, <4>1
    <3>1. add_init_eim_iot_emu(list)
      BY <1>8, <2>3 DEF iot_emo_do_addEim_eco
    <3> HIDE DEF list
    <3>2. CASE ~Complete(e)
      <4>1. ~Accepts(list)
        BY <3>0, <3>2 DEF Accepts
      <4>2. cfg' = cfg /\ answer'.code = "error"
        BY <1>8, <2>3, <3>1, <3>2, <4>1 DEF add_init_eim_iot_emu, iot_emo_do_addEim_eco, EcoAnswer
      <4>3. Directory!Refuse(e.id, "error")
        BY <1>e, <1>h, <2>0, <2>1, <4>2 DEF Directory!Refuse, Directory!Says
      <4> QED BY <2>0, <4>3 DEF Directory!Next
    <3>3. CASE Complete(e)
      <4>0. answer'.code = "ok" /\ e.fqdn \in Fqdns
        BY <1>8, <2>0, <2>3, <3>3 DEF iot_emo_do_addEim_eco, EcoAnswer, Complete, EntryType
      <4>1. Accepts(list)
        BY <1>c, <3>0, <3>3 DEF Accepts
      <4>2. IdsDiffer(list) /\ Ids(list) = Ids(cfg) \cup {e.id}
        <5>1. IdsDiffer(list)
          BY <1>a, <2>3, <3>0 DEF IdsDiffer, Ids
        <5>2. Ids(list) = Ids(cfg) \cup {e.id}
          BY <3>0 DEF Ids
        <5> QED BY <5>1, <5>2
      <4> DEFINE d == [id \in Ids(cfg) \cup {e.id} |-> IF id = e.id THEN e.fqdn ELSE DirOf(cfg)[id]]
      <4>3. \A i \in DOMAIN list : d[list[i].id] = list[i].fqdn
        <5> TAKE i \in DOMAIN list
        <5>1. CASE i = Len(cfg) + 1
          BY <3>0, <5>1
        <5>2. CASE i \in DOMAIN cfg
          <6>1. list[i] = cfg[i] /\ cfg[i].id \in Ids(cfg) /\ cfg[i].id # e.id
            BY <2>3, <3>0, <5>2 DEF Ids
          <6> QED BY <1>d, <5>2, <6>1
        <5> QED BY <3>0, <5>1, <5>2
      <4>4. DirOf(cfg') = d
        <5>1. d = [id \in Ids(list) |-> d[id]]
          BY <4>2
        <5> HIDE DEF d
        <5>2. DirOf(list) = d
          BY <4>2, <4>3, <5>1, DirOfUnique
        <5> QED BY <3>0, <3>1, <4>1, <4>2, <5>2, WrittenDir
      <4>5. Directory!Add(e.id, e.fqdn)
        BY <1>d, <1>e, <1>h, <2>0, <2>1, <2>3, <4>0, <4>4
           DEF Directory!Add, Directory!Set, Directory!Says
      <4> QED BY <2>0, <4>0, <4>5 DEF Directory!Next
    <3> QED BY <3>2, <3>3
  <2> QED BY <2>2, <2>3
<1>9. ASSUME NEW id \in EimIds, iot_emo_do_deleteEim_eco(id)
      PROVE  Directory!Next
  <2>1. /\ pc # "down" /\ pc' # "down" /\ UNCHANGED <<file, version>> /\ answer'.of = id
    BY <1>9 DEF iot_emo_do_deleteEim_eco, EcoAnswer
  <2>2. CASE id \notin Ids(cfg)
    <3>1. Directory!Refuse(id, "notFound")
      BY <1>9, <1>e, <1>h, <2>1, <2>2
         DEF iot_emo_do_deleteEim_eco, EcoAnswer, Directory!Refuse, Directory!Says
    <3> QED BY <3>1 DEF Directory!Next
  <2>3. CASE id \in Ids(cfg)
    <3> DEFINE k == At(id)
               list == Skip(cfg, k)
    <3>0. k \in DOMAIN cfg /\ cfg[k].id = id /\ add_init_eim_iot_emu(list) /\ answer'.code = "ok"
      BY <1>9, <2>3 DEF At, Ids, iot_emo_do_deleteEim_eco, EcoAnswer
    <3>1. /\ Len(cfg) \in Nat /\ DOMAIN cfg = 1..Len(cfg)
          /\ \A i \in DOMAIN cfg : cfg[i] \in AnyType
      BY <1>c, ElementType
    <3>2. /\ Len(cfg) - 1 \in Nat /\ k \in Nat
          /\ list = [i \in 1..(Len(cfg) - 1) |-> IF i < k THEN cfg[i] ELSE cfg[i + 1]]
      BY <3>0, <3>1 DEF Skip
    <3> HIDE DEF k
    <3>3. /\ list \in Seq(AnyType) /\ DOMAIN list = 1..(Len(cfg) - 1)
          /\ \A i \in DOMAIN list : list[i] = IF i < k THEN cfg[i] ELSE cfg[i + 1]
      BY <3>1, <3>2, SeqIntro
    <3> HIDE DEF list
    <3> DEFINE from(i) == IF i < k THEN i ELSE i + 1
    <3>4. /\ \A i \in DOMAIN list : from(i) \in DOMAIN cfg \ {k} /\ list[i] = cfg[from(i)]
          /\ \A i, j \in DOMAIN list : from(i) = from(j) => i = j
      BY <3>1, <3>2, <3>3
    <3>5. \A j \in DOMAIN cfg \ {k} : \E i \in DOMAIN list : from(i) = j
      <4> TAKE j \in DOMAIN cfg \ {k}
      <4>1. CASE j < k
        BY <3>0, <3>1, <3>3, <4>1
      <4>2. CASE j > k
        <5>1. j - 1 \in DOMAIN list /\ from(j - 1) = j
          BY <3>0, <3>1, <3>3, <4>2
        <5> QED BY <5>1
      <4> QED BY <3>0, <3>1, <4>1, <4>2
    <3> HIDE DEF from
    <3>6. IdsDiffer(list) /\ Accepts(list)
      BY <1>a, <1>c, <3>4 DEF IdsDiffer, Accepts
    <3>7. Ids(list) = Ids(cfg) \ {id}
      <4>1. \A j \in DOMAIN cfg : cfg[j].id = id => j = k
        BY <1>a, <3>0 DEF IdsDiffer
      <4> QED BY <3>0, <3>4, <3>5, <4>1 DEF Ids
    <3> DEFINE d == [i \in Ids(cfg) \ {id} |-> DirOf(cfg)[i]]
    <3>8. \A i \in DOMAIN list : d[list[i].id] = list[i].fqdn
      <4>1. \A i \in DOMAIN list : list[i].id \in Ids(list)
        BY DEF Ids
      <4> QED BY <1>d, <3>4, <3>7, <4>1
    <3>9. DirOf(cfg') = d
      <4>1. d = [i \in Ids(list) |-> d[i]]
        BY <3>7
      <4> HIDE DEF d
      <4>2. DirOf(list) = d
        BY <3>6, <3>8, <4>1, DirOfUnique
      <4> QED BY <3>0, <3>3, <3>6, <4>2, WrittenDir
    <3>10. Directory!Delete(id)
      BY <1>d, <1>e, <1>h, <2>1, <2>3, <3>0, <3>9
         DEF Directory!Delete, Directory!Others, Directory!Says
    <3> QED BY <3>10 DEF Directory!Next
  <2> QED BY <2>2, <2>3
<1>10. ASSUME NEW id \in EimIds, NEW u \in Updates, iot_emo_do_updateEim_eco(id, u)
       PROVE  Directory!Next
  <2>1. pc # "down" /\ UNCHANGED <<file, version>>
    BY <1>10 DEF iot_emo_do_updateEim_eco
  <2>2. CASE id \notin Ids(cfg)
    <3>1. CASE pc' = "down" /\ Fresh /\ answer'.of = NoEim
      <4>1. Directory!Stop
        BY <1>e, <1>f, <1>g, <2>1, <3>1 DEF Directory!Stop, Fresh
      <4> QED BY <4>1 DEF Directory!Next
    <3>2. CASE EcoAnswer("updateEim", id, "notFound") /\ UNCHANGED <<pc, nvstate>>
      <4>1. Directory!Refuse(id, "notFound")
        BY <1>e, <1>h, <2>1, <3>2 DEF EcoAnswer, Directory!Refuse, Directory!Says
      <4> QED BY <4>1 DEF Directory!Next
    <3> QED BY <1>10, <2>2, <3>1, <3>2 DEF iot_emo_do_updateEim_eco, Answer
  <2>3. CASE id \in Ids(cfg)
    <3>1. PICK accepted \in BOOLEAN :
             add_init_eim_iot_emu([cfg EXCEPT ![At(id)] = Updated(@, u, accepted)])
      BY <1>10, <2>3 DEF iot_emo_do_updateEim_eco
    <3> DEFINE k == At(id)
               new == Updated(cfg[k], u, accepted)
               list == [cfg EXCEPT ![k] = new]
    <3>2. /\ k \in DOMAIN cfg /\ cfg[k].id = id /\ pc' # "down"
          /\ answer'.of = id /\ answer'.code = "ok" /\ add_init_eim_iot_emu(list)
      BY <1>10, <2>3, <3>1 DEF At, Ids, iot_emo_do_updateEim_eco, EcoAnswer
    <3> HIDE DEF k
    <3>3. \A i \in DOMAIN cfg : cfg[i] \in StoredType
      BY <1>a, ElementType DEF Cfgs
    <3>4. /\ new \in StoredType /\ new.id = id
      BY <3>2, <3>3 DEF Updated, StoredType, UpdateType
    <3> HIDE DEF new
    <3>5. /\ DOMAIN list = DOMAIN cfg
          /\ \A i \in DOMAIN cfg : list[i] = IF i = k THEN new ELSE cfg[i]
          /\ list \in Seq(StoredType)
      BY <1>a, <3>2, <3>4 DEF Cfgs
    <3> HIDE DEF list
    <3>6. list \in Seq(AnyType) /\ Accepts(list)
      <4>1. \A i \in DOMAIN list : list[i] \in StoredType
        BY <3>3, <3>4, <3>5
      <4>2. Accepts(list)
        BY <4>1 DEF Accepts, Complete, StoredType
      <4> QED BY <3>5, <4>2, StoredIsAny, SeqOfSubset
    <3>7. \A i \in DOMAIN cfg : list[i].id = cfg[i].id
      BY <3>2, <3>4, <3>5
    <3>8. IdsDiffer(list) /\ Ids(list) = Ids(cfg)
      BY <1>a, <3>5, <3>7 DEF IdsDiffer, Ids
    <3> DEFINE d == [i \in Ids(cfg) \cup {id} |-> IF i = id THEN new.fqdn ELSE DirOf(cfg)[i]]
    <3>9. \A i \in DOMAIN list : d[list[i].id] = list[i].fqdn
      <4> TAKE i \in DOMAIN list
      <4>1. list[i].id \in Ids(cfg) /\ i \in DOMAIN cfg
        BY <3>5, <3>8 DEF Ids
      <4>2. CASE i = k
        BY <3>2, <3>4, <3>5, <4>1, <4>2
      <4>3. CASE i # k
        <5>1. list[i].id # id
          BY <1>a, <3>2, <3>7, <4>1, <4>3 DEF IdsDiffer
        <5> QED BY <1>d, <3>5, <3>7, <4>1, <4>3, <5>1
      <4> QED BY <4>2, <4>3
    <3>10. DirOf(cfg') = d
      <4>1. Ids(cfg) \cup {id} = Ids(list)
        BY <2>3, <3>8
      <4>2. d = [i \in Ids(list) |-> d[i]]
        BY <4>1
      <4> HIDE DEF d
      <4>3. DirOf(list) = d
        BY <3>8, <3>9, <4>2, DirOfUnique
      <4> QED BY <3>2, <3>6, <3>8, <4>3, WrittenDir
    <3>11. Directory!Update(id, new.fqdn) /\ new.fqdn \in Fqdns
      <4>1. new.fqdn \in Fqdns
        BY <3>4 DEF StoredType
      <4> QED BY <1>d, <1>e, <1>h, <2>1, <2>3, <3>2, <3>10, <4>1
              DEF Directory!Update, Directory!Set, Directory!Says
    <3> QED BY <3>11 DEF Directory!Next
  <2> QED BY <2>2, <2>3
<1>11. CASE UNCHANGED vars
  <2>1. UNCHANGED <<pc, cfg, answer, file, version>>
    BY <1>11 DEF vars
  <2>2. Said' = Said
    BY <2>1 DEF Said
  <2> QED BY <1>e, <2>1, <2>2 DEF Directory!vars
<1> QED BY <1>1, <1>2, <1>3, <1>4, <1>5, <1>6, <1>7, <1>8, <1>9, <1>10, <1>11
        DEF Next, Application, Ecos

LEMMA InitRested == Init => Rested /\ Directory!Init
<1> SUFFICES ASSUME Init PROVE Rested /\ Directory!Init
  OBVIOUS
<1>1. pc = "down" /\ cfg = <<>> /\ file = NoFile /\ answer.of = NoEim
  BY DEF Init
<1>2. Said = Directory!Silence /\ Kept = Directory!Empty
  BY <1>1, EmptyDir DEF Said, Kept, Directory!Silence
<1> QED BY <1>1, <1>2, EmptyDir DEF Rested, Directory!Init

(* The store implements the directory: an eCO changes the entry it names and no
   other, its answer tells whether it did, and the next start finds what the last
   orderly stop saved, or nothing.                                               *)
THEOREM StoreImplementsDirectory == Spec => DirectorySpec
<1>1. IInv /\ Rested /\ [Next]_vars => Rested'
  BY RestedNext
<1>2. IInv /\ IInv' /\ Rested /\ [Next]_vars => [Directory!Next]_(Directory!vars)
  BY DirectoryStep
<1> QED BY <1>1, <1>2, InitRested, StoreIInv, PTL DEF Spec, DirectorySpec, Directory!Spec
=============================================================================

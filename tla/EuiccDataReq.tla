---------------------------- MODULE EuiccDataReq ----------------------------
(***************************************************************************)
(* ipa_proc_euicc_data_req: which of the data that the eIM asks for by a   *)
(* tag list are put in the answer, given what the calls to the eUICC       *)
(* return.  A datum is named by its tag.                                   *)
(***************************************************************************)
EXTENDS Naturals, Sequences

Tags == {"80", "BF20", "BF22", "83", "84", "A5", "A6", "88", "A9", "BF2B"}

(* The calls and what they may return: "null", or a struct; that of the configured
   addresses may lack the address of the default SM-DP+, that of the certificates be
   an error.  reads[f] are the answers of function f, in the order of the calls.     *)
Outcomes ==
  [get_euicc_cfg_addr |-> {"null", "noDp", "full"},
   get_certs |-> {"null", "error", "certs"},
   get_euicc_info |-> {"null", "info"},
   get_eim_cfg_data |-> {"null", "noToken", "token"},
   retr_notif_from_lst |-> {"null", "list"}]

(* Some operators below are preceded by a variant of the same parameters that a
   plausible mistake would make of them; no specification uses a variant, they
   serve to confirm that the properties notice the mistake.                     *)

(* 0x80 and 0x83 are read by one function, 0xA5 and 0xA6 by another: what is known
   after the first of the two is what its call returned, if there was one.         *)
euicc_cfg_addr(asked, reads) == IF "80" \in asked THEN reads.get_euicc_cfg_addr[1] ELSE "null"
get_certs_res(asked, reads) == IF "A5" \in asked THEN reads.get_certs[1] ELSE "null"

SecondCall(first, asked) == IF first \in asked THEN 2 ELSE 1

RootSmds(asked, reads) ==
  /\ euicc_cfg_addr(asked, reads) = "null"
  /\ reads.get_euicc_cfg_addr[SecondCall("80", asked)] # "null"

EuiccCertAskedTwice(asked, reads) == reads.get_certs[SecondCall("A5", asked)] = "certs"
EuiccCert(asked, reads) ==
  LET known == get_certs_res(asked, reads)
  IN IF known # "null" THEN known = "certs"
     ELSE reads.get_certs[SecondCall("A5", asked)] = "certs"

(* Line 134: the pointer is taken over only when it is NULL. *)
EuiccInfo2(reads) == FALSE

Answered(tag, asked, reads) ==
  CASE tag = "80" -> reads.get_euicc_cfg_addr[1] = "full"
    [] tag = "BF20" -> reads.get_euicc_info[1] = "info"
    [] tag = "BF22" -> EuiccInfo2(reads)
    [] tag = "83" -> RootSmds(asked, reads)
    [] tag = "84" -> reads.get_eim_cfg_data[1] = "token"
    [] tag = "A5" -> reads.get_certs[1] = "certs"
    [] tag = "A6" -> EuiccCert(asked, reads)
    [] tag = "BF2B" -> reads.retr_notif_from_lst[1] = "list"
    [] OTHER -> TRUE

ipaEuiccData(asked, reads) == {t \in asked : Answered(t, asked, reads)}

(* How often each of the two functions is called. *)
Calls(asked, reads) ==
  [get_euicc_cfg_addr |->
     (IF "80" \in asked THEN 1 ELSE 0)
     + (IF "83" \in asked /\ euicc_cfg_addr(asked, reads) = "null" THEN 1 ELSE 0),
   get_certs |->
     (IF "A5" \in asked THEN 1 ELSE 0)
     + (IF "A6" \in asked /\ get_certs_res(asked, reads) = "null" THEN 1 ELSE 0)]
=============================================================================

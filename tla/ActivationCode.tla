--------------------------- MODULE ActivationCode ---------------------------
(***************************************************************************)
(* ipa_activation_code_parse.  An activation code is a sequence of         *)
(* characters; "LPA:" before it is the flag lpa.                           *)
(***************************************************************************)
EXTENDS Integers, Sequences, SequencesExt

CONSTANTS
  Char,  \* the characters of a code
  Null   \* NULL

Separator == "$"

Text == Seq(Char)
Code ==
  [sm_dp_plus_address : Text, ac_token : Text,
   sm_dp_plus_oid : Text \cup {Null}, confirmation_code_required : BOOLEAN,
   ci_public_key_indicator : Text \cup {Null},
   delete_notification_for_device_change : Text \cup {Null}]

(* NULL points to neither a text nor a structure. *)
ASSUME CodeAssumption == {"1", Separator} \subseteq Char /\ Null \notin Text /\ Null \notin Code

(* Some operators below are preceded by a variant of the same parameters that a
   plausible mistake would make of them; no specification uses a variant, they
   serve to confirm that the properties notice the mistake.                     *)

(* The texts between the separators, found from the end of the code; the loop looks at
   those that a separator goes before.                                               *)
Split(ac) ==
  LET from[k \in 1..(Len(ac) + 1)] ==
        IF k > Len(ac) THEN <<<<>>>>
        ELSE IF ac[k] = Separator THEN <<<<>>>> \o from[k + 1]
        ELSE [from[k + 1] EXCEPT ![1] = <<ac[k]>> \o @]
  IN from[1]

Items(ac) == Tail(Split(ac))

Short(ac, lpa) == Len(ac) + (IF lpa THEN 4 ELSE 0) <= 4 \/ Len(ac) <= 4

(* An item that is absent or empty leaves its field NULL; the token may be empty. *)
Given(items, k) == IF k <= Len(items) /\ items[k] # <<>> THEN items[k] ELSE Null

TokenGiven(items) == Given(items, 2) # Null
TokenPresent(items) == Len(items) >= 2

ipa_activation_code_parse(ac, lpa) ==
  LET items == Items(ac) IN
  IF Short(ac, lpa) \/ SubSeq(ac, 1, 2) # <<"1", Separator>>
     \/ Given(items, 1) = Null \/ ~TokenPresent(items)
  THEN Null
  ELSE [sm_dp_plus_address |-> items[1],
        ac_token |-> items[2],
        sm_dp_plus_oid |-> Given(items, 3),
        confirmation_code_required |-> Given(items, 4) # Null /\ items[4][1] = "1",
        ci_public_key_indicator |-> Given(items, 5),
        delete_notification_for_device_change |-> Given(items, 6)]
=============================================================================

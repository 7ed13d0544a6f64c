---------------------------- MODULE MCFunctions ----------------------------
(* The functions of the IPAd evaluated over bounded inputs: an input of one of them
   is chosen, then the function runs.                                              *)
EXTENDS ActivationCode, BppSegments, EuiccDataReq

CONSTANTS
  MaxText,    \* characters of a text of an activation code
  MaxParts,   \* parts of an activation code, the format qualifier included
  TlvTags,    \* tags of a TLV
  Lengths,    \* lengths of a TLV's value
  MaxTags,    \* tags in a tag list
  IscrSizes,  \* sizes of the first TLV of a BoundProfilePackage
  TlvSizes,   \* sizes of the TLVs of its sequences
  MaxTlvs     \* TLVs in each of them that may have several

VARIABLES fn, in, out, done

vars == <<fn, in, out, done>>

-----------------------------------------------------------------------------
(* Inputs *)

Texts == BoundedSeq(Char \ {Separator}, MaxText)
Deep == {<<<<"1">>, <<"1", "1">>>> \o tail : tail \in TupleOf(Texts, 4) \cup TupleOf({<<>>, <<"1">>}, 6)}
AcInputs == [parts : BoundedSeq(Texts, MaxParts) \cup Deep, lpa : BOOLEAN]

MCTags == {[class |-> 2, form |-> 0, number |-> 0], [class |-> 2, form |-> 1, number |-> 5],
           [class |-> 2, form |-> 1, number |-> 31], [class |-> 2, form |-> 1, number |-> 43],
           [class |-> 1, form |-> 0, number |-> 55]}
TlvInputs == [tag : TlvTags, len : Lengths, envelope : TlvTags]

(* cut: bytes missing at the end of the list. *)
ListInputs == [tags : BoundedSeq(TlvTags, MaxTags), sought : TlvTags, cut : {0, 1}]

BppInputs ==
  [iscr : IscrSizes, first : BoundedSeq(TlvSizes, 1), seq88 : BoundedSeq(TlvSizes, MaxTlvs),
   hasSecond : BOOLEAN, second : BoundedSeq(TlvSizes, 1), seq86 : BoundedSeq(TlvSizes, MaxTlvs)]

(* The answers of the functions that are called once vary together. *)
Reads ==
  {[get_euicc_cfg_addr |-> <<a[1], a[2]>>, get_certs |-> <<c[1], c[2]>>,
    get_euicc_info |-> <<IF up THEN "info" ELSE "null">>,
    get_eim_cfg_data |-> <<IF up THEN "token" ELSE "noToken">>,
    retr_notif_from_lst |-> <<IF up THEN "list" ELSE "null">>] :
   a \in TupleOf(Outcomes.get_euicc_cfg_addr, 2), c \in TupleOf(Outcomes.get_certs, 2),
   up \in BOOLEAN}
DataInputs == [asked : SUBSET Tags, reads : Reads]

-----------------------------------------------------------------------------
Joined(parts) ==
  Head(parts) \o FlattenSeq([k \in 1..(Len(parts) - 1) |-> <<Separator>> \o parts[k + 1]])

Encoded(tags) == FlattenSeq([k \in DOMAIN tags |-> ber_tlv_tag_serialize(tags[k])])
TagNumber(tag) == Number(ber_tlv_tag_serialize(tag), 256)

Choose(f, inputs) == fn = f /\ in \in inputs

Init ==
  /\ out = <<>> /\ done = FALSE
  /\ \/ Choose("activation_code", AcInputs)
     \/ Choose("tlv", TlvInputs)
     \/ Choose("taglist", ListInputs)
     \/ Choose("segments", BppInputs)
     \/ Choose("data_req", DataInputs)

Run(f, result) == ~done /\ fn = f /\ done' = TRUE /\ out' = result /\ UNCHANGED <<fn, in>>

RunActivationCode ==
  Run("activation_code",
      ipa_activation_code_parse(IF in.parts = <<>> THEN <<>> ELSE Joined(in.parts), in.lpa))

RunTlv ==
  LET hdr == Header(in.tag, in.len) IN
  Run("tlv", [fetched |-> ber_fetch_length(der_tlv_length_serialize(in.len)),
              parsed |-> parse_btlv_hdr(hdr),
              chopped |-> Chopped(hdr, in.len, TagNumber(in.envelope))])

RunTaglist ==
  LET list == Encoded(in.tags) IN
  Run("taglist", ipa_tag_in_taglist(TagNumber(in.sought), SubSeq(list, 1, Len(list) - in.cut)))

RunSegments ==
  Run("segments", [segment |-> ipa_bpp_segments_encode(in), slots |-> segment_count(in)])

RunDataReq ==
  Run("data_req", [data |-> ipaEuiccData(in.asked, in.reads), calls |-> Calls(in.asked, in.reads)])

Next == RunActivationCode \/ RunTlv \/ RunTaglist \/ RunSegments \/ RunDataReq

Spec == Init /\ [][Next]_vars

-----------------------------------------------------------------------------
(* Properties *)

Result(f) == done /\ fn = f

(* A code of format 1 with an SM-DP+ address and a token, the token possibly empty, is
   taken apart into just the texts between its separators, whatever follows them; any
   other is refused, as is one of up to four characters.                             *)
Part(k) == IF k <= Len(in.parts) /\ in.parts[k] # <<>> THEN in.parts[k] ELSE Null
ActivationCodeParsed ==
  Result("activation_code") =>
    IF Len(in.parts) >= 3 /\ in.parts[1] = <<"1">> /\ in.parts[2] # <<>> /\ Len(Joined(in.parts)) > 4
    THEN /\ out # Null
         /\ out.sm_dp_plus_address = in.parts[2] /\ out.ac_token = in.parts[3]
         /\ out.sm_dp_plus_oid = Part(4)
         /\ out.confirmation_code_required <=> Part(5) # Null /\ Part(5)[1] = "1"
         /\ out.ci_public_key_indicator = Part(6)
         /\ out.delete_notification_for_device_change = Part(7)
    ELSE out = Null

(* What the encoder writes as a header the parser of utils.c takes for a header of that
   size and tag, unless the value has 127 bytes: then it fails (line 320); of the length
   of a value it keeps 16 bits, which its callers do not look at.  An envelope is
   stripped exactly when its tag is the one expected and its header was understood; the
   runtime's own decoder reads back every length.                                    *)
HeaderReadBack ==
  Result("tlv") =>
    LET size == Len(Header(in.tag, in.len)) IN
    /\ out.fetched = [skip |-> Len(der_tlv_length_serialize(in.len)), len |-> in.len]
    /\ IF in.len = 127 THEN out.parsed = Invalid
       ELSE /\ out.parsed.skip = size /\ out.parsed.tag = TagNumber(in.tag)
            /\ out.parsed.len = in.len % 2^16
    /\ out.chopped = IF in.tag = in.envelope /\ in.len # 127 THEN size ELSE 0

(* A tag is found in a tag list exactly when it is one of the list's tags: never across
   two of them, in the second byte of one, or in one that is cut short.               *)
TagFoundIffListed ==
  Result("taglist") =>
    (out <=> \E k \in DOMAIN in.tags :
               /\ in.tags[k] = in.sought
               /\ k = Len(in.tags) => in.cut = 0)

(* The whole package, piece by piece, as it is encoded. *)
Pieces(name, seq) == [k \in 1..Len(seq) |-> <<name, k>>]
Level(name, seq) == <<<<name, 0>>>> \o Pieces(name, seq)
Package ==
  <<<<"bpp", 0>>, <<"iscr", 1>>>> \o Level("first", in.first) \o Level("seq88", in.seq88)
  \o (IF in.hasSecond THEN Level("second", in.second) ELSE <<>>) \o Level("seq86", in.seq86)

HasContent127 ==
  \/ BppContent(in) = 127
  \/ \E seq \in {in.first, in.seq88, in.seq86} \cup (IF in.hasSecond THEN {in.second} ELSE {}) :
       Content(seq) = 127

SegmentsRight ==
  IF in.first = <<>> \/ (in.hasSecond /\ in.second = <<>>) THEN out.segment = NoSegments
  ELSE FlattenSeq(out.segment) = Package /\ Len(out.segment) <= out.slots

(* The segments put together are the package, every byte of it once and in its order,
   and fit in the slots allocated; but for the packages in which a sequence that is cut
   has 127 bytes.                                                                      *)
SegmentsAreThePackage == Result("segments") /\ ~HasContent127 => SegmentsRight

(* The same without an exception, as the comments of the encoder promise it. *)
SegmentsAlwaysThePackage == Result("segments") => SegmentsRight

(* What the eUICC answered last about a datum. *)
LastRead(f) == in.reads[f][IF out.calls[f] = 2 THEN 2 ELSE 1]
Obtained(tag) ==
  CASE tag = "80" -> in.reads.get_euicc_cfg_addr[1] = "full"
    [] tag = "83" -> LastRead("get_euicc_cfg_addr") # "null"
    [] tag \in {"BF20", "BF22"} -> in.reads.get_euicc_info[1] = "info"
    [] tag = "84" -> in.reads.get_eim_cfg_data[1] = "token"
    [] tag = "A5" -> in.reads.get_certs[1] = "certs"
    [] tag = "A6" -> LastRead("get_certs") = "certs"
    [] tag = "BF2B" -> in.reads.retr_notif_from_lst[1] = "list"
    [] OTHER -> TRUE

(* The answer holds what was asked for and obtained, with two exceptions: EUICCInfo2
   never (line 134), the root SM-DS address not if the default SM-DP+ address was asked
   for too and its read gave an answer (line 138).  The eUICC is asked again only if it
   gave none.                                                                        *)
DataAsObtained ==
  Result("data_req") =>
    /\ \A t \in Tags :
         t \in out.data <=> /\ t \in in.asked /\ Obtained(t) /\ t # "BF22"
                            /\ t = "83" /\ "80" \in in.asked => in.reads.get_euicc_cfg_addr[1] = "null"
    /\ \A f \in DOMAIN out.calls : out.calls[f] = 2 => in.reads[f][1] = "null"
=============================================================================

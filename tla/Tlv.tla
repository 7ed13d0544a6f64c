-------------------------------- MODULE Tlv --------------------------------
(***************************************************************************)
(* BER-TLV as the IPAd writes and reads it: the encoder of the ASN.1       *)
(* runtime (ber_tlv_tag.c, ber_tlv_length.c), which writes what is sent,   *)
(* and the header parser and the tag list scan of utils.c, which cut what  *)
(* the encoder wrote.  A byte is a number below 256, a tag a class and a   *)
(* number, and of a value only the length counts.                          *)
(***************************************************************************)
EXTENDS Integers, Sequences, SequencesExt

(* The bytes of n in base, the most significant first. *)
Digits(n, base, width) == [k \in 1..width |-> (n \div base^(width - k)) % base]
Width(n, base) == CHOOSE w \in 1..4 : n < base^w /\ (w = 1 \/ n >= base^(w - 1))
Number(bytes, base) ==
  LET upTo[k \in 0..Len(bytes)] == IF k = 0 THEN 0 ELSE upTo[k - 1] * base + bytes[k]
  IN upTo[Len(bytes)]

Wide(byte) == byte % 32 = 31

(* Some operators below are preceded by a variant of the same parameters that a
   plausible mistake would make of them; no specification uses a variant, they
   serve to confirm that the properties notice the mistake.                     *)

-----------------------------------------------------------------------------
(* The encoder: tag.form is 1 for a constructed tag. *)

ber_tlv_tag_serialize(tag) ==
  LET lead == tag.class * 64 + tag.form * 32
      w == Width(tag.number, 128)
  IN IF tag.number <= 30 THEN <<lead + tag.number>>
     ELSE <<lead + 31>> \o [k \in 1..w |-> Digits(tag.number, 128, w)[k] + (IF k < w THEN 128 ELSE 0)]

der_tlv_length_serialize(len) ==
  IF len <= 127 THEN <<len>>
  ELSE <<128 + Width(len, 256)>> \o Digits(len, 256, Width(len, 256))

Header(tag, len) == ber_tlv_tag_serialize(tag) \o der_tlv_length_serialize(len)

(* Its counterpart in the decoder; 0 stands for "want more", -1 for an error. *)
ber_fetch_length(bytes) ==
  IF bytes = <<>> THEN [skip |-> 0, len |-> 0]
  ELSE LET oct == bytes[1] n == oct % 128 IN
       IF oct < 128 THEN [skip |-> 1, len |-> oct]
       ELSE IF oct = 255 THEN [skip |-> -1, len |-> 0]
       ELSE IF Len(bytes) <= n THEN [skip |-> 0, len |-> 0]
       ELSE [skip |-> n + 1, len |-> Number(SubSeq(bytes, 2, n + 1), 256)]

-----------------------------------------------------------------------------
(* parse_btlv_hdr: skip is what the caller takes for the size of the header. *)

Invalid == [skip |-> -1, tag |-> 0, len |-> 0]

ShortFormSmall(oct) == oct < 64
ShortForm(oct) == oct < 127

LengthBits == 16  \* value_len is a uint16_t

parse_btlv_hdr(bytes) ==
  LET tag_len == IF Wide(bytes[1]) THEN 2 ELSE 1
      tag == Number(SubSeq(bytes, 1, tag_len), 256)
      oct == bytes[tag_len + 1]
      len_bytes == oct % 128
      given == Len(bytes) - tag_len - 1
  IN IF Len(bytes) <= tag_len THEN Invalid
     ELSE IF ShortForm(oct) THEN [skip |-> tag_len + 1, tag |-> tag, len |-> oct]
     ELSE IF len_bytes \notin 1..4 \/ given < len_bytes THEN Invalid
     ELSE [skip |-> tag_len + 1 + len_bytes, tag |-> tag,
           len |-> Number(SubSeq(bytes, tag_len + 2, tag_len + 1 + len_bytes), 256) % 2^LengthBits]

(* How many bytes ipa_strip_tlv_envelope chops off a header and its value.  An error,
   converted to size_t, is more than any length.                                     *)
Chopped(bytes, value_len, envelope_tag) ==
  LET hdr == parse_btlv_hdr(bytes) IN
  IF hdr.skip < 0 \/ hdr.tag # envelope_tag \/ hdr.skip > Len(bytes) + value_len THEN 0
  ELSE hdr.skip

(* The tags ipa_tag_in_taglist comes across; it stops at a byte it cannot read. *)
TwoByteTagNever(byte) == FALSE
TwoByteTag(byte) == Wide(byte)

TagsFrom(list) ==
  LET from[k \in 1..(Len(list) + 1)] ==
        IF k > Len(list) THEN {}
        ELSE IF ~TwoByteTag(list[k]) THEN {list[k]} \cup from[k + 1]
        ELSE IF k < Len(list) THEN {list[k] * 256 + list[k + 1]} \cup from[k + 2]
        ELSE {}
  IN from[1]

ipa_tag_in_taglist(tag, list) == tag \in TagsFrom(list)
=============================================================================

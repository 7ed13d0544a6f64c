---------------------------- MODULE BppSegments ----------------------------
(***************************************************************************)
(* ipa_bpp_segments_encode: a BoundProfilePackage is cut into the segments *)
(* in which the eUICC loads it.  A package is given by the sizes of its    *)
(* TLVs; a segment is the sequence of the pieces encoded into it: a header *)
(* is piece 0 of what it heads, a TLV a numbered piece of it.              *)
(***************************************************************************)
EXTENDS Tlv, Functions

(* bpp.hasSecond: the optional secondSequenceOf87 is there. *)
ContextTag(n) == [class |-> 2, form |-> 1, number |-> n]
BppTag == ContextTag(54)

Content(seq) == FoldFunction(+, 0, seq)
Enveloped(tag, n) == Len(Header(tag, n)) + n
Size(n, seq) == Enveloped(ContextTag(n), Content(seq))

BppContent(bpp) ==
  bpp.iscr + Size(0, bpp.first) + Size(1, bpp.seq88)
  + (IF bpp.hasSecond THEN Size(2, bpp.second) ELSE 0) + Size(3, bpp.seq86)

(* Some operators below are preceded by a variant of the same parameters that a
   plausible mistake would make of them; no specification uses a variant, they
   serve to confirm that the properties notice the mistake.                     *)

(* "Pinch-off the value part": the encoding is cut to what parse_btlv_hdr says.  With
   its error code for a length the segment is not one.                               *)
NoSegments == <<>>  \* NULL
Broken == <<"broken", 0>>
Pinched(tag, n, name) ==
  IF parse_btlv_hdr(Header(tag, n)).skip = Len(Header(tag, n)) THEN <<name>> ELSE <<Broken>>
PinchedOf(n, seq, name) == Pinched(ContextTag(n), Content(seq), name)

EachAlone(name, seq) == [k \in 1..Len(seq) |-> <<<<name, k>>>>]

(* Each sequence of '88' and '86' TLVs: a segment for tag and length, one for each TLV. *)
Cut(n, name, seq) == <<PinchedOf(n, seq, <<name, 0>>)>> \o EachAlone(name, seq)

(* A sequence of '87' TLVs: tag, length and the first TLV; any others are ignored. *)
With87(n, name, seq) == <<PinchedOf(n, seq, <<name, 0>>) \o <<<<name, 1>>>>>>

SecondAlways(bpp) == With87(2, "second", bpp.second)
Second(bpp) ==
  IF bpp.hasSecond THEN With87(2, "second", bpp.second) ELSE <<>>

ipa_bpp_segments_encode(bpp) ==
  IF bpp.first = <<>> \/ (bpp.hasSecond /\ bpp.second = <<>>) THEN NoSegments
  ELSE <<Pinched(BppTag, BppContent(bpp), <<"bpp", 0>>) \o <<<<"iscr", 1>>>>>>
       \o With87(0, "first", bpp.first) \o Cut(1, "seq88", bpp.seq88)
       \o Second(bpp) \o Cut(3, "seq86", bpp.seq86)

(* The slots allocated for them. *)
segment_count(bpp) == 3 + Len(bpp.seq88) + 2 + Len(bpp.seq86)
=============================================================================

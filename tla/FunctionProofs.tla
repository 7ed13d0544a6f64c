--------------------------- MODULE FunctionProofs ---------------------------
(***************************************************************************)
(* Proofs about the functions of the IPAd for every input: what the        *)
(* encoder writes as the header of a TLV the parsers read back, for every  *)
(* length that has 32 bits; a tag list finds the tags that were put into   *)
(* it, however many; an answer to a data request holds what was obtained;  *)
(* the segments of a package put together are the package, and never       *)
(* outnumber the slots reserved for them; and an activation code is taken  *)
(* apart into the texts between its separators.                            *)
(***************************************************************************)
EXTENDS MCFunctions, WellFoundedInduction, TLAPS

-----------------------------------------------------------------------------
(* Sequences of bytes *)

LEMMA CatLength ==
  \A s, t \in Seq(Nat) : s \o t \in Seq(Nat) /\ Len(s \o t) = Len(s) + Len(t)
OBVIOUS

LEMMA CatFirst == \A s, t \in Seq(Nat) : \A i \in 1..Len(s) : (s \o t)[i] = s[i]
OBVIOUS

LEMMA CatSecond == \A s, t \in Seq(Nat) : \A i \in 1..Len(t) : (s \o t)[Len(s) + i] = t[i]
OBVIOUS

LEMMA SeqsEqual ==
  \A s, t \in Seq(Nat) : Len(s) = Len(t) /\ (\A i \in 1..Len(s) : s[i] = t[i]) => s = t
OBVIOUS

LEMMA ElementIs == \A s \in Seq(Nat) : \A i \in 1..Len(s) : s[i] \in Nat
OBVIOUS

LEMMA SubSeqIs ==
  \A s \in Seq(Nat) : \A m \in 1..Len(s) : \A n \in m..Len(s) :
    /\ SubSeq(s, m, n) \in Seq(Nat)
    /\ Len(SubSeq(s, m, n)) = n - m + 1
    /\ \A i \in 1..(n - m + 1) : SubSeq(s, m, n)[i] = s[m + i - 1]
OBVIOUS

(* Of two sequences put together each can be cut out again, the second from any place. *)
LEMMA CutFirst ==
  ASSUME NEW s \in Seq(Nat), NEW t \in Seq(Nat), Len(s) >= 1
  PROVE  SubSeq(s \o t, 1, Len(s)) = s
<1> DEFINE z == s \o t
           c == SubSeq(z, 1, Len(s))
<1>1. z \in Seq(Nat) /\ Len(z) = Len(s) + Len(t)
  BY CatLength
<1>2. \A i \in 1..Len(s) : z[i] = s[i]
  BY CatFirst
<1> HIDE DEF z
<1>3. c \in Seq(Nat) /\ Len(c) = Len(s) /\ \A i \in 1..Len(s) : c[i] = z[i]
  <2>1. 1 \in 1..Len(z) /\ Len(s) \in 1..Len(z)
    BY <1>1
  <2>2. /\ c \in Seq(Nat)
        /\ Len(c) = Len(s) - 1 + 1
        /\ \A i \in 1..(Len(s) - 1 + 1) : c[i] = z[1 + i - 1]
    BY <1>1, <2>1, SubSeqIs
  <2> HIDE DEF c
  <2> QED BY <2>2
<1> HIDE DEF c
<1>4. c = s
  BY <1>2, <1>3, SeqsEqual
<1> QED BY <1>4 DEF c, z

LEMMA CutSecond ==
  ASSUME NEW s \in Seq(Nat), NEW t \in Seq(Nat), NEW m \in 1..Len(t), NEW n \in m..Len(t)
  PROVE  SubSeq(s \o t, Len(s) + m, Len(s) + n) = SubSeq(t, m, n)
<1> DEFINE z == s \o t
           c == SubSeq(z, Len(s) + m, Len(s) + n)
           d == SubSeq(t, m, n)
<1>1. z \in Seq(Nat) /\ Len(z) = Len(s) + Len(t)
  BY CatLength
<1>2. \A i \in 1..Len(t) : z[Len(s) + i] = t[i]
  BY CatSecond
<1> HIDE DEF z
<1>3. Len(s) + m \in 1..Len(z) /\ Len(s) + n \in (Len(s) + m)..Len(z)
  BY <1>1
<1>4. /\ c \in Seq(Nat) /\ Len(c) = n - m + 1
      /\ \A i \in 1..(n - m + 1) : c[i] = z[Len(s) + m + i - 1]
  <2>1. /\ c \in Seq(Nat)
        /\ Len(c) = (Len(s) + n) - (Len(s) + m) + 1
        /\ \A i \in 1..((Len(s) + n) - (Len(s) + m) + 1) : c[i] = z[Len(s) + m + i - 1]
    BY <1>1, <1>3, SubSeqIs
  <2> HIDE DEF c
  <2> QED BY <2>1
<1>5. /\ d \in Seq(Nat)
      /\ Len(d) = n - m + 1
      /\ \A i \in 1..(n - m + 1) : d[i] = t[m + i - 1]
  BY SubSeqIs
<1> HIDE DEF c, d
<1>6. ASSUME NEW i \in 1..(n - m + 1) PROVE c[i] = d[i]
  <2>1. m + i - 1 \in 1..Len(t) /\ Len(s) + (m + i - 1) = Len(s) + m + i - 1
    OBVIOUS
  <2>2. z[Len(s) + (m + i - 1)] = t[m + i - 1]
    BY <1>2, <2>1
  <2> QED BY <1>4, <1>5, <2>1, <2>2
<1>7. c = d
  BY <1>4, <1>5, <1>6, SeqsEqual
<1> QED BY <1>7 DEF c, d, z

LEMMA CutAll == \A s \in Seq(Nat) : SubSeq(s, 1, Len(s)) = s
OBVIOUS

-----------------------------------------------------------------------------
(* Numbers of up to four bytes *)

LEMMA NumberOfOne == ASSUME NEW s \in Seq(Nat), Len(s) = 1 PROVE Number(s, 256) = s[1]
<1> DEFINE upTo[k \in 0..1] == IF k = 0 THEN 0 ELSE upTo[k - 1] * 256 + s[k]
           sum == [k \in 0..1 |-> IF k = 0 THEN 0 ELSE s[1]]
<1>1. sum = [k \in 0..1 |-> IF k = 0 THEN 0 ELSE sum[k - 1] * 256 + s[k]]
  OBVIOUS
<1>2. upTo = [k \in 0..1 |-> IF k = 0 THEN 0 ELSE upTo[k - 1] * 256 + s[k]]
  <2> HIDE DEF sum
  <2> QED BY <1>1
<1>3. Number(s, 256) = upTo[1]
  BY DEF Number
<1> HIDE DEF upTo
<1>4. s[1] \in Nat
  BY ElementIs
<1>5. upTo[0] = 0
  BY <1>2
<1>6. upTo[1] = upTo[0] * 256 + s[1]
  BY <1>2
<1> QED BY <1>3, <1>4, <1>5, <1>6

LEMMA NumberOfTwo ==
  ASSUME NEW s \in Seq(Nat), Len(s) = 2 PROVE Number(s, 256) = s[1] * 256 + s[2]
<1> DEFINE upTo[k \in 0..2] == IF k = 0 THEN 0 ELSE upTo[k - 1] * 256 + s[k]
           sum == [k \in 0..2 |-> IF k = 0 THEN 0 ELSE IF k = 1 THEN s[1] ELSE s[1] * 256 + s[2]]
<1>1. sum = [k \in 0..2 |-> IF k = 0 THEN 0 ELSE sum[k - 1] * 256 + s[k]]
  OBVIOUS
<1>2. upTo = [k \in 0..2 |-> IF k = 0 THEN 0 ELSE upTo[k - 1] * 256 + s[k]]
  <2> HIDE DEF sum
  <2> QED BY <1>1
<1>3. Number(s, 256) = upTo[2]
  BY DEF Number
<1> HIDE DEF upTo
<1>4. upTo[0] = 0 /\ upTo[1] = s[1] /\ upTo[2] = s[1] * 256 + s[2]
  BY <1>2
<1> QED BY <1>3, <1>4

LEMMA NumberOfThree ==
  ASSUME NEW s \in Seq(Nat), Len(s) = 3
  PROVE  Number(s, 256) = (s[1] * 256 + s[2]) * 256 + s[3]
<1> DEFINE upTo[k \in 0..3] == IF k = 0 THEN 0 ELSE upTo[k - 1] * 256 + s[k]
           sum == [k \in 0..3 |-> IF k = 0 THEN 0 ELSE IF k = 1 THEN s[1]
                                  ELSE IF k = 2 THEN s[1] * 256 + s[2]
                                  ELSE (s[1] * 256 + s[2]) * 256 + s[3]]
<1>1. sum = [k \in 0..3 |-> IF k = 0 THEN 0 ELSE sum[k - 1] * 256 + s[k]]
  OBVIOUS
<1>2. upTo = [k \in 0..3 |-> IF k = 0 THEN 0 ELSE upTo[k - 1] * 256 + s[k]]
  <2> HIDE DEF sum
  <2> QED BY <1>1
<1>3. Number(s, 256) = upTo[3]
  BY DEF Number
<1> HIDE DEF upTo
<1>4. /\ upTo[0] = 0 /\ upTo[1] = s[1] /\ upTo[2] = s[1] * 256 + s[2]
      /\ upTo[3] = (s[1] * 256 + s[2]) * 256 + s[3]
  BY <1>2
<1> QED BY <1>3, <1>4

LEMMA NumberOfFour ==
  ASSUME NEW s \in Seq(Nat), Len(s) = 4
  PROVE  Number(s, 256) = ((s[1] * 256 + s[2]) * 256 + s[3]) * 256 + s[4]
<1> DEFINE upTo[k \in 0..4] == IF k = 0 THEN 0 ELSE upTo[k - 1] * 256 + s[k]
           sum == [k \in 0..4 |-> IF k = 0 THEN 0 ELSE IF k = 1 THEN s[1]
                                  ELSE IF k = 2 THEN s[1] * 256 + s[2]
                                  ELSE IF k = 3 THEN (s[1] * 256 + s[2]) * 256 + s[3]
                                  ELSE ((s[1] * 256 + s[2]) * 256 + s[3]) * 256 + s[4]]
<1>1. sum = [k \in 0..4 |-> IF k = 0 THEN 0 ELSE sum[k - 1] * 256 + s[k]]
  OBVIOUS
<1>2. upTo = [k \in 0..4 |-> IF k = 0 THEN 0 ELSE upTo[k - 1] * 256 + s[k]]
  <2> HIDE DEF sum
  <2> QED BY <1>1
<1>3. Number(s, 256) = upTo[4]
  BY DEF Number
<1> HIDE DEF upTo
<1>4. /\ upTo[0] = 0 /\ upTo[1] = s[1] /\ upTo[2] = s[1] * 256 + s[2]
      /\ upTo[3] = (s[1] * 256 + s[2]) * 256 + s[3]
      /\ upTo[4] = ((s[1] * 256 + s[2]) * 256 + s[3]) * 256 + s[4]
  BY <1>2
<1> QED BY <1>3, <1>4

LEMMA Divided ==
  ASSUME NEW n \in Nat
  PROVE  /\ n \div 256 \in Nat /\ n % 256 \in 0..255 /\ n = (n \div 256) * 256 + (n % 256)
         /\ n \div 65536 = (n \div 256) \div 256
         /\ n \div 16777216 = (n \div 65536) \div 256
<1>1. n \div 256 \in Nat /\ n % 256 \in 0..255 /\ n = (n \div 256) * 256 + (n % 256)
  BY SMT
<1>2. n \div 65536 = (n \div 256) \div 256
  BY SMT
<1>3. n \div 16777216 = (n \div 65536) \div 256
  <2> DEFINE p == n \div 65536
             q == n \div 16777216
             r == p \div 256
  <2>1. p \in Nat /\ p * 65536 <= n /\ n < p * 65536 + 65536
    BY SMT
  <2>2. q \in Nat /\ q * 16777216 <= n /\ n < q * 16777216 + 16777216
    BY SMT
  <2> HIDE DEF p, q
  <2>3. r \in Nat /\ r * 256 <= p /\ p < r * 256 + 256
    BY SMT, <2>1
  <2> HIDE DEF r
  <2>4. q = r
    BY SMT, <2>1, <2>2, <2>3
  <2> QED BY <2>4 DEF p, q, r
<1> QED BY SMT, <1>1, <1>2, <1>3

(* A number that fits into w bytes is read back from its w digits. *)
LEMMA DigitsRead ==
  ASSUME NEW n \in Nat, NEW w \in 1..4, n < 256^w
  PROVE  LET d == Digits(n, 256, w) IN d \in Seq(Nat) /\ Len(d) = w /\ Number(d, 256) = n
<1> DEFINE d == Digits(n, 256, w)
<1>1. CASE w = 1
  <2>1. d = [k \in 1..1 |-> (n \div 256^(1 - k)) % 256]
    BY SMT, <1>1 DEF Digits
  <2>2. n < 256 /\ (n \div 256^(1 - 1)) % 256 = n
    BY SMT, <1>1
  <2> HIDE DEF d
  <2>3. d \in Seq(Nat) /\ Len(d) = 1 /\ d[1] = n
    BY SMT, <2>1, <2>2
  <2>4. Number(d, 256) = n
    BY <2>3, NumberOfOne
  <2> QED BY <1>1, <2>3, <2>4 DEF d
<1>2. CASE w = 2
  <2>1. d = [k \in 1..2 |-> (n \div 256^(2 - k)) % 256]
    BY SMT, <1>2 DEF Digits
  <2>2. /\ n < 65536
        /\ (n \div 256^(2 - 1)) % 256 = (n \div 256) % 256
        /\ (n \div 256^(2 - 2)) % 256 = n % 256
    BY SMT, <1>2
  <2> HIDE DEF d
  <2>3. d \in Seq(Nat) /\ Len(d) = 2
    BY SMT, <2>1
  <2>4. d[1] = (n \div 256) % 256 /\ d[2] = n % 256
    BY SMT, <2>1, <2>2
  <2>5. ((n \div 256) % 256) * 256 + (n % 256) = n
    BY SMT, <2>2, Divided
  <2>6. Number(d, 256) = d[1] * 256 + d[2]
    BY <2>3, NumberOfTwo
  <2>7. Number(d, 256) = n
    BY SMT, <2>4, <2>5, <2>6
  <2> QED BY SMT, <1>2, <2>3, <2>7 DEF d
<1>3. CASE w = 3
  <2>1. d = [k \in 1..3 |-> (n \div 256^(3 - k)) % 256]
    BY SMT, <1>3 DEF Digits
  <2>2. /\ n < 16777216
        /\ (n \div 256^(3 - 1)) % 256 = (n \div 65536) % 256
        /\ (n \div 256^(3 - 2)) % 256 = (n \div 256) % 256
        /\ (n \div 256^(3 - 3)) % 256 = n % 256
    BY SMT, <1>3
  <2> HIDE DEF d
  <2>3. d \in Seq(Nat) /\ Len(d) = 3
    BY SMT, <2>1
  <2>4. /\ d[1] = (n \div 65536) % 256 /\ d[2] = (n \div 256) % 256 /\ d[3] = n % 256
    BY SMT, <2>1, <2>2
  <2>5. (((n \div 65536) % 256) * 256 + ((n \div 256) % 256)) * 256 + (n % 256) = n
    BY SMT, <2>2, Divided
  <2>6. Number(d, 256) = (d[1] * 256 + d[2]) * 256 + d[3]
    BY <2>3, NumberOfThree
  <2>7. Number(d, 256) = n
    BY SMT, <2>4, <2>5, <2>6
  <2> QED BY SMT, <1>3, <2>3, <2>7 DEF d
<1>4. CASE w = 4
  <2>1. d = [k \in 1..4 |-> (n \div 256^(4 - k)) % 256]
    BY SMT, <1>4 DEF Digits
  <2>2. /\ n < 4294967296
        /\ (n \div 256^(4 - 1)) % 256 = (n \div 16777216) % 256
        /\ (n \div 256^(4 - 2)) % 256 = (n \div 65536) % 256
        /\ (n \div 256^(4 - 3)) % 256 = (n \div 256) % 256
        /\ (n \div 256^(4 - 4)) % 256 = n % 256
    BY SMT, <1>4
  <2> HIDE DEF d
  <2>3. d \in Seq(Nat) /\ Len(d) = 4
    BY SMT, <2>1
  <2>4. /\ d[1] = (n \div 16777216) % 256 /\ d[2] = (n \div 65536) % 256
        /\ d[3] = (n \div 256) % 256 /\ d[4] = n % 256
    BY SMT, <2>1, <2>2
  <2>5. ((((n \div 16777216) % 256) * 256 + ((n \div 65536) % 256)) * 256
         + ((n \div 256) % 256)) * 256 + (n % 256) = n
    BY SMT, <2>2, Divided
  <2>6. Number(d, 256) = ((d[1] * 256 + d[2]) * 256 + d[3]) * 256 + d[4]
    BY <2>3, NumberOfFour
  <2>7. Number(d, 256) = n
    BY SMT, <2>4, <2>5, <2>6
  <2> QED BY SMT, <1>4, <2>3, <2>7 DEF d
<1> QED BY <1>1, <1>2, <1>3, <1>4

-----------------------------------------------------------------------------
(* What the encoder writes *)

TagType == [class : 0..3, form : 0..1, number : 0..127]
LengthType == {len \in Nat : len < 4294967296}

LEMMA WidthFits ==
  ASSUME NEW len \in LengthType
  PROVE  Width(len, 256) \in 1..4 /\ len < 256^Width(len, 256)
<1> DEFINE Fits(w) == len < 256^w /\ (w = 1 \/ len >= 256^(w - 1))
<1>1. len \in Nat /\ len < 4294967296
  BY SMT DEF LengthType
<1>2. \E w \in 1..4 : Fits(w)
  <2>1. CASE len < 256
    <3>1. Fits(1)
      BY SMT, <1>1, <2>1
    <3> QED BY SMT, <3>1
  <2>2. CASE len >= 256 /\ len < 65536
    <3>1. Fits(2)
      BY SMT, <1>1, <2>2
    <3> QED BY SMT, <3>1
  <2>3. CASE len >= 65536 /\ len < 16777216
    <3>1. Fits(3)
      BY SMT, <1>1, <2>3
    <3> QED BY SMT, <3>1
  <2>4. CASE len >= 16777216
    <3>1. Fits(4)
      BY SMT, <1>1, <2>4
    <3> QED BY SMT, <3>1
  <2> QED BY SMT, <1>1, <2>1, <2>2, <2>3, <2>4
<1>3. Width(len, 256) = CHOOSE w \in 1..4 : Fits(w)
  BY Zenon DEF Width
<1> HIDE DEF Fits
<1>4. Width(len, 256) \in 1..4 /\ Fits(Width(len, 256))
  BY Zenon, <1>2, <1>3
<1> QED BY Zenon, <1>4 DEF Fits

(* A length of up to 127 bytes is one byte; a longer one is a byte that says how many
   follow, and the bytes of its number.                                             *)
LEMMA ShortLength ==
  ASSUME NEW len \in LengthType, len <= 127
  PROVE  LET l == der_tlv_length_serialize(len) IN l \in Seq(Nat) /\ Len(l) = 1 /\ l[1] = len
<1>1. len \in Nat
  BY SMT DEF LengthType
<1>2. der_tlv_length_serialize(len) = <<len>>
  BY Zenon DEF der_tlv_length_serialize
<1> QED BY SMT, <1>1, <1>2

LEMMA LongLength ==
  ASSUME NEW len \in LengthType, len > 127
  PROVE  LET l == der_tlv_length_serialize(len)
             n == Len(l) - 1
         IN /\ l \in Seq(Nat) /\ n \in 1..4
            /\ l[1] = 128 + n
            /\ Number(SubSeq(l, 2, n + 1), 256) = len
<1> DEFINE w == Width(len, 256)
           d == Digits(len, 256, w)
           l == der_tlv_length_serialize(len)
           s == <<128 + w>>
<1>1. len \in Nat /\ ~(len <= 127)
  BY SMT DEF LengthType
<1>2. w \in 1..4 /\ len < 256^w
  BY Zenon, WidthFits
<1>3. l = s \o d
  BY Zenon, <1>1 DEF der_tlv_length_serialize
<1> HIDE DEF w, l
<1>4. d \in Seq(Nat) /\ Len(d) = w /\ Number(d, 256) = len
  BY <1>1, <1>2, DigitsRead
<1> HIDE DEF d
<1>5. s \in Seq(Nat) /\ Len(s) = 1 /\ s[1] = 128 + w
  BY <1>2
<1> HIDE DEF s
<1>6. l \in Seq(Nat) /\ Len(l) = Len(s) + Len(d)
  BY <1>3, <1>4, <1>5, CatLength
<1>7. l[1] = 128 + w
  <2>1. \A i \in 1..Len(s) : l[i] = s[i]
    BY <1>3, <1>4, <1>5, CatFirst
  <2> QED BY <1>5, <2>1
<1>8. SubSeq(l, Len(s) + 1, Len(s) + w) = SubSeq(d, 1, w)
  <2>1. 1 \in 1..Len(d) /\ w \in 1..Len(d)
    BY <1>2, <1>4
  <2> QED BY Zenon, <1>3, <1>4, <1>5, <2>1, CutSecond
<1>9. SubSeq(d, 1, w) = d
  BY <1>2, <1>4, CutAll
<1>10. Len(l) - 1 = w /\ SubSeq(l, 2, w + 1) = d
  BY <1>2, <1>4, <1>5, <1>6, <1>8, <1>9
<1> QED BY ZenonT(60), <1>2, <1>4, <1>6, <1>7, <1>10 DEF l

(* The bytes of a tag: one, or two if its number does not fit into five bits. *)
LEMMA TagWritten ==
  ASSUME NEW tag \in TagType
  PROVE  LET t == ber_tlv_tag_serialize(tag)
             lead == tag.class * 64 + tag.form * 32
         IN /\ t \in Seq(Nat)
            /\ tag.number <= 30 => Len(t) = 1 /\ t[1] = lead + tag.number
            /\ tag.number > 30 => Len(t) = 2 /\ t[1] = lead + 31 /\ t[2] = tag.number
<1> DEFINE lead == tag.class * 64 + tag.form * 32
           t == ber_tlv_tag_serialize(tag)
<1>1. tag.number \in 0..127 /\ tag.class \in 0..3 /\ tag.form \in 0..1
  BY DEF TagType
<1>2. lead \in Nat
  BY <1>1
<1>3. CASE tag.number <= 30
  <2>1. t = <<lead + tag.number>>
    BY <1>3 DEF ber_tlv_tag_serialize
  <2> HIDE DEF lead, t
  <2> QED BY <1>1, <1>2, <1>3, <2>1 DEF lead, t
<1>4. CASE tag.number > 30
  <2> DEFINE n == tag.number
             s == <<lead + 31>>
             r == [k \in 1..1 |-> Digits(n, 128, 1)[k] + (IF k < 1 THEN 128 ELSE 0)]
  <2>1. Width(n, 128) = 1
    BY <1>1 DEF Width
  <2>2. t = s \o r
    <3>1. ~(n <= 30)
      BY <1>1, <1>4
    <3> QED BY Zenon, <2>1, <3>1 DEF ber_tlv_tag_serialize
  <2> HIDE DEF lead, t
  <2>3. s \in Seq(Nat) /\ Len(s) = 1 /\ s[1] = lead + 31
    BY <1>2
  <2>4. Digits(n, 128, 1)[1] = n
    <3>1. (n \div 128^(1 - 1)) % 128 = n
      BY <1>1
    <3> QED BY <3>1 DEF Digits
  <2>5. r \in Seq(Nat) /\ Len(r) = 1 /\ r[1] = n
    BY <1>1, <2>4
  <2> HIDE DEF s, r
  <2>6. t \in Seq(Nat) /\ Len(t) = Len(s) + Len(r)
    BY <2>2, <2>3, <2>5, CatLength
  <2>7. \A i \in 1..Len(s) : t[i] = s[i]
    BY <2>2, <2>3, <2>5, CatFirst
  <2>8. \A i \in 1..Len(r) : t[Len(s) + i] = r[i]
    BY <2>2, <2>3, <2>5, CatSecond
  <2>9. Len(t) = 2 /\ t[1] = lead + 31 /\ t[2] = n
    BY <2>3, <2>5, <2>6, <2>7, <2>8
  <2>10. ~(n <= 30)
    BY <1>1, <1>4
  <2> QED BY Zenon, <2>6, <2>9, <2>10 DEF lead, t
<1>5. tag.number <= 30 \/ tag.number > 30
  BY <1>1
<1> QED BY Zenon, <1>3, <1>4, <1>5

-----------------------------------------------------------------------------
(* What is read back *)

LEMMA LengthFetched ==
  ASSUME NEW len \in LengthType
  PROVE  LET l == der_tlv_length_serialize(len)
         IN ber_fetch_length(l) = [skip |-> Len(l), len |-> len]
<1> DEFINE l == der_tlv_length_serialize(len)
<1>1. len \in Nat
  BY SMT DEF LengthType
<1>2. CASE len <= 127
  <2>1. l \in Seq(Nat) /\ Len(l) = 1 /\ l[1] = len
    BY Zenon, <1>2, ShortLength
  <2> HIDE DEF l
  <2>2. l # <<>> /\ l[1] < 128
    BY <1>1, <1>2, <2>1
  <2>3. ber_fetch_length(l) = [skip |-> 1, len |-> len]
    BY Zenon, <2>1, <2>2 DEF ber_fetch_length
  <2> QED BY Zenon, <2>1, <2>3 DEF l
<1>3. CASE len > 127
  <2> DEFINE n == Len(l) - 1
  <2>1. l \in Seq(Nat) /\ n \in 1..4 /\ l[1] = 128 + n /\ Number(SubSeq(l, 2, n + 1), 256) = len
    BY Zenon, <1>3, LongLength
  <2> HIDE DEF l
  <2>2. l # <<>> /\ ~(Len(l) <= n) /\ n + 1 = Len(l)
    BY <2>1
  <2>3. ~(l[1] < 128) /\ l[1] # 255
    <3> HIDE DEF n
    <3> QED BY <2>1
  <2>4. ber_fetch_length(l) = [skip |-> n + 1, len |-> len]
    <3> HIDE DEF n
    <3>1. l[1] % 128 = n
      BY <2>1
    <3> QED BY Zenon, <2>1, <2>2, <2>3, <3>1 DEF ber_fetch_length
  <2> QED BY Zenon, <2>2, <2>4 DEF l
<1>4. len <= 127 \/ len > 127
  BY <1>1
<1> QED BY Zenon, <1>2, <1>3, <1>4

(* The parser of utils.c on the bytes of a tag, which it takes for t, followed by those
   of a length.                                                                      *)
LEMMA HeaderParsed ==
  ASSUME NEW t \in Seq(Nat), NEW l \in Seq(Nat), Len(t) \in {1, 2}, Len(l) >= 1,
         Wide(t[1]) <=> Len(t) = 2
  PROVE  LET n == l[1] % 128 IN
         parse_btlv_hdr(t \o l) =
           IF l[1] < 127 THEN [skip |-> Len(t) + 1, tag |-> Number(t, 256), len |-> l[1]]
           ELSE IF n \notin 1..4 \/ Len(l) - 1 < n THEN Invalid
           ELSE [skip |-> Len(t) + 1 + n, tag |-> Number(t, 256),
                 len |-> Number(SubSeq(l, 2, n + 1), 256) % 2^LengthBits]
<1> DEFINE bytes == t \o l
           n == l[1] % 128
           k == Len(t)
           given == Len(bytes) - k - 1
<1>1. k \in Nat /\ k >= 1 /\ Len(l) \in Nat /\ l[1] \in Nat
  BY ElementIs
<1>2. bytes \in Seq(Nat) /\ Len(bytes) = k + Len(l)
  BY CatLength
<1>3. bytes[1] = t[1] /\ bytes[k + 1] = l[1]
  <2>1. \A i \in 1..k : bytes[i] = t[i]
    BY CatFirst
  <2>2. \A i \in 1..Len(l) : bytes[k + i] = l[i]
    BY CatSecond
  <2> QED BY <1>1, <2>1, <2>2
<1>4. SubSeq(bytes, 1, k) = t
  BY <1>1, CutFirst
<1>5. ASSUME n \in 1..4, ~(given < n)
      PROVE  SubSeq(bytes, k + 2, k + 1 + n) = SubSeq(l, 2, n + 1)
  <2>1. 2 \in 1..Len(l) /\ n + 1 \in 2..Len(l)
    <3> HIDE DEF bytes, n
    <3> QED BY SMTT(30), <1>1, <1>2, <1>5
  <2>2. SubSeq(bytes, k + 2, k + (n + 1)) = SubSeq(l, 2, n + 1)
    BY Zenon, <2>1, CutSecond
  <2>3. k + (n + 1) = k + 1 + n
    <3> HIDE DEF n, k
    <3> QED BY <1>1, <1>5
  <2> QED BY Zenon, <2>2, <2>3
<1>6. (IF Wide(bytes[1]) THEN 2 ELSE 1) = k
  BY Zenon, <1>3
<1>7. given = Len(l) - 1 /\ ~(Len(bytes) <= k)
  <2> HIDE DEF bytes
  <2> QED BY <1>1, <1>2
<1>8. bytes = t \o l
  BY Zenon
<1> HIDE DEF bytes, k, n
<1>9. parse_btlv_hdr(bytes) =
        IF Len(bytes) <= k THEN Invalid
        ELSE IF ShortForm(bytes[k + 1])
        THEN [skip |-> k + 1, tag |-> Number(SubSeq(bytes, 1, k), 256), len |-> bytes[k + 1]]
        ELSE IF (bytes[k + 1] % 128) \notin 1..4 \/ given < (bytes[k + 1] % 128) THEN Invalid
        ELSE [skip |-> k + 1 + (bytes[k + 1] % 128), tag |-> Number(SubSeq(bytes, 1, k), 256),
              len |-> Number(SubSeq(bytes, k + 2, k + 1 + (bytes[k + 1] % 128)), 256) % 2^LengthBits]
  BY ZenonT(60), <1>6 DEF parse_btlv_hdr
<1>10. parse_btlv_hdr(bytes) =
        IF l[1] < 127 THEN [skip |-> k + 1, tag |-> Number(t, 256), len |-> l[1]]
        ELSE IF n \notin 1..4 \/ given < n THEN Invalid
        ELSE [skip |-> k + 1 + n, tag |-> Number(t, 256),
              len |-> Number(SubSeq(bytes, k + 2, k + 1 + n), 256) % 2^LengthBits]
  BY ZenonT(60), <1>3, <1>4, <1>7, <1>9 DEF ShortForm, n
<1>11. parse_btlv_hdr(bytes) =
        IF l[1] < 127 THEN [skip |-> k + 1, tag |-> Number(t, 256), len |-> l[1]]
        ELSE IF n \notin 1..4 \/ given < n THEN Invalid
        ELSE [skip |-> k + 1 + n, tag |-> Number(t, 256),
              len |-> Number(SubSeq(l, 2, n + 1), 256) % 2^LengthBits]
  <2> HIDE DEF given
  <2> QED BY Zenon, <1>5, <1>10
<1> QED BY Zenon, <1>7, <1>8, <1>11 DEF k, n

LEMMA TagOneOrTwo ==
  ASSUME NEW tag \in TagType
  PROVE  LET t == ber_tlv_tag_serialize(tag) IN
         /\ t \in Seq(Nat) /\ Len(t) \in {1, 2} /\ (Wide(t[1]) <=> Len(t) = 2)
         /\ TagNumber(tag) = IF tag.number <= 30 THEN tag.class * 64 + tag.form * 32 + tag.number
                             ELSE (tag.class * 64 + tag.form * 32 + 31) * 256 + tag.number
<1> DEFINE lead == tag.class * 64 + tag.form * 32
           t == ber_tlv_tag_serialize(tag)
<1>1. tag.number \in 0..127 /\ tag.class \in 0..3 /\ tag.form \in 0..1
  BY DEF TagType
<1>2. lead \in Nat /\ lead % 32 = 0
  BY <1>1
<1>3. /\ t \in Seq(Nat)
      /\ tag.number <= 30 => Len(t) = 1 /\ t[1] = lead + tag.number
      /\ tag.number > 30 => Len(t) = 2 /\ t[1] = lead + 31 /\ t[2] = tag.number
  BY Zenon, TagWritten
<1>4. TagNumber(tag) = Number(t, 256)
  BY Zenon DEF TagNumber
<1> HIDE DEF t, lead
<1>5. CASE tag.number <= 30
  <2>1. Len(t) = 1 /\ t[1] = lead + tag.number
    BY <1>3, <1>5
  <2>2. ~Wide(t[1])
    BY <1>1, <1>2, <1>5, <2>1 DEF Wide
  <2>3. Number(t, 256) = t[1]
    BY <1>3, <2>1, NumberOfOne
  <2>4. TagNumber(tag) = lead + tag.number
    BY Zenon, <1>4, <2>1, <2>3
  <2>5. Len(t) \in {1, 2} /\ Len(t) # 2
    BY <2>1
  <2> QED BY Zenon, <1>3, <1>5, <2>2, <2>4, <2>5 DEF t, lead
<1>6. CASE tag.number > 30
  <2>1. Len(t) = 2 /\ t[1] = lead + 31 /\ t[2] = tag.number
    BY <1>3, <1>6
  <2>2. Wide(t[1])
    BY <1>1, <1>2, <2>1 DEF Wide
  <2>3. Number(t, 256) = t[1] * 256 + t[2]
    BY <1>3, <2>1, NumberOfTwo
  <2>4. TagNumber(tag) = (lead + 31) * 256 + tag.number
    BY Zenon, <1>4, <2>1, <2>3
  <2>5. Len(t) \in {1, 2}
    BY <2>1
  <2>6. ~(tag.number <= 30)
    BY <1>1, <1>6
  <2> QED BY Zenon, <1>3, <2>1, <2>2, <2>4, <2>5, <2>6 DEF t, lead
<1>7. tag.number <= 30 \/ tag.number > 30
  BY <1>1
<1> QED BY Zenon, <1>5, <1>6, <1>7

LEMMA TagNumbersDiffer ==
  ASSUME NEW c \in 0..3, NEW f \in 0..1, NEW n \in 0..127,
         NEW d \in 0..3, NEW g \in 0..1, NEW m \in 0..127,
         (IF n <= 30 THEN c * 64 + f * 32 + n ELSE (c * 64 + f * 32 + 31) * 256 + n)
         = (IF m <= 30 THEN d * 64 + g * 32 + m ELSE (d * 64 + g * 32 + 31) * 256 + m)
  PROVE  c = d /\ f = g /\ n = m
<1>1. CASE n <= 30 /\ m <= 30
  BY <1>1
<1>2. CASE n > 30 /\ m > 30
  BY <1>2
<1>3. CASE n <= 30 /\ m > 30
  BY <1>3
<1>4. CASE n > 30 /\ m <= 30
  BY <1>4
<1> QED BY <1>1, <1>2, <1>3, <1>4

(* The tags that the encoder writes differ if they are not the same. *)
LEMMA TagsDiffer ==
  ASSUME NEW a \in TagType, NEW b \in TagType, TagNumber(a) = TagNumber(b)
  PROVE  a = b
<1>1. /\ a.number \in 0..127 /\ a.class \in 0..3 /\ a.form \in 0..1
      /\ b.number \in 0..127 /\ b.class \in 0..3 /\ b.form \in 0..1
  BY DEF TagType
<1>2. TagNumber(a) = IF a.number <= 30 THEN a.class * 64 + a.form * 32 + a.number
                     ELSE (a.class * 64 + a.form * 32 + 31) * 256 + a.number
  BY Zenon, TagOneOrTwo
<1>3. TagNumber(b) = IF b.number <= 30 THEN b.class * 64 + b.form * 32 + b.number
                     ELSE (b.class * 64 + b.form * 32 + 31) * 256 + b.number
  BY Zenon, TagOneOrTwo
<1>4. a.number = b.number /\ a.class = b.class /\ a.form = b.form
  <2>1. (IF a.number <= 30 THEN a.class * 64 + a.form * 32 + a.number
         ELSE (a.class * 64 + a.form * 32 + 31) * 256 + a.number)
        = (IF b.number <= 30 THEN b.class * 64 + b.form * 32 + b.number
           ELSE (b.class * 64 + b.form * 32 + 31) * 256 + b.number)
    BY Zenon, <1>2, <1>3
  <2> DEFINE c == a.class
             f == a.form
             n == a.number
             d == b.class
             g == b.form
             m == b.number
  <2>2. c \in 0..3 /\ f \in 0..1 /\ n \in 0..127 /\ d \in 0..3 /\ g \in 0..1 /\ m \in 0..127
    BY <1>1
  <2>3. (IF n <= 30 THEN c * 64 + f * 32 + n ELSE (c * 64 + f * 32 + 31) * 256 + n)
        = (IF m <= 30 THEN d * 64 + g * 32 + m ELSE (d * 64 + g * 32 + 31) * 256 + m)
    BY <2>1
  <2> HIDE DEF c, f, n, d, g, m
  <2>4. c = d /\ f = g /\ n = m
    BY <2>2, <2>3, TagNumbersDiffer
  <2> QED BY <2>4 DEF c, f, n, d, g, m
<1>5. /\ a = [class |-> a.class, form |-> a.form, number |-> a.number]
      /\ b = [class |-> b.class, form |-> b.form, number |-> b.number]
  BY DEF TagType
<1> QED BY Zenon, <1>4, <1>5

(* A header is read for what it is, unless the value has 127 bytes. *)
LEMMA HeaderRead ==
  ASSUME NEW tag \in TagType, NEW len \in LengthType
  PROVE  parse_btlv_hdr(Header(tag, len)) =
           IF len = 127 THEN Invalid
           ELSE [skip |-> Len(Header(tag, len)), tag |-> TagNumber(tag), len |-> len % 2^LengthBits]
<1> DEFINE t == ber_tlv_tag_serialize(tag)
           l == der_tlv_length_serialize(len)
           n == l[1] % 128
<1>1. len \in Nat
  BY SMT DEF LengthType
<1>2. t \in Seq(Nat) /\ Len(t) \in {1, 2} /\ (Wide(t[1]) <=> Len(t) = 2)
  BY Zenon, TagOneOrTwo
<1>3. Header(tag, len) = t \o l /\ TagNumber(tag) = Number(t, 256)
  BY Zenon DEF Header, TagNumber
<1> HIDE DEF t
<1>4. CASE len <= 127
  <2>1. l \in Seq(Nat) /\ Len(l) = 1 /\ l[1] = len
    BY Zenon, <1>4, ShortLength
  <2> HIDE DEF l
  <2>2. Len(l) >= 1 /\ Len(t \o l) = Len(t) + 1
    <3>1. Len(t \o l) = Len(t) + Len(l)
      BY <1>2, <2>1, CatLength
    <3> QED BY <2>1, <3>1
  <2>3. parse_btlv_hdr(t \o l) =
           IF l[1] < 127 THEN [skip |-> Len(t) + 1, tag |-> Number(t, 256), len |-> l[1]]
           ELSE IF n \notin 1..4 \/ Len(l) - 1 < n THEN Invalid
           ELSE [skip |-> Len(t) + 1 + n, tag |-> Number(t, 256),
                 len |-> Number(SubSeq(l, 2, n + 1), 256) % 2^LengthBits]
    BY ZenonT(60), <1>2, <2>1, <2>2, HeaderParsed
  <2>4. CASE len = 127
    <3>1. ~(l[1] < 127) /\ n \notin 1..4
      BY <2>1, <2>4
    <3> QED BY Zenon, <1>3, <2>3, <2>4, <3>1
  <2>5. CASE len # 127
    <3>1. l[1] < 127 /\ len % 2^LengthBits = len
      BY <1>1, <1>4, <2>1, <2>5 DEF LengthBits
    <3> QED BY Zenon, <1>3, <2>1, <2>2, <2>3, <2>5, <3>1
  <2> QED BY Zenon, <2>4, <2>5
<1>5. CASE len > 127
  <2> DEFINE w == Len(l) - 1
  <2>1. l \in Seq(Nat) /\ w \in 1..4 /\ l[1] = 128 + w /\ Number(SubSeq(l, 2, w + 1), 256) = len
    BY Zenon, <1>5, LongLength
  <2> HIDE DEF l
  <2>2. Len(l) >= 1 /\ Len(l) = w + 1
    BY <2>1
  <2>3. parse_btlv_hdr(t \o l) =
           IF l[1] < 127 THEN [skip |-> Len(t) + 1, tag |-> Number(t, 256), len |-> l[1]]
           ELSE IF n \notin 1..4 \/ Len(l) - 1 < n THEN Invalid
           ELSE [skip |-> Len(t) + 1 + n, tag |-> Number(t, 256),
                 len |-> Number(SubSeq(l, 2, n + 1), 256) % 2^LengthBits]
    BY ZenonT(60), <1>2, <2>1, <2>2, HeaderParsed
  <2> HIDE DEF w
  <2>4. n = w /\ ~(l[1] < 127)
    BY <2>1
  <2>5. ~(Len(l) - 1 < w) /\ Len(t \o l) = Len(t) + 1 + w
    BY <1>2, <2>1, <2>2, CatLength
  <2>6. len # 127
    BY <1>1, <1>5
  <2> HIDE DEF n
  <2> QED BY ZenonT(60), <1>3, <2>1, <2>3, <2>4, <2>5, <2>6
<1>6. len <= 127 \/ len > 127
  BY <1>1
<1> QED BY Zenon, <1>4, <1>5, <1>6

(* An envelope is stripped exactly when it is the expected one. *)
LEMMA EnvelopeChopped ==
  ASSUME NEW tag \in TagType, NEW envelope \in TagType, NEW len \in LengthType
  PROVE  Chopped(Header(tag, len), len, TagNumber(envelope)) =
           IF tag = envelope /\ len # 127 THEN Len(Header(tag, len)) ELSE 0
<1> DEFINE h == Header(tag, len)
           hdr == parse_btlv_hdr(h)
<1>1. len \in Nat
  BY SMT DEF LengthType
<1>2. Len(h) \in Nat /\ Len(h) >= 0
  <2>1. ber_tlv_tag_serialize(tag) \in Seq(Nat)
    BY Zenon, TagOneOrTwo
  <2>2. der_tlv_length_serialize(len) \in Seq(Nat)
    <3>1. len <= 127 \/ len > 127
      BY <1>1
    <3> QED BY Zenon, <3>1, ShortLength, LongLength
  <2>3. h \in Seq(Nat)
    BY Zenon, <2>1, <2>2, CatLength DEF Header
  <2> HIDE DEF h
  <2> QED BY <2>3
<1>3. hdr = IF len = 127 THEN Invalid
            ELSE [skip |-> Len(h), tag |-> TagNumber(tag), len |-> len % 2^LengthBits]
  BY Zenon, HeaderRead
<1>4. Chopped(h, len, TagNumber(envelope)) =
        IF hdr.skip < 0 \/ hdr.tag # TagNumber(envelope) \/ hdr.skip > Len(h) + len THEN 0
        ELSE hdr.skip
  BY Zenon DEF Chopped
<1> HIDE DEF hdr, h
<1>5. CASE len = 127
  <2>1. hdr.skip = -1
    BY <1>3, <1>5 DEF Invalid
  <2> QED BY <1>4, <1>5, <2>1 DEF h
<1>6. CASE len # 127
  <2>1. hdr.skip = Len(h) /\ hdr.tag = TagNumber(tag)
    BY <1>3, <1>6
  <2>2. ~(hdr.skip < 0) /\ ~(hdr.skip > Len(h) + len)
    BY <1>1, <1>2, <2>1
  <2>3. TagNumber(tag) = TagNumber(envelope) <=> tag = envelope
    BY Zenon, TagsDiffer
  <2> QED BY Zenon, <1>4, <1>6, <2>1, <2>2, <2>3 DEF h
<1> QED BY Zenon, <1>5, <1>6

-----------------------------------------------------------------------------
(* The function that was chosen ran on one of its inputs. *)

Headers ==
  fn = "tlv" =>
    /\ in \in TlvInputs
    /\ done => out = [fetched |-> ber_fetch_length(der_tlv_length_serialize(in.len)),
                      parsed |-> parse_btlv_hdr(Header(in.tag, in.len)),
                      chopped |-> Chopped(Header(in.tag, in.len), in.len, TagNumber(in.envelope))]

LEMMA InitHeaders == Init => Headers
BY DEF Init, Choose, Headers

LEMMA NextHeaders == Headers /\ [Next]_vars => Headers'
<1> SUFFICES ASSUME Headers, [Next]_vars PROVE Headers'
  OBVIOUS
<1>1. CASE RunActivationCode
  BY <1>1 DEF RunActivationCode, Run, Headers
<1>2. CASE RunTlv
  BY <1>2 DEF RunTlv, Run, Headers
<1>3. CASE RunTaglist
  BY <1>3 DEF RunTaglist, Run, Headers
<1>4. CASE RunSegments
  BY <1>4 DEF RunSegments, Run, Headers
<1>5. CASE RunDataReq
  BY <1>5 DEF RunDataReq, Run, Headers
<1>6. CASE UNCHANGED vars
  BY <1>6 DEF vars, Headers
<1> QED BY <1>1, <1>2, <1>3, <1>4, <1>5, <1>6 DEF Next

(* Whatever the tags and lengths, as long as these have 32 bits: what is written as a
   header is read back (der_tlv_length_serialize and parse_btlv_hdr).              *)
THEOREM HeadersReadBack ==
  ASSUME TlvTags \subseteq TagType, Lengths \subseteq LengthType
  PROVE  Spec => []HeaderReadBack
<1>1. Headers => HeaderReadBack
  <2> SUFFICES ASSUME Headers, done, fn = "tlv" PROVE HeaderReadBack
    BY DEF HeaderReadBack, Result
  <2> DEFINE size == Len(Header(in.tag, in.len))
  <2>1. in.tag \in TagType /\ in.envelope \in TagType /\ in.len \in LengthType
    <3>1. in \in TlvInputs
      BY DEF Headers
    <3>2. in.tag \in TlvTags /\ in.envelope \in TlvTags /\ in.len \in Lengths
      BY <3>1 DEF TlvInputs
    <3> QED BY Zenon, <3>2
  <2>2. /\ out.fetched = ber_fetch_length(der_tlv_length_serialize(in.len))
        /\ out.parsed = parse_btlv_hdr(Header(in.tag, in.len))
        /\ out.chopped = Chopped(Header(in.tag, in.len), in.len, TagNumber(in.envelope))
    BY DEF Headers
  <2>3. out.fetched = [skip |-> Len(der_tlv_length_serialize(in.len)), len |-> in.len]
    BY Zenon, <2>1, <2>2, LengthFetched
  <2>4. out.parsed = IF in.len = 127 THEN Invalid
                     ELSE [skip |-> size, tag |-> TagNumber(in.tag), len |-> in.len % 2^LengthBits]
    <3>1. parse_btlv_hdr(Header(in.tag, in.len)) =
            IF in.len = 127 THEN Invalid
            ELSE [skip |-> size, tag |-> TagNumber(in.tag), len |-> in.len % 2^LengthBits]
      BY Zenon, <2>1, HeaderRead
    <3> QED BY Zenon, <2>2, <3>1
  <2>5. out.chopped = IF in.tag = in.envelope /\ in.len # 127 THEN size ELSE 0
    <3>1. Chopped(Header(in.tag, in.len), in.len, TagNumber(in.envelope)) =
            IF in.tag = in.envelope /\ in.len # 127 THEN size ELSE 0
      BY <2>1, EnvelopeChopped
    <3> QED BY Zenon, <2>2, <3>1
  <2> HIDE DEF size
  <2>6. IF in.len = 127 THEN out.parsed = Invalid
        ELSE /\ out.parsed.skip = size /\ out.parsed.tag = TagNumber(in.tag)
             /\ out.parsed.len = in.len % 2^16
    BY <2>4 DEF LengthBits
  <2> QED BY Zenon, <2>3, <2>5, <2>6 DEF HeaderReadBack, size
<1> QED BY <1>1, InitHeaders, NextHeaders, PTL DEF Spec

-----------------------------------------------------------------------------
(* The data that the eIM asks for *)

DataAnswer ==
  fn = "data_req" =>
    /\ in.asked \subseteq Tags
    /\ done => out = [data |-> ipaEuiccData(in.asked, in.reads), calls |-> Calls(in.asked, in.reads)]

LEMMA InitDataAnswer == Init => DataAnswer
BY DEF Init, Choose, DataAnswer, DataInputs

LEMMA NextDataAnswer == DataAnswer /\ [Next]_vars => DataAnswer'
<1> SUFFICES ASSUME DataAnswer, [Next]_vars PROVE DataAnswer'
  OBVIOUS
<1>1. CASE RunActivationCode
  BY <1>1 DEF RunActivationCode, Run, DataAnswer
<1>2. CASE RunTlv
  BY <1>2 DEF RunTlv, Run, DataAnswer
<1>3. CASE RunTaglist
  BY <1>3 DEF RunTaglist, Run, DataAnswer
<1>4. CASE RunSegments
  BY <1>4 DEF RunSegments, Run, DataAnswer
<1>5. CASE RunDataReq
  BY <1>5 DEF RunDataReq, Run, DataAnswer
<1>6. CASE UNCHANGED vars
  BY <1>6 DEF vars, DataAnswer
<1> QED BY <1>1, <1>2, <1>3, <1>4, <1>5, <1>6 DEF Next

(* Each datum on its own, the ones that share a call with another. *)
LEMMA DatumObtained ==
  ASSUME DataAnswer, done, fn = "data_req", NEW t \in Tags
  PROVE  t \in out.data <=> /\ t \in in.asked /\ Obtained(t) /\ t # "BF22"
                            /\ t = "83" /\ "80" \in in.asked => in.reads.get_euicc_cfg_addr[1] = "null"
<1> DEFINE addr == euicc_cfg_addr(in.asked, in.reads)
           certs == get_certs_res(in.asked, in.reads)
           call == out.calls
<1>1. out.data = {x \in in.asked : Answered(x, in.asked, in.reads)}
  BY DEF DataAnswer, ipaEuiccData
<1>2. /\ call.get_euicc_cfg_addr = (IF "80" \in in.asked THEN 1 ELSE 0)
                                    + (IF "83" \in in.asked /\ addr = "null" THEN 1 ELSE 0)
      /\ call.get_certs = (IF "A5" \in in.asked THEN 1 ELSE 0)
                           + (IF "A6" \in in.asked /\ certs = "null" THEN 1 ELSE 0)
  BY DEF DataAnswer, Calls
<1>3. /\ addr = IF "80" \in in.asked THEN in.reads.get_euicc_cfg_addr[1] ELSE "null"
      /\ certs = IF "A5" \in in.asked THEN in.reads.get_certs[1] ELSE "null"
  BY DEF euicc_cfg_addr, get_certs_res
<1> HIDE DEF addr, certs, call
<1>4. CASE t = "83"
  <2>1. ASSUME "83" \in in.asked
        PROVE  Answered("83", in.asked, in.reads) <=>
                 Obtained("83") /\ ("80" \in in.asked => in.reads.get_euicc_cfg_addr[1] = "null")
    <3>1. Answered("83", in.asked, in.reads) <=>
            addr = "null" /\ in.reads.get_euicc_cfg_addr[IF "80" \in in.asked THEN 2 ELSE 1] # "null"
      BY DEF Answered, RootSmds, SecondCall, addr
    <3>2. Obtained("83") <=>
            in.reads.get_euicc_cfg_addr[IF call.get_euicc_cfg_addr = 2 THEN 2 ELSE 1] # "null"
      BY DEF Obtained, LastRead, call
    <3>3. CASE "80" \in in.asked /\ in.reads.get_euicc_cfg_addr[1] = "null"
      BY <1>2, <1>3, <2>1, <3>1, <3>2, <3>3
    <3>4. CASE "80" \in in.asked /\ in.reads.get_euicc_cfg_addr[1] # "null"
      BY <1>2, <1>3, <2>1, <3>1, <3>2, <3>4
    <3>5. CASE "80" \notin in.asked
      BY <1>2, <1>3, <2>1, <3>1, <3>2, <3>5
    <3> QED BY <3>3, <3>4, <3>5
  <2> QED BY <1>1, <1>4, <2>1
<1>5. CASE t = "A6"
  <2>1. ASSUME "A6" \in in.asked
        PROVE  Answered("A6", in.asked, in.reads) <=> Obtained("A6")
    <3>1. Answered("A6", in.asked, in.reads) <=>
            IF certs # "null" THEN certs = "certs"
            ELSE in.reads.get_certs[IF "A5" \in in.asked THEN 2 ELSE 1] = "certs"
      BY DEF Answered, EuiccCert, SecondCall, certs
    <3>2. Obtained("A6") <=> in.reads.get_certs[IF call.get_certs = 2 THEN 2 ELSE 1] = "certs"
      BY DEF Obtained, LastRead, call
    <3>3. CASE "A5" \in in.asked /\ in.reads.get_certs[1] = "null"
      BY <1>2, <1>3, <2>1, <3>1, <3>2, <3>3
    <3>4. CASE "A5" \in in.asked /\ in.reads.get_certs[1] # "null"
      BY <1>2, <1>3, <2>1, <3>1, <3>2, <3>4
    <3>5. CASE "A5" \notin in.asked
      BY <1>2, <1>3, <2>1, <3>1, <3>2, <3>5
    <3> QED BY <3>3, <3>4, <3>5
  <2> QED BY <1>1, <1>5, <2>1
<1>6. CASE t = "BF22"
  BY <1>1, <1>6 DEF Answered, EuiccInfo2
<1>7. CASE t \in {"80", "BF20", "84", "A5", "88", "A9", "BF2B"}
  <2>1. Answered(t, in.asked, in.reads) <=> Obtained(t)
    BY <1>7 DEF Answered, Obtained
  <2> QED BY <1>1, <1>7, <2>1
<1> QED BY <1>4, <1>5, <1>6, <1>7 DEF Tags

(* Whatever is asked for and whatever the eUICC answers: the answer holds just what was
   obtained (ipa_proc_euicc_data_req).                                              *)
THEOREM DataAnsweredAsObtained == Spec => []DataAsObtained
<1>1. DataAnswer => DataAsObtained
  <2> SUFFICES ASSUME DataAnswer, done, fn = "data_req" PROVE DataAsObtained
    BY DEF DataAsObtained, Result
  <2>1. \A t \in Tags :
          t \in out.data <=> /\ t \in in.asked /\ Obtained(t) /\ t # "BF22"
                             /\ t = "83" /\ "80" \in in.asked => in.reads.get_euicc_cfg_addr[1] = "null"
    BY DatumObtained
  <2>2. ASSUME NEW f \in DOMAIN out.calls, out.calls[f] = 2 PROVE in.reads[f][1] = "null"
    <3>1. out.calls = Calls(in.asked, in.reads)
      BY DEF DataAnswer
    <3>2. f \in {"get_euicc_cfg_addr", "get_certs"}
      BY <2>2, <3>1 DEF Calls
    <3>3. CASE f = "get_euicc_cfg_addr"
      <4>1. "80" \in in.asked /\ euicc_cfg_addr(in.asked, in.reads) = "null"
        BY <2>2, <3>1, <3>3 DEF Calls
      <4> QED BY <3>3, <4>1 DEF euicc_cfg_addr
    <3>4. CASE f = "get_certs"
      <4>1. "A5" \in in.asked /\ get_certs_res(in.asked, in.reads) = "null"
        BY <2>2, <3>1, <3>4 DEF Calls
      <4> QED BY <3>4, <4>1 DEF get_certs_res
    <3> QED BY <3>2, <3>3, <3>4
  <2> QED BY <2>1, <2>2 DEF DataAsObtained
<1> QED BY <1>1, InitDataAnswer, NextDataAnswer, PTL DEF Spec

-----------------------------------------------------------------------------
(* The slots for the segments of a package *)

LEMMA CatSegments ==
  ASSUME NEW S, NEW s \in Seq(S), NEW t \in Seq(S)
  PROVE  s \o t \in Seq(S) /\ Len(s \o t) = Len(s) + Len(t)
OBVIOUS

LEMMA OneSegment == ASSUME NEW S, NEW x \in S PROVE <<x>> \in Seq(S) /\ Len(<<x>>) = 1
OBVIOUS

(* However many TLVs a package has and whatever their sizes, its segments do not
   outnumber the slots that ipa_bpp_segments_encode allocates for them.       *)
THEOREM SegmentsFitSlots ==
  ASSUME NEW bpp, bpp.seq88 \in Seq(Nat), bpp.seq86 \in Seq(Nat)
  PROVE  Len(ipa_bpp_segments_encode(bpp)) <= segment_count(bpp)
<1> DEFINE head == Pinched(BppTag, BppContent(bpp), <<"bpp", 0>>) \o <<<<"iscr", 1>>>>
           first == PinchedOf(0, bpp.first, <<"first", 0>>) \o <<<<"first", 1>>>>
           second == PinchedOf(2, bpp.second, <<"second", 0>>) \o <<<<"second", 1>>>>
           h88 == PinchedOf(1, bpp.seq88, <<"seq88", 0>>)
           h86 == PinchedOf(3, bpp.seq86, <<"seq86", 0>>)
           n88 == Len(bpp.seq88)
           n86 == Len(bpp.seq86)
           e88 == EachAlone("seq88", bpp.seq88)
           e86 == EachAlone("seq86", bpp.seq86)
           S == {head, first, second, h88, h86} \cup {<<<<"seq88", k>>>> : k \in 1..n88}
                \cup {<<<<"seq86", k>>>> : k \in 1..n86}
           sec == Second(bpp)
           c88 == Cut(1, "seq88", bpp.seq88)
           c86 == Cut(3, "seq86", bpp.seq86)
<1>1. n88 \in Nat /\ n86 \in Nat
  OBVIOUS
<1>2. e88 \in Seq(S) /\ Len(e88) = n88
  <2>1. e88 = [k \in 1..n88 |-> <<<<"seq88", k>>>>]
    BY DEF EachAlone
  <2>2. \A k \in 1..n88 : <<<<"seq88", k>>>> \in S
    OBVIOUS
  <2> HIDE DEF n88, e88, S
  <2> QED BY <1>1, <2>1, <2>2
<1>3. e86 \in Seq(S) /\ Len(e86) = n86
  <2>1. e86 = [k \in 1..n86 |-> <<<<"seq86", k>>>>]
    BY DEF EachAlone
  <2>2. \A k \in 1..n86 : <<<<"seq86", k>>>> \in S
    OBVIOUS
  <2> HIDE DEF n86, e86, S
  <2> QED BY <1>1, <2>1, <2>2
<1>4. head \in S /\ first \in S /\ second \in S /\ h88 \in S /\ h86 \in S
  <2> HIDE DEF head, first, second, h88, h86
  <2> QED OBVIOUS
<1>5. c88 = <<h88>> \o e88 /\ c86 = <<h86>> \o e86
  BY DEF Cut
<1>6. sec = IF bpp.hasSecond THEN <<second>> ELSE <<>>
  BY DEF Second, With87
<1>7. ipa_bpp_segments_encode(bpp) =
        IF bpp.first = <<>> \/ (bpp.hasSecond /\ bpp.second = <<>>) THEN <<>>
        ELSE <<head>> \o <<first>> \o c88 \o sec \o c86
  BY DEF ipa_bpp_segments_encode, NoSegments, With87
<1>8. segment_count(bpp) = 3 + n88 + 2 + n86
  BY DEF segment_count
<1> HIDE DEF head, first, second, h88, h86, n88, n86, e88, e86, S, sec, c88, c86
<1>9. c88 \in Seq(S) /\ Len(c88) = 1 + n88
  BY <1>2, <1>4, <1>5, CatSegments, OneSegment
<1>10. c86 \in Seq(S) /\ Len(c86) = 1 + n86
  BY <1>3, <1>4, <1>5, CatSegments, OneSegment
<1>11. sec \in Seq(S) /\ Len(sec) \in {0, 1}
  BY <1>4, <1>6, OneSegment
<1>12. <<head>> \o <<first>> \in Seq(S) /\ Len(<<head>> \o <<first>>) = 2
  BY <1>4, CatSegments, OneSegment
<1>13. /\ <<head>> \o <<first>> \o c88 \in Seq(S)
       /\ Len(<<head>> \o <<first>> \o c88) = 3 + n88
  BY <1>1, <1>9, <1>12, CatSegments
<1>14. /\ <<head>> \o <<first>> \o c88 \o sec \in Seq(S)
       /\ Len(<<head>> \o <<first>> \o c88 \o sec) = 3 + n88 + Len(sec)
  BY <1>11, <1>13, CatSegments
<1>15. Len(<<head>> \o <<first>> \o c88 \o sec \o c86) = 3 + n88 + Len(sec) + 1 + n86
  <2> DEFINE p == <<head>> \o <<first>> \o c88 \o sec
  <2>1. p \in Seq(S) /\ Len(p) = 3 + n88 + Len(sec)
    BY <1>14
  <2> HIDE DEF p
  <2>2. Len(p \o c86) = Len(p) + Len(c86)
    BY <1>10, <2>1, CatSegments
  <2>3. Len(p \o c86) = 3 + n88 + Len(sec) + 1 + n86
    BY <1>1, <1>10, <1>11, <2>1, <2>2
  <2> QED BY <2>3 DEF p
<1>16. Len(<<>>) = 0
  OBVIOUS
<1>17. Len(<<head>> \o <<first>> \o c88 \o sec \o c86) <= 3 + n88 + 2 + n86
  <2> DEFINE n == Len(sec)
             m == Len(<<head>> \o <<first>> \o c88 \o sec \o c86)
  <2>1. n \in {0, 1} /\ m = 3 + n88 + n + 1 + n86
    BY <1>11, <1>15
  <2> HIDE DEF n, m
  <2>2. m <= 3 + n88 + 2 + n86
    BY <1>1, <2>1
  <2> QED BY <2>2 DEF m
<1> QED BY <1>1, <1>7, <1>8, <1>16, <1>17

-----------------------------------------------------------------------------
(* Induction, in the form the provers can apply: on a set of numbers *)

Below == {pair \in Nat \X Nat : pair[1] < pair[2]}

LEMMA BelowWellFounded == IsWellFoundedOn(Below, Nat)
BY NatLessThanWellFounded DEF OpToRel, Below

LEMMA Induction ==
  ASSUME NEW T, 0 \in T, \A n \in Nat : n \in T => n + 1 \in T
  PROVE  Nat \subseteq T
<1> SUFFICES ASSUME Nat \ T # {} PROVE FALSE
  OBVIOUS
<1>1. PICK n \in Nat \ T : \A m \in Nat \ T : ~(<<m, n>> \in Below)
  <2> DEFINE U == Nat \ T
  <2>1. U \subseteq Nat /\ U # {}
    OBVIOUS
  <2> HIDE DEF U
  <2>2. \E n \in U : \A m \in U : ~(<<m, n>> \in Below)
    BY <2>1, BelowWellFounded, WFMin
  <2> QED BY <2>2 DEF U
<1>2. n # 0 /\ n \in Nat
  OBVIOUS
<1>3. n - 1 \in Nat /\ n - 1 < n /\ (n - 1) + 1 = n
  BY <1>2
<1>4. <<n - 1, n>> \in Below
  BY <1>2, <1>3 DEF Below
<1>5. n - 1 \in T
  BY <1>1, <1>3, <1>4
<1>6. n \in T
  BY <1>3, <1>5
<1> QED BY <1>6

-----------------------------------------------------------------------------
(* FlattenSeq *)

IsFlat(f, s) == f = [i \in 1..Len(s) |-> IF i = 1 THEN s[i] ELSE f[i - 1] \o s[i]]

LEMMA FlatExists == ASSUME NEW S, NEW s \in Seq(S) PROVE \E f : IsFlat(f, s)
<1> DEFINE T == {n \in Nat : \A t \in Seq(S) : Len(t) = n => \E f : IsFlat(f, t)}
<1>1. 0 \in T
  <2> SUFFICES ASSUME NEW t \in Seq(S), Len(t) = 0 PROVE \E f : IsFlat(f, t)
    OBVIOUS
  <2> DEFINE f == [i \in 1..0 |-> 0]
  <2>1. f = [i \in 1..Len(t) |-> IF i = 1 THEN t[i] ELSE f[i - 1] \o t[i]]
    OBVIOUS
  <2> HIDE DEF f
  <2> QED BY <2>1 DEF IsFlat
<1>2. ASSUME NEW n \in Nat, n \in T PROVE n + 1 \in T
  <2> SUFFICES ASSUME NEW t \in Seq(S), Len(t) = n + 1 PROVE \E f : IsFlat(f, t)
    OBVIOUS
  <2> DEFINE r == [i \in 1..n |-> t[i]]
  <2>1. r \in Seq(S) /\ Len(r) = n
    OBVIOUS
  <2>2. PICK f : IsFlat(f, r)
    BY <1>2, <2>1
  <2>3. f = [i \in 1..n |-> IF i = 1 THEN t[i] ELSE f[i - 1] \o t[i]]
    BY <2>1, <2>2 DEF IsFlat
  <2> DEFINE last == IF n = 0 THEN t[n + 1] ELSE f[n] \o t[n + 1]
             g == [i \in 1..(n + 1) |-> IF i = n + 1 THEN last ELSE f[i]]
  <2>4. \A i \in 1..(n + 1) : g[i] = IF i = n + 1 THEN last ELSE f[i]
    OBVIOUS
  <2>5. \A i \in 1..n : f[i] = IF i = 1 THEN t[i] ELSE f[i - 1] \o t[i]
    <3> HIDE DEF r
    <3> QED BY <2>3
  <2>6. DOMAIN g = 1..(n + 1) /\ g = [i \in 1..(n + 1) |-> g[i]]
    OBVIOUS
  <2> HIDE DEF g, r
  <2>7. ASSUME NEW i \in 1..(n + 1)
        PROVE  g[i] = IF i = 1 THEN t[i] ELSE g[i - 1] \o t[i]
    <3>1. CASE i = n + 1
      <4>1. CASE n = 0
        BY <2>4, <3>1, <4>1
      <4>2. CASE n # 0
        <5>1. i # 1 /\ n \in 1..(n + 1) /\ n # n + 1 /\ i - 1 = n
          BY <3>1, <4>2
        <5>2. g[n] = f[n]
          BY <2>4, <5>1
        <5>3. g[i] = f[n] \o t[i]
          BY <2>4, <3>1, <4>2
        <5> QED BY <5>1, <5>2, <5>3
      <4> QED BY <4>1, <4>2
    <3>2. CASE i # n + 1
      <4>1. i \in 1..n
        BY <3>2
      <4>2. CASE i = 1
        BY <2>4, <2>5, <3>2, <4>1, <4>2
      <4>3. CASE i # 1
        <5>1. i - 1 \in 1..(n + 1) /\ i - 1 # n + 1
          BY <4>1, <4>3
        <5>2. g[i - 1] = f[i - 1]
          BY <2>4, <5>1
        <5> QED BY <2>4, <2>5, <3>2, <4>1, <4>3, <5>2
      <4> QED BY <4>2, <4>3
    <3> QED BY <3>1, <3>2
  <2>8. g = [i \in 1..Len(t) |-> IF i = 1 THEN t[i] ELSE g[i - 1] \o t[i]]
    BY <2>6, <2>7
  <2> QED BY <2>8 DEF IsFlat
<1> HIDE DEF T
<1>3. Nat \subseteq T
  BY <1>1, <1>2, Induction
<1>4. Len(s) \in T
  BY <1>3
<1> QED BY <1>4 DEF T

(* Two sequences that begin alike are put together alike. *)
LEMMA FlatAgree ==
  ASSUME NEW s, NEW t, NEW f, NEW g, IsFlat(f, s), IsFlat(g, t),
         NEW n \in Nat, n >= 1, Len(s) \in Nat, Len(t) \in Nat, n <= Len(s), n <= Len(t),
         \A i \in 1..n : s[i] = t[i]
  PROVE  f[n] = g[n]
<1> DEFINE T == {m \in Nat : m + 1 <= n => f[m + 1] = g[m + 1]}
<1>1. /\ \A i \in 1..Len(s) : f[i] = IF i = 1 THEN s[i] ELSE f[i - 1] \o s[i]
      /\ \A i \in 1..Len(t) : g[i] = IF i = 1 THEN t[i] ELSE g[i - 1] \o t[i]
  BY DEF IsFlat
<1>2. 0 \in T
  BY <1>1
<1>3. ASSUME NEW m \in Nat, m \in T PROVE m + 1 \in T
  <2> SUFFICES ASSUME (m + 1) + 1 <= n PROVE f[(m + 1) + 1] = g[(m + 1) + 1]
    OBVIOUS
  <2>1. f[m + 1] = g[m + 1]
    BY <1>3
  <2> DEFINE k == (m + 1) + 1
  <2>2. k \in 1..n /\ k \in 1..Len(s) /\ k \in 1..Len(t) /\ k # 1 /\ k - 1 = m + 1
    OBVIOUS
  <2> HIDE DEF k
  <2>3. f[k] = f[k - 1] \o s[k] /\ g[k] = g[k - 1] \o t[k] /\ s[k] = t[k]
    BY <1>1, <2>2
  <2>4. f[k] = g[k]
    BY <2>1, <2>2, <2>3
  <2> QED BY <2>4 DEF k
<1> HIDE DEF T
<1>4. Nat \subseteq T
  BY <1>2, <1>3, Induction
<1>5. n - 1 \in T /\ (n - 1) + 1 = n
  BY <1>4
<1> QED BY <1>5 DEF T

LEMMA FlattenIs ==
  ASSUME NEW S, NEW s \in Seq(S), Len(s) # 0
  PROVE  \E f : IsFlat(f, s) /\ FlattenSeq(s) = f[Len(s)]
<1> DEFINE flatten[i \in 1..Len(s)] == IF i = 1 THEN s[i] ELSE flatten[i - 1] \o s[i]
<1>1. FlattenSeq(s) = flatten[Len(s)]
  BY DEF FlattenSeq
<1>2. flatten = CHOOSE f : f = [i \in 1..Len(s) |-> IF i = 1 THEN s[i] ELSE f[i - 1] \o s[i]]
  OBVIOUS
<1> HIDE DEF flatten
<1>3. \E f : IsFlat(f, s)
  BY FlatExists
<1>4. IsFlat(flatten, s)
  BY Zenon, <1>2, <1>3 DEF IsFlat
<1> QED BY Zenon, <1>1, <1>4

(* The last sequence is put behind the others. *)
LEMMA FlattenStep ==
  ASSUME NEW S, NEW s \in Seq(Seq(S)), Len(s) > 0
  PROVE  FlattenSeq(s) = FlattenSeq([i \in 1..(Len(s) - 1) |-> s[i]]) \o s[Len(s)]
<1> DEFINE n == Len(s)
           r == [i \in 1..(n - 1) |-> s[i]]
<1>1. n \in Nat /\ n >= 1 /\ n - 1 \in Nat
  OBVIOUS
<1>2. r \in Seq(Seq(S)) /\ Len(r) = n - 1 /\ \A i \in 1..(n - 1) : r[i] = s[i]
  OBVIOUS
<1>3. s[n] \in Seq(S)
  OBVIOUS
<1>4. PICK f : IsFlat(f, s) /\ FlattenSeq(s) = f[n]
  <2> HIDE DEF n
  <2>1. Len(s) # 0 /\ n = Len(s)
    BY <1>1 DEF n
  <2> QED BY <2>1, FlattenIs
<1>5. \A i \in 1..n : f[i] = IF i = 1 THEN s[i] ELSE f[i - 1] \o s[i]
  BY <1>4 DEF IsFlat
<1>6. n = Len(s) /\ r = [i \in 1..(Len(s) - 1) |-> s[i]]
  OBVIOUS
<1> HIDE DEF n, r
<1>7. CASE n = 1
  <2>1. f[n] = s[n]
    BY <1>5, <1>7
  <2>2. FlattenSeq(r) = <<>>
    <3>1. Len(r) = 0
      BY <1>2, <1>7
    <3>2. r = <<>>
      BY <1>2, <3>1
    <3> QED BY <3>1, <3>2 DEF FlattenSeq
  <2>3. <<>> \o s[n] = s[n]
    BY <1>3
  <2> QED BY <1>4, <1>6, <2>1, <2>2, <2>3
<1>8. CASE n > 1
  <2>1. f[n] = f[n - 1] \o s[n]
    <3>1. n \in 1..n /\ n # 1
      BY <1>1, <1>8
    <3> QED BY <1>5, <3>1
  <2>2. Len(r) # 0
    BY <1>1, <1>2, <1>8
  <2>3. PICK g : IsFlat(g, r) /\ FlattenSeq(r) = g[Len(r)]
    BY <1>2, <2>2, FlattenIs
  <2>4. f[n - 1] = g[n - 1]
    <3>1. /\ n - 1 \in Nat /\ n - 1 >= 1 /\ Len(s) \in Nat /\ Len(r) \in Nat
          /\ n - 1 <= Len(s) /\ n - 1 <= Len(r)
      BY <1>1, <1>2, <1>6, <1>8
    <3>2. \A i \in 1..(n - 1) : s[i] = r[i]
      BY <1>2
    <3>3. IsFlat(f, s) /\ IsFlat(g, r)
      BY <1>4, <2>3
    <3> QED BY <3>1, <3>2, <3>3, FlatAgree
  <2> QED BY <1>2, <1>4, <1>6, <2>1, <2>3, <2>4
<1> QED BY <1>1, <1>7, <1>8

LEMMA FlattenNone == FlattenSeq(<<>>) = <<>>
BY DEF FlattenSeq

LEMMA FlattenType ==
  ASSUME NEW S, NEW s \in Seq(Seq(S)) PROVE FlattenSeq(s) \in Seq(S)
<1> DEFINE T == {n \in Nat : \A t \in Seq(Seq(S)) : Len(t) = n => FlattenSeq(t) \in Seq(S)}
<1>1. 0 \in T
  <2> SUFFICES ASSUME NEW t \in Seq(Seq(S)), Len(t) = 0 PROVE FlattenSeq(t) \in Seq(S)
    OBVIOUS
  <2>1. t = <<>>
    OBVIOUS
  <2>2. <<>> \in Seq(S)
    OBVIOUS
  <2> QED BY <2>1, <2>2, FlattenNone
<1>2. ASSUME NEW n \in Nat, n \in T PROVE n + 1 \in T
  <2> SUFFICES ASSUME NEW t \in Seq(Seq(S)), Len(t) = n + 1 PROVE FlattenSeq(t) \in Seq(S)
    OBVIOUS
  <2> DEFINE r == [i \in 1..(Len(t) - 1) |-> t[i]]
  <2>1. r \in Seq(Seq(S)) /\ Len(r) = n
    OBVIOUS
  <2>2. t[Len(t)] \in Seq(S) /\ Len(t) > 0
    OBVIOUS
  <2>3. FlattenSeq(t) = FlattenSeq(r) \o t[Len(t)]
    BY <2>2, FlattenStep
  <2> HIDE DEF r
  <2>4. FlattenSeq(r) \in Seq(S)
    BY <1>2, <2>1
  <2> QED BY <2>2, <2>3, <2>4
<1> HIDE DEF T
<1>3. Nat \subseteq T
  BY <1>1, <1>2, Induction
<1>4. Len(s) \in T
  BY <1>3
<1> QED BY <1>4 DEF T

-----------------------------------------------------------------------------
(* The scan of a tag list *)

ScanAt(f, list, k) ==
  IF k > Len(list) THEN {}
  ELSE IF ~TwoByteTag(list[k]) THEN {list[k]} \cup f[k + 1]
  ELSE IF k < Len(list) THEN {list[k] * 256 + list[k + 1]} \cup f[k + 2]
  ELSE {}

IsScan(f, list) == f = [k \in 1..(Len(list) + 1) |-> ScanAt(f, list, k)]

LEMMA ScanExists == ASSUME NEW list \in Seq(Nat) PROVE \E f : IsScan(f, list)
<1> DEFINE l == Len(list)
           ScanFrom(f, m) == f = [k \in m..(l + 1) |-> ScanAt(f, list, k)]
           T == {n \in Nat : n <= l => \E f : ScanFrom(f, l + 1 - n)}
<1>1. l \in Nat
  OBVIOUS
<1> HIDE DEF l
<1>2. 0 \in T
  <2> DEFINE f == [k \in (l + 1 - 0)..(l + 1) |-> {}]
  <2>1. \A k \in (l + 1 - 0)..(l + 1) : ScanAt(f, list, k) = {}
    <3> SUFFICES ASSUME NEW k \in (l + 1 - 0)..(l + 1) PROVE ScanAt(f, list, k) = {}
      OBVIOUS
    <3>1. k > Len(list)
      BY <1>1 DEF l
    <3> HIDE DEF f
    <3> QED BY <3>1 DEF ScanAt
  <2>2. f = [k \in (l + 1 - 0)..(l + 1) |-> ScanAt(f, list, k)]
    BY <2>1
  <2> HIDE DEF f
  <2> QED BY <2>2
<1>3. ASSUME NEW n \in Nat, n \in T PROVE n + 1 \in T
  <2> SUFFICES ASSUME n + 1 <= l PROVE \E f : ScanFrom(f, l + 1 - (n + 1))
    OBVIOUS
  <2> DEFINE m == l + 1 - (n + 1)
  <2>1. m \in Nat /\ m >= 1 /\ m <= l /\ m + 1 = l + 1 - n
    BY <1>1
  <2>2. PICK f : ScanFrom(f, m + 1)
    <3>1. n <= l
      BY <1>1
    <3>2. \E f : ScanFrom(f, l + 1 - n)
      BY <1>3, <3>1
    <3> HIDE DEF ScanFrom, m
    <3> QED BY <2>1, <3>2
  <2> DEFINE g == [k \in m..(l + 1) |-> IF k = m THEN ScanAt(f, list, m) ELSE f[k]]
  <2> HIDE DEF m
  <2>3. \A k \in (m + 1)..(l + 1) : f[k] = ScanAt(f, list, k)
    BY <2>2
  <2>4. \A k \in m..(l + 1) : g[k] = IF k = m THEN ScanAt(f, list, m) ELSE f[k]
    OBVIOUS
  <2>5. g = [k \in m..(l + 1) |-> g[k]]
    OBVIOUS
  <2> HIDE DEF g
  <2>6. ASSUME NEW k \in m..(l + 1) PROVE ScanAt(g, list, k) = ScanAt(f, list, k)
    <3>1. k <= Len(list) => g[k + 1] = f[k + 1]
      BY SMTT(30), <1>1, <2>1, <2>4 DEF l
    <3>2. k < Len(list) => g[k + 2] = f[k + 2]
      BY <1>1, <2>1, <2>4 DEF l
    <3>3. k > Len(list) \/ k <= Len(list)
      BY <1>1, <2>1 DEF l
    <3> QED BY <3>1, <3>2, <3>3 DEF ScanAt
  <2>7. ASSUME NEW k \in m..(l + 1) PROVE g[k] = ScanAt(g, list, k)
    <3>1. CASE k = m
      BY <2>4, <2>6, <3>1
    <3>2. CASE k # m
      <4>1. k \in (m + 1)..(l + 1)
        BY <1>1, <2>1, <3>2
      <4> QED BY <2>3, <2>4, <2>6, <3>2, <4>1
    <3> QED BY <3>1, <3>2
  <2>8. g = [k \in m..(l + 1) |-> ScanAt(g, list, k)]
    BY <2>5, <2>7
  <2> QED BY <2>8 DEF m
<1>4. Nat \subseteq T
  <2> HIDE DEF T
  <2> QED BY <1>2, <1>3, Induction
<1>5. PICK f : ScanFrom(f, l + 1 - l)
  <2>1. l \in T /\ l <= l
    <3> HIDE DEF T
    <3> QED BY <1>1, <1>4
  <2> QED BY <2>1
<1>6. l + 1 - l = 1
  BY <1>1
<1>7. f = [k \in 1..(l + 1) |-> ScanAt(f, list, k)]
  BY <1>5, <1>6
<1> QED BY <1>7 DEF IsScan, l

LEMMA TagsFromIs ==
  ASSUME NEW list \in Seq(Nat)
  PROVE  \E f : IsScan(f, list) /\ TagsFrom(list) = f[1]
<1> DEFINE from[k \in 1..(Len(list) + 1)] ==
             IF k > Len(list) THEN {}
             ELSE IF ~TwoByteTag(list[k]) THEN {list[k]} \cup from[k + 1]
             ELSE IF k < Len(list) THEN {list[k] * 256 + list[k + 1]} \cup from[k + 2]
             ELSE {}
<1>1. TagsFrom(list) = from[1]
  BY DEF TagsFrom
<1>2. from = CHOOSE f : f = [k \in 1..(Len(list) + 1) |->
             IF k > Len(list) THEN {}
             ELSE IF ~TwoByteTag(list[k]) THEN {list[k]} \cup f[k + 1]
             ELSE IF k < Len(list) THEN {list[k] * 256 + list[k + 1]} \cup f[k + 2]
             ELSE {}]
  OBVIOUS
<1> HIDE DEF from
<1>3. \E f : IsScan(f, list)
  BY ScanExists
<1>4. IsScan(from, list)
  BY Zenon, <1>2, <1>3 DEF IsScan, ScanAt
<1> QED BY Zenon, <1>1, <1>4

(* What is read from a place in the rest of a list does not depend on what is before. *)
LEMMA ScanShift ==
  ASSUME NEW pre \in Seq(Nat), NEW rest \in Seq(Nat), NEW f, NEW g,
         IsScan(f, pre \o rest), IsScan(g, rest)
  PROVE  f[Len(pre) + 1] = g[1]
<1> DEFINE p == Len(pre)
           r == Len(rest)
           z == pre \o rest
           T == {n \in Nat : \A k \in 1..(r + 1) : r + 1 - k <= n => f[p + k] = g[k]}
<1>1. p \in Nat /\ r \in Nat /\ Len(z) = p + r
  BY CatLength
<1>2. \A k \in 1..r : z[p + k] = rest[k]
  BY CatSecond
<1>3. \A k \in 1..(Len(z) + 1) : f[k] = ScanAt(f, z, k)
  BY DEF IsScan
<1>4. \A k \in 1..(r + 1) : g[k] = ScanAt(g, rest, k)
  BY DEF IsScan
<1>5. Len(rest) = r
  OBVIOUS
<1> HIDE DEF p, r, z
<1>6. 0 \in T
  <2> SUFFICES ASSUME NEW k \in 1..(r + 1), r + 1 - k <= 0 PROVE f[p + k] = g[k]
    BY <1>1
  <2>1. k > r /\ p + k > Len(z) /\ p + k \in 1..(Len(z) + 1)
    BY <1>1
  <2>2. f[p + k] = {}
    BY <1>3, <2>1 DEF ScanAt
  <2>3. g[k] = {}
    BY <1>4, <1>5, <2>1 DEF ScanAt
  <2> QED BY <2>2, <2>3
<1>7. ASSUME NEW n \in Nat, n \in T PROVE n + 1 \in T
  <2> SUFFICES ASSUME NEW k \in 1..(r + 1), r + 1 - k <= n + 1 PROVE f[p + k] = g[k]
    BY <1>1
  <2>0. \A j \in 1..(r + 1) : r + 1 - j <= n => f[p + j] = g[j]
    BY <1>7
  <2>1. CASE r + 1 - k <= n
    BY <2>0, <2>1
  <2>2. CASE ~(r + 1 - k <= n)
    <3>1. k \in 1..r /\ ~(k > r) /\ ~(p + k > Len(z)) /\ p + k \in 1..(Len(z) + 1)
      BY <1>1, <2>2
    <3>2. z[p + k] = rest[k]
      BY <1>2, <3>1
    <3>3. f[p + k + 1] = g[k + 1]
      <4>1. k + 1 \in 1..(r + 1) /\ r + 1 - (k + 1) <= n /\ p + (k + 1) = p + k + 1
        BY <1>1, <3>1
      <4> QED BY <2>0, <4>1
    <3>4. p + k < Len(z) <=> k < r
      BY <1>1, <3>1
    <3>5. ASSUME k < r PROVE z[p + k + 1] = rest[k + 1] /\ f[p + k + 2] = g[k + 2]
      <4>1. /\ k + 1 \in 1..r /\ p + (k + 1) = p + k + 1
            /\ k + 2 \in 1..(r + 1) /\ r + 1 - (k + 2) <= n /\ p + (k + 2) = p + k + 2
        BY <1>1, <3>1, <3>5
      <4>2. z[p + (k + 1)] = rest[k + 1]
        BY <1>2, <4>1
      <4>3. f[p + (k + 2)] = g[k + 2]
        BY <2>0, <4>1
      <4> QED BY <4>1, <4>2, <4>3
    <3>6. f[p + k] = ScanAt(f, z, p + k)
      BY <1>3, <3>1
    <3>7. g[k] = ScanAt(g, rest, k)
      BY <1>4, <3>1
    <3>8. ScanAt(f, z, p + k) = ScanAt(g, rest, k)
      BY Zenon, <1>5, <3>1, <3>2, <3>3, <3>4, <3>5 DEF ScanAt
    <3> QED BY <3>6, <3>7, <3>8
  <2> QED BY <2>1, <2>2
<1>8. Nat \subseteq T
  <2> HIDE DEF T
  <2> QED BY <1>6, <1>7, Induction
<1>9. r \in T
  <2> HIDE DEF T
  <2> QED BY <1>1, <1>8
<1>10. 1 \in 1..(r + 1) /\ r + 1 - 1 <= r
  BY <1>1
<1>11. f[p + 1] = g[1]
  BY <1>9, <1>10
<1> QED BY <1>11 DEF p

(* A tag at the front of a list is found, and so are those that are behind it. *)
LEMMA TagInFront ==
  ASSUME NEW t \in Seq(Nat), NEW rest \in Seq(Nat), Len(t) \in {1, 2}, Wide(t[1]) <=> Len(t) = 2
  PROVE  TagsFrom(t \o rest) = {Number(t, 256)} \cup TagsFrom(rest)
<1> DEFINE z == t \o rest
<1>1. z \in Seq(Nat) /\ Len(z) = Len(t) + Len(rest)
  BY CatLength
<1>2. \A i \in 1..Len(t) : z[i] = t[i]
  BY CatFirst
<1>3. PICK f : IsScan(f, z) /\ TagsFrom(z) = f[1]
  <2> HIDE DEF z
  <2> QED BY <1>1, TagsFromIs
<1>4. PICK g : IsScan(g, rest) /\ TagsFrom(rest) = g[1]
  BY TagsFromIs
<1>5. f[Len(t) + 1] = g[1]
  BY <1>3, <1>4, ScanShift
<1>6. Len(t) \in Nat /\ Len(rest) \in Nat
  OBVIOUS
<1> HIDE DEF z
<1>7. f[1] = ScanAt(f, z, 1)
  <2>1. 1 \in 1..(Len(z) + 1)
    BY <1>1
  <2> QED BY <1>3, <2>1 DEF IsScan
<1>8. CASE Len(t) = 1
  <2>1. ~(1 > Len(z)) /\ z[1] = t[1] /\ 1 + 1 = Len(t) + 1
    BY <1>1, <1>2, <1>6, <1>8
  <2>2. ~TwoByteTag(z[1])
    BY <1>8, <2>1 DEF TwoByteTag
  <2>3. f[1] = {t[1]} \cup f[Len(t) + 1]
    BY Zenon, <1>7, <2>1, <2>2 DEF ScanAt
  <2>4. Number(t, 256) = t[1]
    BY <1>8, NumberOfOne
  <2> QED BY Zenon, <1>3, <1>4, <1>5, <2>3, <2>4 DEF z
<1>9. CASE Len(t) = 2
  <2>1. ~(1 > Len(z)) /\ 1 < Len(z) /\ z[1] = t[1] /\ z[1 + 1] = t[2] /\ 1 + 2 = Len(t) + 1
    BY <1>1, <1>2, <1>6, <1>9
  <2>2. TwoByteTag(z[1])
    BY <1>9, <2>1 DEF TwoByteTag
  <2>3. f[1] = {t[1] * 256 + t[2]} \cup f[Len(t) + 1]
    BY Zenon, <1>7, <2>1, <2>2 DEF ScanAt
  <2>4. Number(t, 256) = t[1] * 256 + t[2]
    BY <1>9, NumberOfTwo
  <2> QED BY Zenon, <1>3, <1>4, <1>5, <2>3, <2>4 DEF z
<1> QED BY <1>8, <1>9

(* No tag is read from an empty list, and none from one byte of two. *)
LEMMA TagCut ==
  ASSUME NEW list \in Seq(Nat), \/ Len(list) = 0
                                \/ Len(list) = 1 /\ Wide(list[1])
  PROVE  TagsFrom(list) = {}
<1>1. PICK f : IsScan(f, list) /\ TagsFrom(list) = f[1]
  BY TagsFromIs
<1>2. f[1] = ScanAt(f, list, 1)
  BY <1>1 DEF IsScan
<1>3. CASE Len(list) = 0
  BY <1>1, <1>2, <1>3 DEF ScanAt
<1>4. CASE Len(list) = 1 /\ Wide(list[1])
  <2>1. ~(1 > Len(list)) /\ ~(1 < Len(list)) /\ TwoByteTag(list[1])
    BY <1>4 DEF TwoByteTag
  <2> QED BY Zenon, <1>1, <1>2, <2>1 DEF ScanAt
<1> QED BY <1>3, <1>4

LEMMA CatAssociative == \A s, t, u \in Seq(Nat) : (s \o t) \o u = s \o (t \o u)
OBVIOUS

LEMMA CatNothing == \A s \in Seq(Nat) : <<>> \o s = s /\ s \o <<>> = s
OBVIOUS

LEMMA EncodedNone == ASSUME NEW tags, tags \in Seq(TagType), Len(tags) = 0 PROVE Encoded(tags) = <<>>
<1> DEFINE b == [k \in DOMAIN tags |-> ber_tlv_tag_serialize(tags[k])]
<1>1. b = <<>>
  OBVIOUS
<1>2. Encoded(tags) = FlattenSeq(b)
  BY DEF Encoded
<1> QED BY <1>1, <1>2, FlattenNone

LEMMA EncodedStep ==
  ASSUME NEW tags \in Seq(TagType), Len(tags) > 0
  PROVE  LET front == [k \in 1..(Len(tags) - 1) |-> tags[k]]
         IN /\ front \in Seq(TagType) /\ Len(front) = Len(tags) - 1
            /\ tags[Len(tags)] \in TagType
            /\ Encoded(front) \in Seq(Nat)
            /\ Encoded(tags) = Encoded(front) \o ber_tlv_tag_serialize(tags[Len(tags)])
<1> DEFINE n == Len(tags)
           front == [k \in 1..(n - 1) |-> tags[k]]
           Bytes(s) == [k \in DOMAIN s |-> ber_tlv_tag_serialize(s[k])]
<1>1. n \in Nat /\ n >= 1 /\ DOMAIN tags = 1..n /\ \A k \in 1..n : tags[k] \in TagType
  OBVIOUS
<1>2. front \in Seq(TagType) /\ Len(front) = n - 1 /\ DOMAIN front = 1..(n - 1)
  OBVIOUS
<1>3. \A k \in 1..n : ber_tlv_tag_serialize(tags[k]) \in Seq(Nat)
  <2> SUFFICES ASSUME NEW k \in 1..n PROVE ber_tlv_tag_serialize(tags[k]) \in Seq(Nat)
    OBVIOUS
  <2> HIDE DEF n
  <2> QED BY <1>1, TagOneOrTwo
<1>4. Bytes(tags) = [k \in 1..n |-> ber_tlv_tag_serialize(tags[k])]
  BY <1>1
<1>5. Bytes(front) = [k \in 1..(n - 1) |-> ber_tlv_tag_serialize(tags[k])]
  BY <1>2
<1>6. Encoded(tags) = FlattenSeq(Bytes(tags)) /\ Encoded(front) = FlattenSeq(Bytes(front))
  BY Zenon DEF Encoded
<1> HIDE DEF n, front, Bytes
<1>7. Bytes(tags) \in Seq(Seq(Nat)) /\ Len(Bytes(tags)) = n
  BY <1>1, <1>3, <1>4
<1>8. Bytes(front) \in Seq(Seq(Nat))
  BY <1>1, <1>3, <1>5
<1>9. Bytes(tags)[n] = ber_tlv_tag_serialize(tags[n])
  BY <1>1, <1>4
<1>10. Bytes(front) = [k \in 1..(n - 1) |-> Bytes(tags)[k]]
  BY <1>1, <1>4, <1>5
<1>11. FlattenSeq(Bytes(tags)) = FlattenSeq([k \in 1..(n - 1) |-> Bytes(tags)[k]]) \o Bytes(tags)[n]
  <2>1. Len(Bytes(tags)) > 0
    BY <1>1, <1>7
  <2> QED BY <1>7, <2>1, FlattenStep
<1>12. FlattenSeq(Bytes(front)) \in Seq(Nat)
  BY <1>8, FlattenType
<1>13. Encoded(tags) = Encoded(front) \o ber_tlv_tag_serialize(tags[n])
  BY <1>6, <1>9, <1>10, <1>11
<1>14. tags[n] \in TagType
  BY <1>1
<1> QED BY <1>2, <1>6, <1>12, <1>13, <1>14 DEF n, front

(* From the bytes of a list of tags just these tags are read, whatever comes behind. *)
LEMMA ListScanned ==
  ASSUME NEW tags \in Seq(TagType), NEW x \in Seq(Nat)
  PROVE  /\ Encoded(tags) \in Seq(Nat)
         /\ TagsFrom(Encoded(tags) \o x) = {TagNumber(tags[k]) : k \in 1..Len(tags)} \cup TagsFrom(x)
<1> DEFINE Read(s, y) ==
             /\ Encoded(s) \in Seq(Nat)
             /\ TagsFrom(Encoded(s) \o y) = {TagNumber(s[k]) : k \in 1..Len(s)} \cup TagsFrom(y)
           T == {n \in Nat : \A s \in Seq(TagType) : \A y \in Seq(Nat) : Len(s) = n => Read(s, y)}
<1>1. 0 \in T
  <2> SUFFICES ASSUME NEW s \in Seq(TagType), NEW y \in Seq(Nat), Len(s) = 0 PROVE Read(s, y)
    OBVIOUS
  <2>1. Encoded(s) = <<>>
    BY EncodedNone
  <2>2. <<>> \in Seq(Nat) /\ <<>> \o y = y
    BY CatNothing
  <2>3. {TagNumber(s[k]) : k \in 1..Len(s)} = {}
    OBVIOUS
  <2> QED BY Zenon, <2>1, <2>2, <2>3
<1>2. ASSUME NEW n \in Nat, n \in T PROVE n + 1 \in T
  <2> SUFFICES ASSUME NEW s \in Seq(TagType), NEW y \in Seq(Nat), Len(s) = n + 1 PROVE Read(s, y)
    OBVIOUS
  <2> DEFINE front == [k \in 1..(Len(s) - 1) |-> s[k]]
             t == ber_tlv_tag_serialize(s[Len(s)])
  <2>1. Len(s) > 0
    OBVIOUS
  <2>2. /\ front \in Seq(TagType) /\ Len(front) = Len(s) - 1 /\ s[Len(s)] \in TagType
        /\ Encoded(front) \in Seq(Nat) /\ Encoded(s) = Encoded(front) \o t
    BY <2>1, EncodedStep
  <2>3. \A k \in 1..n : front[k] = s[k]
    OBVIOUS
  <2> HIDE DEF front
  <2>4. Len(front) = n /\ Len(s) = n + 1
    BY <2>2
  <2>5. /\ t \in Seq(Nat) /\ Len(t) \in {1, 2} /\ (Wide(t[1]) <=> Len(t) = 2)
        /\ TagNumber(s[Len(s)]) = Number(t, 256)
    BY Zenon, <2>2, TagOneOrTwo DEF TagNumber
  <2> HIDE DEF t
  <2>6. t \o y \in Seq(Nat) /\ Encoded(s) \in Seq(Nat)
    BY <2>2, <2>5, CatLength
  <2>7. Encoded(s) \o y = Encoded(front) \o (t \o y)
    <3> DEFINE e == Encoded(front)
    <3>1. e \in Seq(Nat)
      BY <2>2
    <3> HIDE DEF e
    <3>2. (e \o t) \o y = e \o (t \o y)
      BY <2>5, <3>1, CatAssociative
    <3> QED BY Zenon, <2>2, <3>2 DEF e
  <2>8. TagsFrom(Encoded(front) \o (t \o y)) = {TagNumber(front[k]) : k \in 1..n} \cup TagsFrom(t \o y)
    BY <1>2, <2>2, <2>4, <2>6
  <2>9. TagsFrom(t \o y) = {TagNumber(s[n + 1])} \cup TagsFrom(y)
    BY <2>4, <2>5, TagInFront
  <2>10. {TagNumber(front[k]) : k \in 1..n} = {TagNumber(s[k]) : k \in 1..n}
    BY <2>3
  <2>11. {TagNumber(s[k]) : k \in 1..(n + 1)} = {TagNumber(s[k]) : k \in 1..n} \cup {TagNumber(s[n + 1])}
    <3>1. 1..(n + 1) = (1..n) \cup {n + 1}
      OBVIOUS
    <3> QED BY <3>1
  <2>12. TagsFrom(Encoded(s) \o y) = {TagNumber(s[k]) : k \in 1..(n + 1)} \cup TagsFrom(y)
    BY Zenon, <2>7, <2>8, <2>9, <2>10, <2>11
  <2> QED BY <2>4, <2>6, <2>12
<1> HIDE DEF T
<1>3. Nat \subseteq T
  BY <1>1, <1>2, Induction
<1>4. Len(tags) \in T
  BY <1>3
<1> QED BY <1>4 DEF T

(* A list that lacks its last byte lacks its last tag. *)
LEMMA CutEnd ==
  ASSUME NEW s \in Seq(Nat), NEW t \in Seq(Nat), Len(t) >= 1
  PROVE  LET x == [i \in 1..(Len(t) - 1) |-> t[i]]
         IN /\ x \in Seq(Nat) /\ Len(x) = Len(t) - 1
            /\ SubSeq(s \o t, 1, Len(s \o t) - 1) = s \o x
<1> DEFINE x == [i \in 1..(Len(t) - 1) |-> t[i]]
           z == s \o t
           l == s \o x
           n == Len(z) - 1
           c == SubSeq(z, 1, n)
<1>1. x \in Seq(Nat) /\ Len(x) = Len(t) - 1 /\ \A i \in 1..(Len(t) - 1) : x[i] = t[i]
  OBVIOUS
<1>2. z \in Seq(Nat) /\ Len(z) = Len(s) + Len(t)
  BY CatLength
<1>3. Len(s) \in Nat /\ Len(t) \in Nat
  OBVIOUS
<1>4. /\ \A i \in 1..Len(s) : z[i] = s[i]
      /\ \A i \in 1..Len(t) : z[Len(s) + i] = t[i]
  BY CatFirst, CatSecond
<1> HIDE DEF x, z
<1>5. l \in Seq(Nat) /\ Len(l) = Len(s) + Len(x)
  BY <1>1, CatLength
<1>6. /\ \A i \in 1..Len(s) : l[i] = s[i]
      /\ \A i \in 1..Len(x) : l[Len(s) + i] = x[i]
  BY <1>1, CatFirst, CatSecond
<1>7. n \in Nat /\ n = Len(s) + Len(t) - 1
  BY <1>2, <1>3
<1> HIDE DEF n, l
<1>8. CASE n = 0
  <2>1. c = <<>>
    BY <1>8
  <2>2. Len(l) = 0
    BY <1>1, <1>3, <1>5, <1>7, <1>8
  <2>3. l = <<>>
    BY <1>5, <2>2
  <2> QED BY <1>1, <2>1, <2>3 DEF c, l, x, z, n
<1>9. CASE n # 0
  <2>1. 1 \in 1..Len(z) /\ n \in 1..Len(z)
    BY <1>2, <1>3, <1>7, <1>9
  <2>2. /\ c \in Seq(Nat) /\ Len(c) = n - 1 + 1
        /\ \A i \in 1..(n - 1 + 1) : c[i] = z[1 + i - 1]
    BY <1>2, <2>1, SubSeqIs
  <2> HIDE DEF c
  <2>3. Len(c) = n /\ Len(l) = n /\ \A i \in 1..n : c[i] = z[i]
    BY <1>1, <1>3, <1>5, <1>7, <2>2
  <2>4. ASSUME NEW i \in 1..n PROVE c[i] = l[i]
    <3>1. CASE i <= Len(s)
      <4>1. i \in 1..Len(s)
        BY <3>1
      <4> QED BY <1>4, <1>6, <2>3, <4>1
    <3>2. CASE i > Len(s)
      <4> DEFINE j == i - Len(s)
      <4>1. j \in 1..Len(x) /\ j \in 1..Len(t) /\ j \in 1..(Len(t) - 1) /\ Len(s) + j = i
        BY <1>1, <1>3, <1>7, <3>2
      <4> HIDE DEF j
      <4>2. z[i] = t[j] /\ l[i] = x[j] /\ x[j] = t[j]
        BY <1>1, <1>4, <1>6, <4>1
      <4> QED BY <2>3, <4>2
    <3> QED BY <1>3, <3>1, <3>2
  <2>5. c = l
    BY <1>5, <2>2, <2>3, <2>4, SeqsEqual
  <2> QED BY <1>1, <2>5 DEF c, l, x, z, n
<1> QED BY <1>8, <1>9

LEMMA WholeList ==
  ASSUME NEW tags \in Seq(TagType)
  PROVE  TagsFrom(Encoded(tags)) = {TagNumber(tags[k]) : k \in 1..Len(tags)}
<1>1. <<>> \in Seq(Nat) /\ TagsFrom(<<>>) = {}
  <2>1. <<>> \in Seq(Nat) /\ Len(<<>>) = 0
    OBVIOUS
  <2> QED BY <2>1, TagCut
<1>2. Encoded(tags) \in Seq(Nat)
  BY <1>1, ListScanned
<1>3. Encoded(tags) \o <<>> = Encoded(tags)
  BY <1>2, CatNothing
<1>4. TagsFrom(Encoded(tags) \o <<>>) = {TagNumber(tags[k]) : k \in 1..Len(tags)} \cup TagsFrom(<<>>)
  BY <1>1, ListScanned
<1> QED BY Zenon, <1>1, <1>3, <1>4

LEMMA ShortList ==
  ASSUME NEW tags \in Seq(TagType)
  PROVE  LET list == Encoded(tags)
         IN TagsFrom(SubSeq(list, 1, Len(list) - 1)) = {TagNumber(tags[k]) : k \in 1..(Len(tags) - 1)}
<1> DEFINE list == Encoded(tags)
           n == Len(tags) - 1
<1>1. CASE Len(tags) = 0
  <2>1. list = <<>>
    BY <1>1, EncodedNone
  <2>2. SubSeq(<<>>, 1, Len(<<>>) - 1) = <<>>
    OBVIOUS
  <2>3. <<>> \in Seq(Nat) /\ Len(<<>>) = 0
    OBVIOUS
  <2>4. TagsFrom(<<>>) = {}
    BY <2>3, TagCut
  <2>5. {TagNumber(tags[k]) : k \in 1..(Len(tags) - 1)} = {}
    BY <1>1
  <2> QED BY Zenon, <2>1, <2>2, <2>4, <2>5
<1>2. CASE Len(tags) > 0
  <2> DEFINE front == [k \in 1..(Len(tags) - 1) |-> tags[k]]
             t == ber_tlv_tag_serialize(tags[Len(tags)])
             x == [i \in 1..(Len(t) - 1) |-> t[i]]
  <2>1. /\ front \in Seq(TagType) /\ Len(front) = Len(tags) - 1 /\ tags[Len(tags)] \in TagType
        /\ Encoded(front) \in Seq(Nat) /\ list = Encoded(front) \o t
    BY <1>2, EncodedStep
  <2>2. \A k \in 1..(Len(tags) - 1) : front[k] = tags[k]
    OBVIOUS
  <2> HIDE DEF front
  <2>3. t \in Seq(Nat) /\ Len(t) \in {1, 2} /\ (Wide(t[1]) <=> Len(t) = 2)
    BY Zenon, <2>1, TagOneOrTwo
  <2> HIDE DEF t, list
  <2>4. Len(t) >= 1
    BY <2>3
  <2>5. /\ x \in Seq(Nat) /\ Len(x) = Len(t) - 1
        /\ SubSeq(list, 1, Len(list) - 1) = Encoded(front) \o x
    BY Zenon, <2>1, <2>3, <2>4, CutEnd
  <2>6. Len(x) = 0 \/ (Len(x) = 1 /\ Wide(x[1]))
    <3>1. CASE Len(t) = 1
      BY <2>5, <3>1
    <3>2. CASE Len(t) = 2
      <4>1. x[1] = t[1]
        BY <3>2
      <4>2. Len(x) = 1
        BY <2>5, <3>2
      <4> QED BY Zenon, <2>3, <3>2, <4>1, <4>2
    <3> QED BY <2>3, <3>1, <3>2
  <2> HIDE DEF x
  <2>7. TagsFrom(x) = {}
    BY <2>5, <2>6, TagCut
  <2>8. TagsFrom(Encoded(front) \o x) = {TagNumber(front[k]) : k \in 1..Len(front)} \cup TagsFrom(x)
    BY <2>1, <2>5, ListScanned
  <2>9. {TagNumber(front[k]) : k \in 1..Len(front)} = {TagNumber(tags[k]) : k \in 1..(Len(tags) - 1)}
    BY <2>1, <2>2
  <2> QED BY Zenon, <2>5, <2>7, <2>8, <2>9 DEF list
<1>3. Len(tags) = 0 \/ Len(tags) > 0
  OBVIOUS
<1> QED BY Zenon, <1>1, <1>2, <1>3

-----------------------------------------------------------------------------

TagLists ==
  fn = "taglist" =>
    /\ in \in ListInputs
    /\ done => LET list == Encoded(in.tags)
               IN out = ipa_tag_in_taglist(TagNumber(in.sought), SubSeq(list, 1, Len(list) - in.cut))

LEMMA InitTagLists == Init => TagLists
BY DEF Init, Choose, TagLists

LEMMA NextTagLists == TagLists /\ [Next]_vars => TagLists'
<1> SUFFICES ASSUME TagLists, [Next]_vars PROVE TagLists'
  OBVIOUS
<1>1. CASE RunActivationCode
  BY <1>1 DEF RunActivationCode, Run, TagLists
<1>2. CASE RunTlv
  BY <1>2 DEF RunTlv, Run, TagLists
<1>3. CASE RunTaglist
  BY <1>3 DEF RunTaglist, Run, TagLists
<1>4. CASE RunSegments
  BY <1>4 DEF RunSegments, Run, TagLists
<1>5. CASE RunDataReq
  BY <1>5 DEF RunDataReq, Run, TagLists
<1>6. CASE UNCHANGED vars
  BY <1>6 DEF vars, TagLists
<1> QED BY <1>1, <1>2, <1>3, <1>4, <1>5, <1>6 DEF Next

(* Whatever the tags and however many are listed: a tag is found in a list exactly when it
   is one of the list's (ipa_tag_in_taglist).                                          *)
THEOREM TagsFoundIffListed ==
  ASSUME TlvTags \subseteq TagType, MaxTags \in Nat
  PROVE  Spec => []TagFoundIffListed
<1>1. TagLists => TagFoundIffListed
  <2> SUFFICES ASSUME TagLists, done, fn = "taglist" PROVE TagFoundIffListed
    BY DEF TagFoundIffListed, Result
  <2> DEFINE tags == in.tags
             list == Encoded(tags)
             n == Len(tags)
  <2>1. in.tags \in BoundedSeq(TlvTags, MaxTags) /\ in.sought \in TlvTags /\ in.cut \in {0, 1}
    BY DEF TagLists, ListInputs
  <2>2. TlvTags \subseteq TagType
    OBVIOUS
  <2>3. tags \in Seq(TagType) /\ in.sought \in TagType
    <3>1. PICK m \in 0..MaxTags : tags \in [1..m -> TlvTags]
      BY <2>1 DEF BoundedSeq, SeqOf
    <3>2. m \in Nat
      OBVIOUS
    <3>3. \A k \in 1..m : tags[k] \in TagType
      BY <2>2, <3>1
    <3>4. tags \in [1..m -> TagType]
      BY <3>1, <3>3
    <3>5. tags \in Seq(TagType)
      BY <3>2, <3>4
    <3> QED BY <2>1, <2>2, <3>5
  <2>4. out = (TagNumber(in.sought) \in TagsFrom(SubSeq(list, 1, Len(list) - in.cut)))
    BY Zenon DEF TagLists, ipa_tag_in_taglist
  <2>5. n \in Nat /\ DOMAIN tags = 1..n /\ \A k \in 1..n : tags[k] \in TagType
    BY <2>3
  <2> HIDE DEF tags, n, list
  <2>6. \A k \in 1..n : TagNumber(tags[k]) = TagNumber(in.sought) <=> tags[k] = in.sought
    BY <2>3, <2>5, TagsDiffer
  <2>7. CASE in.cut = 0
    <3>1. list \in Seq(Nat)
      <4>1. <<>> \in Seq(Nat)
        OBVIOUS
      <4> QED BY <2>3, <4>1, ListScanned DEF list
    <3>2. SubSeq(list, 1, Len(list) - in.cut) = list
      <4>1. Len(list) - in.cut = Len(list)
        BY <2>7, <3>1
      <4> QED BY <3>1, <4>1, CutAll
    <3>3. TagsFrom(list) = {TagNumber(tags[k]) : k \in 1..n}
      BY <2>3, WholeList DEF list, n
    <3>4. out <=> \E k \in 1..n : TagNumber(tags[k]) = TagNumber(in.sought)
      BY Zenon, <2>4, <3>2, <3>3
    <3>5. out <=> \E k \in 1..n : tags[k] = in.sought
      BY Zenon, <2>6, <3>4
    <3> QED BY Zenon, <2>5, <2>7, <3>5 DEF TagFoundIffListed, tags, n
  <2>8. CASE in.cut = 1
    <3>1. TagsFrom(SubSeq(list, 1, Len(list) - 1)) = {TagNumber(tags[k]) : k \in 1..(n - 1)}
      BY <2>3, ShortList DEF list, n
    <3>2. out <=> \E k \in 1..(n - 1) : TagNumber(tags[k]) = TagNumber(in.sought)
      BY Zenon, <2>4, <2>8, <3>1
    <3>3. (\E k \in 1..(n - 1) : TagNumber(tags[k]) = TagNumber(in.sought))
          <=> (\E k \in 1..n : tags[k] = in.sought /\ k # n)
      <4>1. \A k : k \in 1..(n - 1) <=> k \in 1..n /\ k # n
        BY <2>5
      <4> QED BY Zenon, <2>6, <4>1
    <3>4. in.cut # 0
      BY <2>8
    <3> QED BY Zenon, <2>5, <3>2, <3>3, <3>4 DEF TagFoundIffListed, tags, n
  <2> QED BY <2>1, <2>7, <2>8
<1> QED BY <1>1, InitTagLists, NextTagLists, PTL DEF Spec

-----------------------------------------------------------------------------
(* The segments put together *)

LEMMA CatGrouped ==
  ASSUME NEW S, NEW s \in Seq(S), NEW t \in Seq(S), NEW u \in Seq(S)
  PROVE  (s \o t) \o u = s \o (t \o u)
OBVIOUS

LEMMA CatHead ==
  ASSUME NEW S, NEW s \in Seq(S), NEW t \in Seq(S), NEW i \in 1..Len(s)
  PROVE  (s \o t)[i] = s[i]
OBVIOUS

LEMMA CatTail ==
  ASSUME NEW S, NEW s \in Seq(S), NEW t \in Seq(S), NEW i \in 1..Len(t)
  PROVE  (s \o t)[Len(s) + i] = t[i]
OBVIOUS

LEMMA SegmentsEqual ==
  ASSUME NEW S, NEW s \in Seq(S), NEW t \in Seq(S), Len(s) = Len(t),
         \A i \in 1..Len(s) : s[i] = t[i]
  PROVE  s = t
OBVIOUS

LEMMA FlattenOne == ASSUME NEW S, NEW x \in Seq(S) PROVE FlattenSeq(<<x>>) = x
<1> DEFINE s == <<x>>
           r == [i \in 1..(Len(s) - 1) |-> s[i]]
<1>1. s \in Seq(Seq(S)) /\ Len(s) = 1 /\ s[1] = x
  OBVIOUS
<1>2. Len(s) > 0 /\ s[Len(s)] = x
  OBVIOUS
<1>3. FlattenSeq(s) = FlattenSeq(r) \o s[Len(s)]
  <2> HIDE DEF s
  <2> QED BY <1>1, <1>2, FlattenStep
<1>4. r = <<>>
  <2> HIDE DEF s
  <2> QED BY <1>1
<1>5. <<>> \o x = x
  OBVIOUS
<1> HIDE DEF r
<1> QED BY <1>2, <1>3, <1>4, <1>5, FlattenNone

LEMMA FlattenCat ==
  ASSUME NEW S, NEW s \in Seq(Seq(S)), NEW t \in Seq(Seq(S))
  PROVE  FlattenSeq(s \o t) = FlattenSeq(s) \o FlattenSeq(t)
<1> DEFINE T == {n \in Nat : \A u \in Seq(Seq(S)) : Len(u) = n =>
                                FlattenSeq(s \o u) = FlattenSeq(s) \o FlattenSeq(u)}
<1>1. 0 \in T
  <2> SUFFICES ASSUME NEW u \in Seq(Seq(S)), Len(u) = 0
               PROVE  FlattenSeq(s \o u) = FlattenSeq(s) \o FlattenSeq(u)
    OBVIOUS
  <2>1. u = <<>>
    OBVIOUS
  <2>2. s \o <<>> = s
    OBVIOUS
  <2>3. FlattenSeq(s) \o <<>> = FlattenSeq(s)
    <3>1. FlattenSeq(s) \in Seq(S)
      BY FlattenType
    <3> QED BY <3>1
  <2> QED BY Zenon, <2>1, <2>2, <2>3, FlattenNone
<1>2. ASSUME NEW n \in Nat, n \in T PROVE n + 1 \in T
  <2> SUFFICES ASSUME NEW u \in Seq(Seq(S)), Len(u) = n + 1
               PROVE  FlattenSeq(s \o u) = FlattenSeq(s) \o FlattenSeq(u)
    OBVIOUS
  <2> DEFINE r == [i \in 1..(Len(u) - 1) |-> u[i]]
             last == u[Len(u)]
             z == s \o u
             y == s \o r
             q == [i \in 1..(Len(z) - 1) |-> z[i]]
  <2>1. r \in Seq(Seq(S)) /\ Len(r) = n /\ \A i \in 1..n : r[i] = u[i]
    OBVIOUS
  <2>2. last \in Seq(S) /\ Len(u) > 0 /\ Len(u) = n + 1
    OBVIOUS
  <2>3. FlattenSeq(u) = FlattenSeq(r) \o last
    BY <2>2, FlattenStep
  <2>4. z \in Seq(Seq(S)) /\ Len(z) = Len(s) + n + 1
    <3>1. z \in Seq(Seq(S)) /\ Len(z) = Len(s) + Len(u)
      BY CatSegments
    <3>2. Len(u) = n + 1 /\ Len(s) \in Nat
      OBVIOUS
    <3> HIDE DEF z
    <3> QED BY <3>1, <3>2
  <2>5. (\A i \in 1..Len(s) : z[i] = s[i]) /\ (\A i \in 1..Len(u) : z[Len(s) + i] = u[i])
    OBVIOUS
  <2> HIDE DEF r, z
  <2>6. y \in Seq(Seq(S)) /\ Len(y) = Len(s) + n
    BY <2>1, CatSegments
  <2>7. (\A i \in 1..Len(s) : y[i] = s[i]) /\ (\A i \in 1..Len(r) : y[Len(s) + i] = r[i])
    BY <2>1
  <2>8. Len(s) \in Nat
    OBVIOUS
  <2> HIDE DEF y
  <2>9. Len(z) > 0 /\ z[Len(z)] = last
    <3>1. n + 1 \in 1..Len(u) /\ Len(s) + (n + 1) = Len(z)
      BY <2>2, <2>4, <2>8
    <3> QED BY <2>2, <2>4, <2>5, <2>8, <3>1
  <2>10. FlattenSeq(z) = FlattenSeq(q) \o z[Len(z)]
    BY <2>4, <2>9, FlattenStep
  <2>11. q = y
    <3>1. ASSUME NEW i \in 1..(Len(s) + n) PROVE z[i] = y[i]
      <4>1. CASE i <= Len(s)
        <5>1. i \in 1..Len(s)
          BY <2>8, <4>1
        <5> QED BY <2>5, <2>7, <5>1
      <4>2. CASE i > Len(s)
        <5> DEFINE j == i - Len(s)
        <5>1. j \in 1..n /\ j \in 1..Len(u) /\ j \in 1..Len(r) /\ Len(s) + j = i
          BY <2>1, <2>2, <2>8, <4>2
        <5> HIDE DEF j
        <5>2. z[i] = u[j] /\ y[i] = r[j] /\ r[j] = u[j]
          BY <2>1, <2>5, <2>7, <5>1
        <5> QED BY <5>2
      <4> QED BY <2>8, <4>1, <4>2
    <3>2. q = [i \in 1..(Len(s) + n) |-> z[i]]
      BY <2>4, <2>8
    <3>3. y = [i \in 1..(Len(s) + n) |-> y[i]]
      BY <2>6
    <3> HIDE DEF q
    <3>4. [i \in 1..(Len(s) + n) |-> z[i]] = [i \in 1..(Len(s) + n) |-> y[i]]
      BY <3>1
    <3> QED BY <3>2, <3>3, <3>4
  <2>12. FlattenSeq(y) = FlattenSeq(s) \o FlattenSeq(r)
    BY <1>2, <2>1 DEF y
  <2> HIDE DEF last, q
  <2>13. (FlattenSeq(s) \o FlattenSeq(r)) \o last = FlattenSeq(s) \o (FlattenSeq(r) \o last)
    <3> DEFINE a == FlattenSeq(s)
               b == FlattenSeq(r)
    <3>1. a \in Seq(S) /\ b \in Seq(S) /\ last \in Seq(S)
      BY <2>1, <2>2, FlattenType
    <3> HIDE DEF a, b, last
    <3>2. (a \o b) \o last = a \o (b \o last)
      BY <3>1
    <3> QED BY <3>2 DEF a, b
  <2> QED BY Zenon, <2>3, <2>9, <2>10, <2>11, <2>12, <2>13 DEF z
<1> HIDE DEF T
<1>3. Nat \subseteq T
  BY <1>1, <1>2, Induction
<1>4. Len(t) \in T
  BY <1>3
<1> QED BY <1>4 DEF T

(* One-piece segments put together. *)
LEMMA FlattenAlone ==
  ASSUME NEW S, NEW x, NEW n \in Nat, \A k \in 1..n : <<x, k>> \in S,
         NEW alone, alone = [k \in 1..n |-> <<<<x, k>>>>],
         NEW pieces, pieces = [k \in 1..n |-> <<x, k>>]
  PROVE  FlattenSeq(alone) = pieces
<1> DEFINE Alone(m) == [k \in 1..m |-> <<<<x, k>>>>]
           T == {m \in Nat : m <= n => FlattenSeq(Alone(m)) = [k \in 1..m |-> <<x, k>>]}
<1>1. 0 \in T
  <2>1. Alone(0) = <<>> /\ [k \in 1..0 |-> <<x, k>>] = <<>>
    OBVIOUS
  <2> HIDE DEF Alone
  <2> QED BY <2>1, FlattenNone
<1>2. ASSUME NEW m \in Nat, m \in T PROVE m + 1 \in T
  <2> SUFFICES ASSUME m + 1 <= n
               PROVE  FlattenSeq(Alone(m + 1)) = [k \in 1..(m + 1) |-> <<x, k>>]
    OBVIOUS
  <2> DEFINE a == Alone(m + 1)
             p == [k \in 1..m |-> <<x, k>>]
             e == <<<<x, m + 1>>>>
             whole == [k \in 1..(m + 1) |-> <<x, k>>]
  <2>1. \A k \in 1..(m + 1) : <<x, k>> \in S
    OBVIOUS
  <2>2. \A k \in 1..(m + 1) : <<<<x, k>>>> \in Seq(S)
    BY <2>1
  <2>3. a \in Seq(Seq(S)) /\ Len(a) = m + 1 /\ a[m + 1] = e
    BY <2>2
  <2>4. [k \in 1..(Len(a) - 1) |-> a[k]] = Alone(m)
    <3>1. Len(a) - 1 = m
      OBVIOUS
    <3>2. \A k \in 1..m : a[k] = <<<<x, k>>>>
      OBVIOUS
    <3> HIDE DEF a
    <3> QED BY <3>1, <3>2
  <2> HIDE DEF a
  <2>5. FlattenSeq(a) = FlattenSeq(Alone(m)) \o a[Len(a)]
    <3>1. Len(a) > 0
      BY <2>3
    <3> HIDE DEF Alone
    <3> QED BY <2>3, <2>4, <3>1, FlattenStep
  <2>6. FlattenSeq(Alone(m)) = p
    BY <1>2
  <2>7. p \o e = whole
    <3>1. p \in Seq(S) /\ Len(p) = m /\ \A k \in 1..m : p[k] = <<x, k>>
      BY <2>1
    <3>2. e \in Seq(S) /\ Len(e) = 1 /\ e[1] = <<x, m + 1>>
      BY <2>1
    <3>3. /\ whole \in Seq(S) /\ Len(whole) = m + 1
          /\ \A k \in 1..(m + 1) : whole[k] = <<x, k>>
      BY <2>1
    <3> DEFINE z == p \o e
    <3> HIDE DEF p, e, whole
    <3>4. z \in Seq(S) /\ Len(z) = m + 1
      <4>1. z \in Seq(S) /\ Len(z) = Len(p) + Len(e)
        BY <3>1, <3>2, CatSegments
      <4> HIDE DEF z
      <4> QED BY <3>1, <3>2, <4>1
    <3>5. (\A k \in 1..Len(p) : z[k] = p[k]) /\ z[Len(p) + 1] = e[1]
      <4>1. \A k \in 1..Len(p) : z[k] = p[k]
        BY Zenon, <3>1, <3>2, CatHead DEF z
      <4>2. 1 \in 1..Len(e)
        BY <3>2
      <4>3. z[Len(p) + 1] = e[1]
        <5>1. p \in Seq(S) /\ e \in Seq(S)
          BY <3>1, <3>2
        <5>2. (p \o e)[Len(p) + 1] = e[1]
          BY <4>2, <5>1, CatTail
        <5> QED BY <5>2 DEF z
      <4> QED BY <4>1, <4>3
    <3> HIDE DEF z
    <3>6. \A k \in 1..(m + 1) : z[k] = whole[k]
      <4> SUFFICES ASSUME NEW k \in 1..(m + 1) PROVE z[k] = whole[k]
        OBVIOUS
      <4>1. CASE k = m + 1
        BY <3>1, <3>2, <3>3, <3>5, <4>1
      <4>2. CASE k # m + 1
        <5>1. k \in 1..m
          BY <4>2
        <5> QED BY <3>1, <3>3, <3>5, <5>1
      <4> QED BY <4>1, <4>2
    <3>7. z = whole
      BY <3>3, <3>4, <3>6, SegmentsEqual
    <3> QED BY <3>7 DEF z
  <2> QED BY Zenon, <2>3, <2>5, <2>6, <2>7 DEF a
<1> HIDE DEF T
<1>3. Nat \subseteq T
  BY <1>1, <1>2, Induction
<1>4. n \in T /\ n <= n
  BY <1>3
<1>5. FlattenSeq(Alone(n)) = [k \in 1..n |-> <<x, k>>]
  BY <1>4 DEF T
<1> QED BY <1>5 DEF Alone

Piece == {"bpp", "iscr", "first", "seq88", "second", "seq86"} \X Nat

(* The package as it is encoded, piece by piece. *)
WholeOf(bpp) ==
  <<<<"bpp", 0>>, <<"iscr", 1>>>> \o Level("first", bpp.first) \o Level("seq88", bpp.seq88)
  \o (IF bpp.hasSecond THEN Level("second", bpp.second) ELSE <<>>) \o Level("seq86", bpp.seq86)

LEMMA BothSegments ==
  ASSUME NEW S, NEW x \in S, NEW y \in S PROVE <<x, y>> = <<x>> \o <<y>>
<1> DEFINE s == <<x, y>>
           one == <<x>>
           two == <<y>>
           t == one \o two
<1>1. s \in Seq(S) /\ Len(s) = 2 /\ s[1] = x /\ s[2] = y
  OBVIOUS
<1>2. one \in Seq(S) /\ Len(one) = 1 /\ one[1] = x /\ two \in Seq(S) /\ Len(two) = 1 /\ two[1] = y
  OBVIOUS
<1> HIDE DEF s, one, two
<1>3. t \in Seq(S) /\ Len(t) = Len(one) + Len(two)
  BY <1>2, CatSegments
<1>4. 1 \in 1..Len(one) /\ 1 \in 1..Len(two)
  BY <1>2
<1>5. (one \o two)[1] = one[1] /\ (one \o two)[Len(one) + 1] = two[1]
  <2>1. one \in Seq(S) /\ two \in Seq(S)
    BY <1>2
  <2>2. (one \o two)[1] = one[1]
    BY <1>4, <2>1, CatHead
  <2>3. (one \o two)[Len(one) + 1] = two[1]
    BY <1>4, <2>1, CatTail
  <2> QED BY <2>2, <2>3
<1>6. t[1] = one[1] /\ t[Len(one) + 1] = two[1]
  BY <1>5
<1> HIDE DEF t
<1>7. Len(s) = Len(t) /\ \A i \in 1..Len(s) : s[i] = t[i]
  BY <1>1, <1>2, <1>3, <1>6
<1>8. s = t
  BY <1>1, <1>3, <1>7, SegmentsEqual
<1> QED BY <1>8 DEF s, t, one, two

LEMMA PinchedWhole ==
  ASSUME NEW tag \in TagType, NEW len \in LengthType, len # 127, NEW name
  PROVE  Pinched(tag, len, name) = <<name>>
<1>1. parse_btlv_hdr(Header(tag, len)).skip = Len(Header(tag, len))
  <2>1. parse_btlv_hdr(Header(tag, len)) =
          [skip |-> Len(Header(tag, len)), tag |-> TagNumber(tag), len |-> len % 2^LengthBits]
    BY Zenon, HeaderRead
  <2> DEFINE size == Len(Header(tag, len))
             number == TagNumber(tag)
             rest == len % 2^LengthBits
             hdr == parse_btlv_hdr(Header(tag, len))
  <2>2. hdr = [skip |-> size, tag |-> number, len |-> rest]
    BY <2>1
  <2> HIDE DEF size, number, rest, hdr
  <2>3. hdr.skip = size
    BY <2>2
  <2> QED BY <2>3 DEF hdr, size
<1> QED BY Zenon, <1>1 DEF Pinched

(* A sequence that is cut at its header and at every TLV of it. *)
LEMMA CutPutTogether ==
  ASSUME NEW n \in 0..3, NEW name \in {"seq88", "seq86"}, NEW seq \in Seq(Nat),
         Content(seq) \in LengthType, Content(seq) # 127
  PROVE  /\ Cut(n, name, seq) \in Seq(Seq(Piece))
         /\ FlattenSeq(Cut(n, name, seq)) = Level(name, seq)
<1> DEFINE h == <<<<name, 0>>>>
           each == [k \in 1..Len(seq) |-> <<<<name, k>>>>]
           pieces == [k \in 1..Len(seq) |-> <<name, k>>]
<1>1. Len(seq) \in Nat /\ \A k \in Nat : <<name, k>> \in Piece
  BY DEF Piece
<1>2. ContextTag(n) \in TagType
  BY DEF ContextTag, TagType
<1>3. Cut(n, name, seq) = <<h>> \o each
  <2>1. PinchedOf(n, seq, <<name, 0>>) = h
    BY Zenon, <1>2, PinchedWhole DEF PinchedOf
  <2> QED BY Zenon, <2>1 DEF Cut, EachAlone
<1>4. Level(name, seq) = h \o pieces
  BY DEF Level, Pieces
<1>5. h \in Seq(Piece)
  BY <1>1
<1>6. each \in Seq(Seq(Piece))
  <2>1. \A k \in 1..Len(seq) : <<<<name, k>>>> \in Seq(Piece)
    <3> SUFFICES ASSUME NEW k \in 1..Len(seq) PROVE <<<<name, k>>>> \in Seq(Piece)
      OBVIOUS
    <3>1. <<name, k>> \in Piece
      BY <1>1
    <3> QED BY Zenon, <3>1, OneSegment
  <2> DEFINE m == Len(seq)
  <2>2. m \in Nat
    BY <1>1
  <2> HIDE DEF m
  <2> QED BY <2>1, <2>2 DEF m
<1>7. FlattenSeq(each) = pieces
  <2>1. \A k \in 1..Len(seq) : <<name, k>> \in Piece
    BY <1>1
  <2> DEFINE m == Len(seq)
  <2>2. m \in Nat /\ \A k \in 1..m : <<name, k>> \in Piece
    BY <1>1, <2>1
  <2>3. each = [k \in 1..m |-> <<<<name, k>>>>] /\ pieces = [k \in 1..m |-> <<name, k>>]
    OBVIOUS
  <2> HIDE DEF m, each, pieces
  <2> QED BY Zenon, <2>2, <2>3, FlattenAlone
<1> HIDE DEF h, each, pieces
<1>8. <<h>> \in Seq(Seq(Piece)) /\ FlattenSeq(<<h>>) = h
  BY <1>5, FlattenOne, OneSegment
<1>9. <<h>> \o each \in Seq(Seq(Piece))
  BY Zenon, <1>6, <1>8, CatSegments
<1>10. FlattenSeq(<<h>> \o each) = FlattenSeq(<<h>>) \o FlattenSeq(each)
  BY Zenon, <1>6, <1>8, FlattenCat
<1> QED BY Zenon, <1>3, <1>4, <1>7, <1>8, <1>9, <1>10

(* A sequence of a single TLV, which stays with its header. *)
LEMMA With87Together ==
  ASSUME NEW n \in 0..3, NEW name \in {"first", "second"}, NEW seq \in Seq(Nat), Len(seq) = 1,
         Content(seq) \in LengthType, Content(seq) # 127
  PROVE  /\ With87(n, name, seq) \in Seq(Seq(Piece))
         /\ FlattenSeq(With87(n, name, seq)) = Level(name, seq)
<1> DEFINE x == <<<<name, 0>>>> \o <<<<name, 1>>>>
<1>1. ContextTag(n) \in TagType
  BY DEF ContextTag, TagType
<1>2. With87(n, name, seq) = <<x>>
  <2>1. PinchedOf(n, seq, <<name, 0>>) = <<<<name, 0>>>>
    BY Zenon, <1>1, PinchedWhole DEF PinchedOf
  <2> QED BY Zenon, <2>1 DEF With87
<1>3. Level(name, seq) = x
  <2>1. [k \in 1..1 |-> <<name, k>>] = <<<<name, 1>>>>
    OBVIOUS
  <2> QED BY Zenon, <2>1 DEF Level, Pieces
<1>4. x \in Seq(Piece)
  <2>1. <<name, 0>> \in Piece /\ <<name, 1>> \in Piece
    BY DEF Piece
  <2> QED BY <2>1
<1> HIDE DEF x
<1>5. <<x>> \in Seq(Seq(Piece)) /\ FlattenSeq(<<x>>) = x
  BY <1>4, FlattenOne, OneSegment
<1> QED BY Zenon, <1>2, <1>3, <1>5

LEMMA PutTogether ==
  ASSUME NEW bpp, bpp.hasSecond \in BOOLEAN,
         bpp.first \in Seq(Nat), Len(bpp.first) = 1, bpp.seq88 \in Seq(Nat), bpp.seq86 \in Seq(Nat),
         bpp.hasSecond => bpp.second \in Seq(Nat) /\ Len(bpp.second) = 1 /\ Content(bpp.second) # 127,
         {BppContent(bpp), Content(bpp.first), Content(bpp.seq88), Content(bpp.seq86)}
           \subseteq LengthType \ {127},
         bpp.hasSecond => Content(bpp.second) \in LengthType
  PROVE  FlattenSeq(ipa_bpp_segments_encode(bpp)) = WholeOf(bpp)
<1> DEFINE x == <<<<"bpp", 0>>>> \o <<<<"iscr", 1>>>>
           first == With87(0, "first", bpp.first)
           c88 == Cut(1, "seq88", bpp.seq88)
           sec == Second(bpp)
           c86 == Cut(3, "seq86", bpp.seq86)
           lfirst == Level("first", bpp.first)
           l88 == Level("seq88", bpp.seq88)
           lsec == IF bpp.hasSecond THEN Level("second", bpp.second) ELSE <<>>
           l86 == Level("seq86", bpp.seq86)
<1>1. ipa_bpp_segments_encode(bpp) = <<x>> \o first \o c88 \o sec \o c86
  <2>1. BppTag \in TagType
    BY DEF BppTag, ContextTag, TagType
  <2>2. BppContent(bpp) \in LengthType /\ BppContent(bpp) # 127
    BY Zenon
  <2>3. Pinched(BppTag, BppContent(bpp), <<"bpp", 0>>) = <<<<"bpp", 0>>>>
    BY Zenon, <2>1, <2>2, PinchedWhole
  <2>4. bpp.first # <<>> /\ (bpp.hasSecond => bpp.second # <<>>)
    <3>1. Len(<<>>) # 1
      OBVIOUS
    <3> QED BY Zenon, <3>1
  <2> QED BY Zenon, <2>3, <2>4 DEF ipa_bpp_segments_encode
<1>2. WholeOf(bpp) = x \o lfirst \o l88 \o lsec \o l86
  <2>1. <<<<"bpp", 0>>, <<"iscr", 1>>>> = x
    <3>1. <<"bpp", 0>> \in Piece /\ <<"iscr", 1>> \in Piece
      BY DEF Piece
    <3> QED BY <3>1, BothSegments
  <2> QED BY Zenon, <2>1 DEF WholeOf
<1>3. <<x>> \in Seq(Seq(Piece)) /\ FlattenSeq(<<x>>) = x
  <2>1. x \in Seq(Piece)
    <3>1. <<"bpp", 0>> \in Piece /\ <<"iscr", 1>> \in Piece
      BY DEF Piece
    <3> QED BY <3>1
  <2> HIDE DEF x
  <2> QED BY <2>1, FlattenOne, OneSegment
<1>4. first \in Seq(Seq(Piece)) /\ FlattenSeq(first) = lfirst
  <2>1. Content(bpp.first) \in LengthType /\ Content(bpp.first) # 127
    BY Zenon
  <2> QED BY <2>1, With87Together
<1>5. c88 \in Seq(Seq(Piece)) /\ FlattenSeq(c88) = l88
  <2>1. Content(bpp.seq88) \in LengthType /\ Content(bpp.seq88) # 127
    BY Zenon
  <2> QED BY SMTT(30), <2>1, CutPutTogether
<1>6. c86 \in Seq(Seq(Piece)) /\ FlattenSeq(c86) = l86
  <2>1. Content(bpp.seq86) \in LengthType /\ Content(bpp.seq86) # 127
    BY Zenon
  <2> QED BY SMTT(30), <2>1, CutPutTogether
<1>7. sec \in Seq(Seq(Piece)) /\ FlattenSeq(sec) = lsec
  <2>1. CASE bpp.hasSecond
    <3>1. sec = With87(2, "second", bpp.second)
      BY <2>1 DEF Second
    <3>2. With87(2, "second", bpp.second) \in Seq(Seq(Piece))
          /\ FlattenSeq(With87(2, "second", bpp.second)) = Level("second", bpp.second)
      BY <2>1, With87Together
    <3> QED BY Zenon, <2>1, <3>1, <3>2
  <2>2. CASE ~bpp.hasSecond
    <3>1. sec = <<>> /\ lsec = <<>>
      BY <2>2 DEF Second
    <3>2. <<>> \in Seq(Seq(Piece))
      OBVIOUS
    <3> QED BY Zenon, <3>1, <3>2, FlattenNone
  <2> QED BY <2>1, <2>2
<1> HIDE DEF x, first, c88, sec, c86, lfirst, l88, lsec, l86
<1>8. <<x>> \o first \in Seq(Seq(Piece)) /\ FlattenSeq(<<x>> \o first) = x \o lfirst
  <2>1. <<x>> \o first \in Seq(Seq(Piece))
    BY Zenon, <1>3, <1>4, CatSegments
  <2>2. FlattenSeq(<<x>> \o first) = FlattenSeq(<<x>>) \o FlattenSeq(first)
    BY Zenon, <1>3, <1>4, FlattenCat
  <2> QED BY Zenon, <1>3, <1>4, <2>1, <2>2
<1>9. /\ <<x>> \o first \o c88 \in Seq(Seq(Piece))
      /\ FlattenSeq(<<x>> \o first \o c88) = x \o lfirst \o l88
  <2>1. <<x>> \o first \o c88 \in Seq(Seq(Piece))
    BY Zenon, <1>5, <1>8, CatSegments
  <2>2. FlattenSeq(<<x>> \o first \o c88) = FlattenSeq(<<x>> \o first) \o FlattenSeq(c88)
    BY Zenon, <1>5, <1>8, FlattenCat
  <2> QED BY Zenon, <1>5, <1>8, <2>1, <2>2
<1>10. /\ <<x>> \o first \o c88 \o sec \in Seq(Seq(Piece))
       /\ FlattenSeq(<<x>> \o first \o c88 \o sec) = x \o lfirst \o l88 \o lsec
  <2>1. <<x>> \o first \o c88 \o sec \in Seq(Seq(Piece))
    BY Zenon, <1>7, <1>9, CatSegments
  <2>2. FlattenSeq(<<x>> \o first \o c88 \o sec) = FlattenSeq(<<x>> \o first \o c88) \o FlattenSeq(sec)
    BY Zenon, <1>7, <1>9, FlattenCat
  <2> QED BY Zenon, <1>7, <1>9, <2>1, <2>2
<1>11. FlattenSeq(<<x>> \o first \o c88 \o sec \o c86)
         = FlattenSeq(<<x>> \o first \o c88 \o sec) \o FlattenSeq(c86)
  BY Zenon, <1>6, <1>10, FlattenCat
<1> QED BY Zenon, <1>1, <1>2, <1>6, <1>10, <1>11

-----------------------------------------------------------------------------

SegmentLists ==
  fn = "segments" =>
    /\ in \in BppInputs
    /\ done => out = [segment |-> ipa_bpp_segments_encode(in), slots |-> segment_count(in)]

LEMMA InitSegmentLists == Init => SegmentLists
BY DEF Init, Choose, SegmentLists

LEMMA NextSegmentLists == SegmentLists /\ [Next]_vars => SegmentLists'
<1> SUFFICES ASSUME SegmentLists, [Next]_vars PROVE SegmentLists'
  OBVIOUS
<1>1. CASE RunActivationCode
  BY <1>1 DEF RunActivationCode, Run, SegmentLists
<1>2. CASE RunTlv
  BY <1>2 DEF RunTlv, Run, SegmentLists
<1>3. CASE RunTaglist
  BY <1>3 DEF RunTaglist, Run, SegmentLists
<1>4. CASE RunSegments
  BY <1>4 DEF RunSegments, Run, SegmentLists
<1>5. CASE RunDataReq
  BY <1>5 DEF RunDataReq, Run, SegmentLists
<1>6. CASE UNCHANGED vars
  BY <1>6 DEF vars, SegmentLists
<1> QED BY <1>1, <1>2, <1>3, <1>4, <1>5, <1>6 DEF Next

(* The lengths in a package have 32 bits, as they have to the encoder. *)
PackagesEncodable ==
  \A bpp \in BppInputs :
    {BppContent(bpp), Content(bpp.first), Content(bpp.seq88), Content(bpp.second), Content(bpp.seq86)}
      \subseteq LengthType

LEMMA BoundedIsSeq ==
  ASSUME NEW S, NEW n \in Nat, NEW s \in BoundedSeq(S, n) PROVE s \in Seq(S) /\ Len(s) <= n
<1>1. PICK m \in 0..n : s \in [1..m -> S]
  BY DEF BoundedSeq, SeqOf
<1>2. m \in Nat /\ m <= n
  OBVIOUS
<1> QED BY <1>1, <1>2

LEMMA SeqWider == ASSUME NEW S, NEW T, S \subseteq T, NEW s \in Seq(S) PROVE s \in Seq(T)
<1>1. Len(s) \in Nat /\ s \in [1..Len(s) -> S]
  OBVIOUS
<1>2. s \in [1..Len(s) -> T]
  BY <1>1
<1> QED BY <1>1, <1>2

LEMMA SingleSeq ==
  ASSUME NEW S, NEW s \in Seq(S), Len(s) <= 1, s # <<>> PROVE Len(s) = 1
<1>1. Len(s) \in Nat
  OBVIOUS
<1>2. ASSUME Len(s) = 0 PROVE FALSE
  <2>1. s = <<>>
    BY <1>2
  <2> QED BY <2>1
<1> QED BY <1>1, <1>2

(* Whatever the number and sizes of the TLVs of a package: its segments put together are
   the package (ipa_bpp_segments_encode), unless a sequence that is cut has 127 bytes.   *)
THEOREM SegmentsPutTogether ==
  ASSUME TlvSizes \subseteq Nat, MaxTlvs \in Nat, PackagesEncodable
  PROVE  Spec => []SegmentsAreThePackage
<1>1. SegmentLists => SegmentsAreThePackage
  <2> SUFFICES ASSUME SegmentLists, done, fn = "segments", ~HasContent127 PROVE SegmentsRight
    BY DEF SegmentsAreThePackage, Result
  <2>1. in \in BppInputs /\ out = [segment |-> ipa_bpp_segments_encode(in), slots |-> segment_count(in)]
    BY DEF SegmentLists
  <2> DEFINE segs == ipa_bpp_segments_encode(in)
             slots == segment_count(in)
  <2>2. out.segment = segs /\ out.slots = slots
    <3>1. out = [segment |-> segs, slots |-> slots]
      BY <2>1
    <3> HIDE DEF segs, slots
    <3> QED BY <3>1
  <2>3. /\ in.first \in BoundedSeq(TlvSizes, 1) /\ in.seq88 \in BoundedSeq(TlvSizes, MaxTlvs)
        /\ in.second \in BoundedSeq(TlvSizes, 1) /\ in.seq86 \in BoundedSeq(TlvSizes, MaxTlvs)
        /\ in.hasSecond \in BOOLEAN
    BY <2>1 DEF BppInputs
  <2>4. /\ in.first \in Seq(TlvSizes) /\ Len(in.first) <= 1
        /\ in.second \in Seq(TlvSizes) /\ Len(in.second) <= 1
        /\ in.seq88 \in Seq(TlvSizes) /\ in.seq86 \in Seq(TlvSizes)
    BY <2>3, BoundedIsSeq
  <2>5. in.first \in Seq(Nat) /\ in.second \in Seq(Nat) /\ in.seq88 \in Seq(Nat) /\ in.seq86 \in Seq(Nat)
    BY Zenon, <2>4, SeqWider
  <2>6. CASE in.first = <<>> \/ (in.hasSecond /\ in.second = <<>>)
    BY Zenon, <2>2, <2>6 DEF SegmentsRight, ipa_bpp_segments_encode
  <2>7. CASE ~(in.first = <<>> \/ (in.hasSecond /\ in.second = <<>>))
    <3>1. Len(in.first) = 1 /\ (in.hasSecond => Len(in.second) = 1)
      <4>1. in.first # <<>> /\ (in.hasSecond => in.second # <<>>)
        BY Zenon, <2>7
      <4> QED BY Zenon, <2>4, <4>1, SingleSeq
    <3>2. {BppContent(in), Content(in.first), Content(in.seq88), Content(in.second), Content(in.seq86)}
            \subseteq LengthType
      BY Zenon, <2>1 DEF PackagesEncodable
    <3>3. /\ BppContent(in) # 127 /\ Content(in.first) # 127 /\ Content(in.seq88) # 127
          /\ Content(in.seq86) # 127 /\ (in.hasSecond => Content(in.second) # 127)
      BY Zenon DEF HasContent127
    <3>4. FlattenSeq(segs) = WholeOf(in)
      <4>1. {BppContent(in), Content(in.first), Content(in.seq88), Content(in.seq86)}
              \subseteq LengthType \ {127}
        BY Zenon, <3>2, <3>3
      <4>2. in.hasSecond => Content(in.second) \in LengthType
        BY Zenon, <3>2
      <4>3. in.hasSecond => in.second \in Seq(Nat) /\ Len(in.second) = 1 /\ Content(in.second) # 127
        BY Zenon, <2>5, <3>1, <3>3
      <4>4. /\ in.hasSecond \in BOOLEAN /\ in.first \in Seq(Nat) /\ Len(in.first) = 1
            /\ in.seq88 \in Seq(Nat) /\ in.seq86 \in Seq(Nat)
        BY <2>3, <2>5, <3>1
      <4> QED BY <4>1, <4>2, <4>3, <4>4, PutTogether
    <3>5. Package = WholeOf(in)
      BY Zenon DEF Package, WholeOf
    <3>6. Len(segs) <= slots
      BY <2>5, SegmentsFitSlots
    <3> HIDE DEF segs, slots
    <3> QED BY Zenon, <2>2, <2>7, <3>4, <3>5, <3>6 DEF SegmentsRight
  <2> QED BY <2>6, <2>7
<1> QED BY <1>1, InitSegmentLists, NextSegmentLists, PTL DEF Spec

-----------------------------------------------------------------------------
(* The texts of an activation code *)

SplitAt(f, ac, k) ==
  IF k > Len(ac) THEN <<<<>>>>
  ELSE IF ac[k] = Separator THEN <<<<>>>> \o f[k + 1]
  ELSE [f[k + 1] EXCEPT ![1] = <<ac[k]>> \o @]

IsSplit(f, ac) == f = [k \in 1..(Len(ac) + 1) |-> SplitAt(f, ac, k)]

LEMMA SeparatorIsText == Separator \in Char /\ <<Separator>> \in Seq(Char)
<1>1. Separator \in Char
  BY CodeAssumption
<1> QED BY <1>1, OneSegment

LEMMA SplitExists == ASSUME NEW ac \in Text PROVE \E f : IsSplit(f, ac)
<1> DEFINE l == Len(ac)
           SplitFrom(f, m) == f = [k \in m..(l + 1) |-> SplitAt(f, ac, k)]
           T == {n \in Nat : n <= l => \E f : SplitFrom(f, l + 1 - n)}
<1>1. l \in Nat
  BY DEF Text
<1> HIDE DEF l
<1>2. 0 \in T
  <2> DEFINE f == [k \in (l + 1 - 0)..(l + 1) |-> <<<<>>>>]
  <2>1. \A k \in (l + 1 - 0)..(l + 1) : SplitAt(f, ac, k) = <<<<>>>>
    <3> SUFFICES ASSUME NEW k \in (l + 1 - 0)..(l + 1) PROVE SplitAt(f, ac, k) = <<<<>>>>
      OBVIOUS
    <3>1. k > Len(ac)
      BY <1>1 DEF l
    <3> HIDE DEF f
    <3> QED BY <3>1 DEF SplitAt
  <2>2. f = [k \in (l + 1 - 0)..(l + 1) |-> SplitAt(f, ac, k)]
    BY <2>1
  <2> HIDE DEF f
  <2> QED BY <2>2
<1>3. ASSUME NEW n \in Nat, n \in T PROVE n + 1 \in T
  <2> SUFFICES ASSUME n + 1 <= l PROVE \E f : SplitFrom(f, l + 1 - (n + 1))
    OBVIOUS
  <2> DEFINE m == l + 1 - (n + 1)
  <2>1. m \in Nat /\ m >= 1 /\ m <= l /\ m + 1 = l + 1 - n
    BY <1>1
  <2>2. PICK f : SplitFrom(f, m + 1)
    <3>1. n <= l
      BY <1>1
    <3>2. \E f : SplitFrom(f, l + 1 - n)
      BY <1>3, <3>1
    <3> HIDE DEF SplitFrom, m
    <3> QED BY <2>1, <3>2
  <2> DEFINE g == [k \in m..(l + 1) |-> IF k = m THEN SplitAt(f, ac, m) ELSE f[k]]
  <2> HIDE DEF m
  <2>3. \A k \in (m + 1)..(l + 1) : f[k] = SplitAt(f, ac, k)
    BY <2>2
  <2>4. \A k \in m..(l + 1) : g[k] = IF k = m THEN SplitAt(f, ac, m) ELSE f[k]
    OBVIOUS
  <2>5. g = [k \in m..(l + 1) |-> g[k]]
    OBVIOUS
  <2> HIDE DEF g
  <2>6. ASSUME NEW k \in m..(l + 1) PROVE SplitAt(g, ac, k) = SplitAt(f, ac, k)
    <3>1. k <= Len(ac) => g[k + 1] = f[k + 1]
      BY SMTT(30), <1>1, <2>1, <2>4 DEF l
    <3>2. k > Len(ac) \/ k <= Len(ac)
      BY <1>1, <2>1 DEF l
    <3> QED BY Zenon, <3>1, <3>2 DEF SplitAt
  <2>7. ASSUME NEW k \in m..(l + 1) PROVE g[k] = SplitAt(g, ac, k)
    <3>1. CASE k = m
      BY <2>4, <2>6, <3>1
    <3>2. CASE k # m
      <4>1. k \in (m + 1)..(l + 1)
        BY <1>1, <2>1, <3>2
      <4> QED BY <2>3, <2>4, <2>6, <3>2, <4>1
    <3> QED BY <3>1, <3>2
  <2>8. g = [k \in m..(l + 1) |-> SplitAt(g, ac, k)]
    BY <2>5, <2>7
  <2> QED BY <2>8 DEF m
<1>4. Nat \subseteq T
  <2> HIDE DEF T
  <2> QED BY <1>2, <1>3, Induction
<1>5. PICK f : SplitFrom(f, l + 1 - l)
  <2>1. l \in T /\ l <= l
    <3> HIDE DEF T
    <3> QED BY <1>1, <1>4
  <2> QED BY <2>1
<1>6. l + 1 - l = 1
  BY <1>1
<1>7. f = [k \in 1..(l + 1) |-> SplitAt(f, ac, k)]
  BY <1>5, <1>6
<1> QED BY <1>7 DEF IsSplit, l

LEMMA SplitIs == ASSUME NEW ac \in Text PROVE \E f : IsSplit(f, ac) /\ Split(ac) = f[1]
<1> DEFINE from[k \in 1..(Len(ac) + 1)] ==
             IF k > Len(ac) THEN <<<<>>>>
             ELSE IF ac[k] = Separator THEN <<<<>>>> \o from[k + 1]
             ELSE [from[k + 1] EXCEPT ![1] = <<ac[k]>> \o @]
<1>1. Split(ac) = from[1]
  BY DEF Split
<1>2. from = CHOOSE f : f = [k \in 1..(Len(ac) + 1) |->
             IF k > Len(ac) THEN <<<<>>>>
             ELSE IF ac[k] = Separator THEN <<<<>>>> \o f[k + 1]
             ELSE [f[k + 1] EXCEPT ![1] = <<ac[k]>> \o @]]
  OBVIOUS
<1> HIDE DEF from
<1>3. \E f : IsSplit(f, ac)
  BY SplitExists
<1>4. IsSplit(from, ac)
  BY Zenon, <1>2, <1>3 DEF IsSplit, SplitAt
<1> QED BY Zenon, <1>1, <1>4

(* What is read from the second character on does not depend on the first. *)
LEMMA SplitShift ==
  ASSUME NEW c \in Char, NEW rest \in Text, NEW f, NEW g,
         IsSplit(f, <<c>> \o rest), IsSplit(g, rest)
  PROVE  f[2] = g[1]
<1> DEFINE r == Len(rest)
           z == <<c>> \o rest
           T == {n \in Nat : \A k \in 1..(r + 1) : r + 1 - k <= n => f[k + 1] = g[k]}
<1>1. r \in Nat /\ Len(z) = r + 1
  BY DEF Text
<1>2. \A k \in 1..r : z[k + 1] = rest[k]
  BY DEF Text
<1>3. \A k \in 1..(Len(z) + 1) : f[k] = SplitAt(f, z, k)
  BY DEF IsSplit
<1>4. \A k \in 1..(r + 1) : g[k] = SplitAt(g, rest, k)
  BY DEF IsSplit
<1>5. Len(rest) = r
  OBVIOUS
<1> HIDE DEF r, z
<1>6. 0 \in T
  <2> SUFFICES ASSUME NEW k \in 1..(r + 1), r + 1 - k <= 0 PROVE f[k + 1] = g[k]
    BY <1>1
  <2>1. k > r /\ k + 1 > Len(z) /\ k + 1 \in 1..(Len(z) + 1)
    BY <1>1
  <2>2. f[k + 1] = <<<<>>>>
    BY <1>3, <2>1 DEF SplitAt
  <2>3. g[k] = <<<<>>>>
    BY <1>4, <1>5, <2>1 DEF SplitAt
  <2> QED BY <2>2, <2>3
<1>7. ASSUME NEW n \in Nat, n \in T PROVE n + 1 \in T
  <2> SUFFICES ASSUME NEW k \in 1..(r + 1), r + 1 - k <= n + 1 PROVE f[k + 1] = g[k]
    BY <1>1
  <2>0. \A j \in 1..(r + 1) : r + 1 - j <= n => f[j + 1] = g[j]
    BY <1>7
  <2>1. CASE r + 1 - k <= n
    BY <2>0, <2>1
  <2>2. CASE ~(r + 1 - k <= n)
    <3>1. k \in 1..r /\ ~(k > r) /\ ~(k + 1 > Len(z)) /\ k + 1 \in 1..(Len(z) + 1)
      BY <1>1, <2>2
    <3>2. z[k + 1] = rest[k]
      BY <1>2, <3>1
    <3>3. f[(k + 1) + 1] = g[k + 1]
      <4>1. k + 1 \in 1..(r + 1) /\ r + 1 - (k + 1) <= n
        BY <1>1, <3>1
      <4> QED BY <2>0, <4>1
    <3>4. f[k + 1] = SplitAt(f, z, k + 1)
      BY <1>3, <3>1
    <3>5. g[k] = SplitAt(g, rest, k)
      BY <1>4, <3>1
    <3>6. SplitAt(f, z, k + 1) = SplitAt(g, rest, k)
      BY Zenon, <1>5, <3>1, <3>2, <3>3 DEF SplitAt
    <3> QED BY <3>4, <3>5, <3>6
  <2> QED BY <2>1, <2>2
<1>8. Nat \subseteq T
  <2> HIDE DEF T
  <2> QED BY <1>6, <1>7, Induction
<1>9. r \in T
  <2> HIDE DEF T
  <2> QED BY <1>1, <1>8
<1>10. 1 \in 1..(r + 1) /\ r + 1 - 1 <= r /\ 1 + 1 = 2
  BY <1>1
<1> QED BY <1>9, <1>10

LEMMA SplitNothing == Split(<<>>) = <<<<>>>>
<1> DEFINE e == <<>>
<1>1. e \in Text /\ Len(e) = 0
  BY DEF Text
<1> HIDE DEF e
<1>2. PICK f : IsSplit(f, e) /\ Split(e) = f[1]
  BY <1>1, SplitIs
<1>3. f[1] = SplitAt(f, e, 1)
  BY <1>1, <1>2 DEF IsSplit
<1>4. 1 > Len(e)
  BY <1>1
<1>5. f[1] = <<<<>>>>
  BY Zenon, <1>3, <1>4 DEF SplitAt
<1> QED BY Zenon, <1>2, <1>5 DEF e

(* A separator at the front starts another text, another character joins the first. *)
With(x, texts) == [texts EXCEPT ![1] = x \o @]

LEMMA SplitFront ==
  ASSUME NEW c \in Char, NEW rest \in Text
  PROVE  Split(<<c>> \o rest) = IF c = Separator THEN <<<<>>>> \o Split(rest)
                                ELSE With(<<c>>, Split(rest))
<1> DEFINE z == <<c>> \o rest
<1>1. z \in Text /\ Len(z) = Len(rest) + 1 /\ Len(rest) \in Nat /\ z[1] = c
  <2>1. <<c>> \in Seq(Char) /\ Len(<<c>>) = 1 /\ <<c>>[1] = c /\ 1 \in 1..Len(<<c>>)
    OBVIOUS
  <2>2. rest \in Seq(Char) /\ Len(rest) \in Nat
    BY DEF Text
  <2>3. z \in Seq(Char) /\ Len(z) = Len(<<c>>) + Len(rest)
    BY <2>1, <2>2, CatSegments
  <2>4. z[1] = <<c>>[1]
    BY <2>1, <2>2, CatHead
  <2> HIDE DEF z
  <2> QED BY <2>1, <2>2, <2>3, <2>4 DEF Text
<1>2. z = <<c>> \o rest
  OBVIOUS
<1> HIDE DEF z
<1>3. PICK f : IsSplit(f, z) /\ Split(z) = f[1]
  BY <1>1, SplitIs
<1>4. PICK g : IsSplit(g, rest) /\ Split(rest) = g[1]
  BY SplitIs
<1>5. f[2] = g[1]
  <2>1. IsSplit(f, <<c>> \o rest)
    BY Zenon, <1>2, <1>3
  <2> QED BY <1>4, <2>1, SplitShift
<1>6. f[1] = SplitAt(f, z, 1)
  <2>1. 1 \in 1..(Len(z) + 1)
    BY <1>1
  <2> QED BY <1>3, <2>1 DEF IsSplit
<1>7. ~(1 > Len(z)) /\ 1 + 1 = 2
  BY <1>1
<1>8. SplitAt(f, z, 1) = IF c = Separator THEN <<<<>>>> \o f[2] ELSE [f[2] EXCEPT ![1] = <<c>> \o @]
  BY Zenon, <1>1, <1>7 DEF SplitAt
<1> QED BY Zenon, <1>2, <1>3, <1>4, <1>5, <1>6, <1>8 DEF With

LEMMA WithIs ==
  ASSUME NEW S, NEW q \in Seq(Seq(S)), Len(q) >= 1, NEW x \in Seq(S)
  PROVE  /\ With(x, q) \in Seq(Seq(S)) /\ Len(With(x, q)) = Len(q)
         /\ With(x, q)[1] = x \o q[1]
         /\ \A k \in 2..Len(q) : With(x, q)[k] = q[k]
<1>1. q[1] \in Seq(S)
  OBVIOUS
<1>2. x \o q[1] \in Seq(S)
  BY <1>1
<1> QED BY <1>2 DEF With

LEMMA WithTwice ==
  ASSUME NEW S, NEW q \in Seq(Seq(S)), Len(q) >= 1, NEW x \in Seq(S), NEW y \in Seq(S)
  PROVE  With(x, With(y, q)) = With(x \o y, q)
<1> DEFINE a == With(y, q)
           b == With(x, a)
           c == With(x \o y, q)
<1>1. /\ a \in Seq(Seq(S)) /\ Len(a) = Len(q) /\ a[1] = y \o q[1]
      /\ \A k \in 2..Len(q) : a[k] = q[k]
  BY WithIs
<1>2. x \o y \in Seq(S)
  OBVIOUS
<1>3. /\ c \in Seq(Seq(S)) /\ Len(c) = Len(q) /\ c[1] = (x \o y) \o q[1]
      /\ \A k \in 2..Len(q) : c[k] = q[k]
  BY <1>2, WithIs
<1> HIDE DEF a, c
<1>4. /\ b \in Seq(Seq(S)) /\ Len(b) = Len(a) /\ b[1] = x \o a[1]
      /\ \A k \in 2..Len(a) : b[k] = a[k]
  <2>1. a \in Seq(Seq(S)) /\ Len(a) >= 1 /\ x \in Seq(S)
    BY <1>1
  <2> QED BY Zenon, <2>1, WithIs
<1> HIDE DEF b
<1>5. (x \o y) \o q[1] = x \o (y \o q[1])
  <2> DEFINE p == q[1]
  <2>1. p \in Seq(S) /\ x \in Seq(S) /\ y \in Seq(S)
    OBVIOUS
  <2> HIDE DEF p
  <2>2. (x \o y) \o p = x \o (y \o p)
    BY SMTT(30), <2>1, CatGrouped
  <2> QED BY <2>2 DEF p
<1>6. b[1] = c[1]
  BY Zenon, <1>1, <1>3, <1>4, <1>5
<1>7. \A k \in 1..Len(b) : b[k] = c[k]
  <2> SUFFICES ASSUME NEW k \in 1..Len(b) PROVE b[k] = c[k]
    OBVIOUS
  <2>1. k = 1 \/ k \in 2..Len(q)
    BY <1>1, <1>4
  <2> QED BY <1>1, <1>3, <1>4, <1>6, <2>1
<1>8. b = c
  BY <1>1, <1>3, <1>4, <1>7, SegmentsEqual
<1> QED BY <1>8 DEF a, b, c

(* A text without separators joins the first of those that come after it. *)
Plain == Seq(Char \ {Separator})

LEMMA PlainIsText == Plain \subseteq Text
BY SeqWider DEF Plain, Text

LEMMA SplitText ==
  ASSUME NEW rest \in Text, NEW q \in Seq(Text), Len(q) >= 1, Split(rest) = q,
         NEW text \in Plain
  PROVE  Split(text \o rest) = With(text, q)
<1> DEFINE T == {n \in Nat : \A t \in Plain : Len(t) = n => Split(t \o rest) = With(t, q)}
<1>1. 0 \in T
  <2> SUFFICES ASSUME NEW t \in Plain, Len(t) = 0 PROVE Split(t \o rest) = With(t, q)
    OBVIOUS
  <2>1. t = <<>>
    BY DEF Plain
  <2>2. <<>> \o rest = rest
    BY DEF Text
  <2>3. <<>> \o q[1] = q[1]
    <3>1. q[1] \in Text
      OBVIOUS
    <3> QED BY <3>1 DEF Text
  <2>4. [q EXCEPT ![1] = q[1]] = q
    OBVIOUS
  <2>5. With(<<>>, q) = q
    BY Zenon, <2>3, <2>4 DEF With
  <2> QED BY Zenon, <2>1, <2>2, <2>5
<1>2. ASSUME NEW n \in Nat, n \in T PROVE n + 1 \in T
  <2> SUFFICES ASSUME NEW t \in Plain, Len(t) = n + 1 PROVE Split(t \o rest) = With(t, q)
    OBVIOUS
  <2> DEFINE c == t[1]
             u == Tail(t)
  <2>1. c \in Char \ {Separator} /\ u \in Plain /\ Len(u) = n /\ t = <<c>> \o u
    BY DEF Plain
  <2> HIDE DEF c, u
  <2>2. c \in Char /\ c # Separator /\ <<c>> \in Text /\ u \in Text
    <3>1. c \in Char /\ c # Separator
      BY <2>1
    <3>2. <<c>> \in Seq(Char)
      BY <3>1, OneSegment
    <3> QED BY <2>1, <3>1, <3>2, PlainIsText DEF Text
  <2>3. u \o rest \in Text /\ t \o rest = <<c>> \o (u \o rest)
    <3>1. <<c>> \in Seq(Char) /\ u \in Seq(Char) /\ rest \in Seq(Char)
      BY <2>2 DEF Text
    <3>2. (<<c>> \o u) \o rest = <<c>> \o (u \o rest)
      BY <3>1, CatGrouped
    <3>3. u \o rest \in Seq(Char)
      BY <3>1
    <3> QED BY <2>1, <3>2, <3>3 DEF Text
  <2>4. Split(u \o rest) = With(u, q)
    BY <1>2, <2>1
  <2>5. Split(t \o rest) = With(<<c>>, With(u, q))
    BY <2>2, <2>3, <2>4, SplitFront
  <2>6. With(<<c>>, With(u, q)) = With(<<c>> \o u, q)
    BY <2>2, WithTwice DEF Text
  <2> QED BY Zenon, <2>1, <2>5, <2>6
<1>3. Nat \subseteq T
  <2> HIDE DEF T
  <2> QED BY <1>1, <1>2, Induction
<1>4. Len(text) \in T
  <2>1. Len(text) \in Nat
    BY DEF Plain
  <2> HIDE DEF T
  <2> QED BY <1>3, <2>1
<1> QED BY <1>4

(* Texts put together *)

LEMMA JoinedOne == ASSUME NEW text \in Text PROVE Joined(<<text>>) = text
<1> DEFINE parts == <<text>>
           tails == [k \in 1..(Len(parts) - 1) |-> <<Separator>> \o parts[k + 1]]
<1>1. Head(parts) = text /\ Len(parts) - 1 = 0
  OBVIOUS
<1>2. tails = <<>>
  <2>1. tails = [k \in 1..0 |-> <<Separator>> \o parts[k + 1]]
    BY <1>1
  <2> QED BY <2>1
<1>3. text \o <<>> = text
  BY DEF Text
<1>4. Joined(parts) = Head(parts) \o FlattenSeq(tails)
  BY DEF Joined
<1> HIDE DEF tails
<1>5. Joined(parts) = text
  BY Zenon, <1>1, <1>2, <1>3, <1>4, FlattenNone
<1> QED BY <1>5

LEMMA JoinedMore ==
  ASSUME NEW text \in Text, NEW parts \in Seq(Text), Len(parts) >= 1
  PROVE  /\ Joined(parts) \in Text
         /\ Joined(<<text>> \o parts) = text \o (<<Separator>> \o Joined(parts))
<1> DEFINE all == <<text>> \o parts
           Tails(p) == [k \in 1..(Len(p) - 1) |-> <<Separator>> \o p[k + 1]]
           first == <<Separator>> \o parts[1]
           front == <<first>>
<1>1. /\ all \in Seq(Text) /\ Len(all) = Len(parts) + 1 /\ Len(parts) \in Nat /\ all[1] = text
      /\ \A k \in 1..Len(parts) : all[k + 1] = parts[k]
  <2>1. <<text>> \in Seq(Text) /\ Len(<<text>>) = 1 /\ <<text>>[1] = text
    OBVIOUS
  <2>2. all \in Seq(Text) /\ Len(all) = Len(<<text>>) + Len(parts)
    BY <2>1, CatSegments
  <2>3. all[1] = <<text>>[1]
    BY <2>1, CatHead
  <2>4. \A k \in 1..Len(parts) : all[Len(<<text>>) + k] = parts[k]
    BY <2>1, CatTail
  <2>5. \A k \in 1..Len(parts) : 1 + k = k + 1
    OBVIOUS
  <2> HIDE DEF all
  <2> QED BY <2>1, <2>2, <2>3, <2>4, <2>5
<1> HIDE DEF all
<1>2. ASSUME NEW p \in Seq(Text), Len(p) >= 1
      PROVE  /\ Tails(p) \in Seq(Seq(Char)) /\ Len(Tails(p)) = Len(p) - 1
             /\ \A k \in 1..(Len(p) - 1) : Tails(p)[k] = <<Separator>> \o p[k + 1]
  <2>1. ASSUME NEW k \in 1..(Len(p) - 1) PROVE <<Separator>> \o p[k + 1] \in Seq(Char)
    <3>1. p[k + 1] \in Text
      OBVIOUS
    <3>2. <<Separator>> \in Seq(Char)
      BY SeparatorIsText
    <3> QED BY <3>1, <3>2, CatSegments DEF Text
  <2>2. Len(p) - 1 \in Nat
    <3>1. Len(p) \in Nat /\ Len(p) >= 1
      BY <1>2
    <3> QED BY <3>1
  <2> DEFINE n == Len(p) - 1
             E(k) == <<Separator>> \o p[k + 1]
             t == [k \in 1..n |-> E(k)]
  <2>3. t = Tails(p)
    OBVIOUS
  <2>4. n \in Nat /\ n = Len(p) - 1 /\ \A k \in 1..n : E(k) \in Seq(Char)
    BY <2>1, <2>2
  <2> HIDE DEF n, E
  <2>5. t \in Seq(Seq(Char)) /\ Len(t) = n /\ \A k \in 1..n : t[k] = E(k)
    BY <2>4
  <2> HIDE DEF t
  <2>6. \A k \in 1..(Len(p) - 1) : t[k] = <<Separator>> \o p[k + 1]
    BY Zenon, <2>4, <2>5 DEF E
  <2> QED BY Zenon, <2>3, <2>4, <2>5, <2>6
<1>3. Len(all) >= 1
  BY <1>1
<1>4. first \in Seq(Char) /\ parts[1] \in Seq(Char) /\ <<Separator>> \in Seq(Char)
  <2>1. parts[1] \in Seq(Char)
    BY DEF Text
  <2>2. <<Separator>> \in Seq(Char)
    BY SeparatorIsText
  <2> QED BY <2>1, <2>2, CatSegments
<1>5. Head(parts) = parts[1] /\ Head(all) = text
  BY <1>1
<1> HIDE DEF first
<1>6. front \in Seq(Seq(Char)) /\ Len(front) = 1 /\ front[1] = first /\ FlattenSeq(front) = first
  BY <1>4, FlattenOne
<1> HIDE DEF front
<1>7. Tails(all) = front \o Tails(parts)
  <2> DEFINE a == Tails(all)
             b == Tails(parts)
             c == front \o b
  <2>1. /\ a \in Seq(Seq(Char)) /\ Len(a) = Len(parts)
        /\ \A k \in 1..Len(parts) : a[k] = <<Separator>> \o parts[k]
    <3>1. /\ a \in Seq(Seq(Char)) /\ Len(a) = Len(all) - 1
          /\ \A k \in 1..(Len(all) - 1) : a[k] = <<Separator>> \o all[k + 1]
      BY <1>1, <1>2, <1>3
    <3>2. Len(all) - 1 = Len(parts)
      BY <1>1
    <3> HIDE DEF a
    <3> QED BY <1>1, <3>1, <3>2
  <2>2. /\ b \in Seq(Seq(Char)) /\ Len(b) = Len(parts) - 1
        /\ \A k \in 1..(Len(parts) - 1) : b[k] = <<Separator>> \o parts[k + 1]
    BY <1>2
  <2> HIDE DEF a, b
  <2>3. c \in Seq(Seq(Char)) /\ Len(c) = Len(parts)
    <3>1. c \in Seq(Seq(Char)) /\ Len(c) = Len(front) + Len(b)
      BY <1>6, <2>2, CatSegments
    <3> HIDE DEF c
    <3> QED BY <1>1, <1>6, <2>2, <3>1
  <2>4. c[1] = first
    <3>1. 1 \in 1..Len(front)
      BY <1>6
    <3>2. front \in Seq(Seq(Char)) /\ b \in Seq(Seq(Char))
      BY <1>6, <2>2
    <3>3. (front \o b)[1] = front[1]
      BY <3>1, <3>2, CatHead
    <3> QED BY <1>6, <3>3
  <2>5. \A k \in 1..(Len(parts) - 1) : c[1 + k] = b[k]
    <3>1. front \in Seq(Seq(Char)) /\ b \in Seq(Seq(Char))
      BY <1>6, <2>2
    <3>2. \A k \in 1..Len(b) : (front \o b)[Len(front) + k] = b[k]
      BY <3>1, CatTail
    <3> QED BY <1>6, <2>2, <3>2
  <2> HIDE DEF c
  <2>6. \A k \in 1..Len(a) : a[k] = c[k]
    <3> SUFFICES ASSUME NEW k \in 1..Len(parts) PROVE a[k] = c[k]
      BY <2>1
    <3>1. CASE k = 1
      BY <2>1, <2>4, <3>1 DEF first
    <3>2. CASE k # 1
      <4>1. k - 1 \in 1..(Len(parts) - 1) /\ 1 + (k - 1) = k /\ (k - 1) + 1 = k
        BY <1>1, <3>2
      <4>2. c[1 + (k - 1)] = b[k - 1] /\ b[k - 1] = <<Separator>> \o parts[(k - 1) + 1]
        BY <2>2, <2>5, <4>1
      <4>3. c[k] = <<Separator>> \o parts[k]
        BY Zenon, <4>1, <4>2
      <4> QED BY <2>1, <4>3
    <3> QED BY <3>1, <3>2
  <2>7. a = c
    BY <2>1, <2>3, <2>6, SegmentsEqual
  <2> QED BY <2>7 DEF a, b, c
<1>8. Tails(parts) \in Seq(Seq(Char))
  BY <1>2
<1>9. Joined(parts) = parts[1] \o FlattenSeq(Tails(parts))
  BY <1>5 DEF Joined
<1>10. Joined(all) = text \o FlattenSeq(Tails(all))
  BY <1>5 DEF Joined
<1> HIDE DEF Tails
<1>11. FlattenSeq(Tails(parts)) \in Seq(Char)
  BY <1>8, FlattenType
<1>12. Joined(parts) \in Text
  BY <1>4, <1>9, <1>11, CatSegments DEF Text
<1>13. FlattenSeq(Tails(all)) = first \o FlattenSeq(Tails(parts))
  BY <1>6, <1>7, <1>8, FlattenCat
<1>14. first \o FlattenSeq(Tails(parts)) = <<Separator>> \o Joined(parts)
  <2> DEFINE a == <<Separator>>
             b == parts[1]
             c == FlattenSeq(Tails(parts))
  <2>1. a \in Seq(Char) /\ b \in Seq(Char) /\ c \in Seq(Char)
    BY <1>4, <1>11
  <2> HIDE DEF a, b, c
  <2>2. (a \o b) \o c = a \o (b \o c)
    BY <2>1, CatGrouped
  <2> QED BY Zenon, <1>9, <2>2 DEF a, b, c, first
<1> QED BY <1>10, <1>12, <1>13, <1>14 DEF all

LEMMA JoinedIsText == ASSUME NEW parts \in Seq(Text), Len(parts) >= 1 PROVE Joined(parts) \in Text
<1>1. <<>> \in Text
  BY DEF Text
<1> QED BY <1>1, JoinedMore

(* A code made of texts without separators is split into those texts. *)
LEMMA SplitJoined ==
  ASSUME NEW parts \in Seq(Plain), Len(parts) >= 1 PROVE Split(Joined(parts)) = parts
<1> DEFINE T == {n \in Nat : \A p \in Seq(Plain) : Len(p) = n + 1 => Split(Joined(p)) = p}
<1>1. 0 \in T
  <2> SUFFICES ASSUME NEW p \in Seq(Plain), Len(p) = 0 + 1 PROVE Split(Joined(p)) = p
    OBVIOUS
  <2> DEFINE t == p[1]
             q == <<<<>>>>
  <2>1. t \in Plain /\ p = <<t>>
    OBVIOUS
  <2> HIDE DEF t
  <2>2. t \in Text
    BY <2>1, PlainIsText
  <2>3. <<>> \in Text /\ q \in Seq(Text) /\ Len(q) >= 1 /\ q[1] = <<>>
    BY DEF Text
  <2> HIDE DEF q
  <2>4. Split(t \o <<>>) = With(t, q)
    <3>1. Split(<<>>) = q
      BY SplitNothing DEF q
    <3> QED BY <2>1, <2>3, <3>1, SplitText
  <2>5. t \o <<>> = t
    BY <2>2 DEF Text
  <2>6. With(t, q) = <<t>>
    BY <2>5 DEF With, q
  <2>7. Joined(<<t>>) = t
    BY <2>2, JoinedOne
  <2> QED BY Zenon, <2>1, <2>4, <2>5, <2>6, <2>7
<1>2. ASSUME NEW n \in Nat, n \in T PROVE n + 1 \in T
  <2> SUFFICES ASSUME NEW p \in Seq(Plain), Len(p) = (n + 1) + 1 PROVE Split(Joined(p)) = p
    OBVIOUS
  <2> DEFINE t == p[1]
             r == Tail(p)
             q == <<<<>>>> \o r
             j == Joined(r)
  <2>1. t \in Plain /\ r \in Seq(Plain) /\ Len(r) = n + 1 /\ p = <<t>> \o r
    OBVIOUS
  <2> HIDE DEF t, r
  <2>2. t \in Text /\ r \in Seq(Text) /\ Len(r) >= 1
    BY <2>1, PlainIsText, SeqWider
  <2>3. j \in Text /\ Joined(p) = t \o (<<Separator>> \o j)
    BY <2>1, <2>2, JoinedMore
  <2>4. Split(j) = r
    BY <1>2, <2>1
  <2> HIDE DEF j
  <2>5. Separator \in Char /\ <<Separator>> \in Seq(Char)
    BY SeparatorIsText
  <2>6. <<Separator>> \o j \in Text
    BY <2>3, <2>5, CatSegments DEF Text
  <2>7. Split(<<Separator>> \o j) = q
    BY <2>3, <2>4, <2>5, SplitFront
  <2>8. <<<<>>>> \in Seq(Text) /\ Len(<<<<>>>>) = 1 /\ <<<<>>>>[1] = <<>>
    BY DEF Text
  <2>9. q \in Seq(Text) /\ Len(q) = Len(r) + 1 /\ q[1] = <<>> /\ \A k \in 1..Len(r) : q[k + 1] = r[k]
    BY <2>2, <2>8
  <2> HIDE DEF q
  <2>10. Split(Joined(p)) = With(t, q)
    <3>1. Len(q) >= 1
      BY <2>2, <2>9
    <3> DEFINE z == <<Separator>> \o j
    <3>2. z \in Text /\ Split(z) = q /\ Joined(p) = t \o z
      BY Zenon, <2>3, <2>6, <2>7
    <3> HIDE DEF z
    <3>3. Split(t \o z) = With(t, q)
      BY Zenon, <2>1, <2>9, <3>1, <3>2, SplitText
    <3> QED BY Zenon, <3>2, <3>3
  <2>11. With(t, q) = p
    <3>1. t \o <<>> = t
      BY <2>2 DEF Text
    <3> DEFINE a == [q EXCEPT ![1] = t]
               b == <<t>> \o r
    <3>2. a \in Seq(Text) /\ Len(a) = Len(r) + 1 /\ a[1] = t /\ \A k \in 1..Len(r) : a[k + 1] = r[k]
      BY <2>2, <2>9
    <3>3. b \in Seq(Text) /\ Len(b) = Len(r) + 1 /\ b[1] = t /\ \A k \in 1..Len(r) : b[k + 1] = r[k]
      BY <2>2
    <3> HIDE DEF a, b
    <3>4. \A k \in 1..Len(a) : a[k] = b[k]
      <4> SUFFICES ASSUME NEW k \in 1..Len(a) PROVE a[k] = b[k]
        OBVIOUS
      <4>1. CASE k = 1
        BY <3>2, <3>3, <4>1
      <4>2. CASE k # 1
        <5>1. k - 1 \in 1..Len(r) /\ (k - 1) + 1 = k
          BY <3>2, <4>2
        <5> QED BY <3>2, <3>3, <5>1
      <4> QED BY <4>1, <4>2
    <3>5. a = b
      BY <3>2, <3>3, <3>4, SegmentsEqual
    <3> QED BY Zenon, <2>1, <2>9, <3>1, <3>5 DEF With, a, b
  <2> QED BY <2>10, <2>11
<1>3. Nat \subseteq T
  <2> HIDE DEF T
  <2> QED BY <1>1, <1>2, Induction
<1>4. Len(parts) - 1 \in T /\ Len(parts) = (Len(parts) - 1) + 1
  <2>1. Len(parts) - 1 \in Nat /\ Len(parts) = (Len(parts) - 1) + 1
    OBVIOUS
  <2> HIDE DEF T
  <2> QED BY <1>3, <2>1
<1> QED BY <1>4

(* The format qualifier is "1" when the code starts with "1$". *)
LEMMA FirstTwo ==
  ASSUME NEW ac \in Text, Len(ac) >= 2
  PROVE  SubSeq(ac, 1, 2) = <<"1", Separator>> <=> ac[1] = "1" /\ ac[2] = Separator
<1> DEFINE s == SubSeq(ac, 1, 2)
           q == <<"1", Separator>>
<1>1. s \in Seq(Char) /\ Len(s) = 2 /\ s[1] = ac[1] /\ s[2] = ac[2]
  BY DEF Text
<1>2. q \in Seq(Char) /\ Len(q) = 2 /\ q[1] = "1" /\ q[2] = Separator
  BY CodeAssumption
<1> HIDE DEF s, q
<1>3. s[1] = q[1] /\ s[2] = q[2] => s = q
  <2>1. \A i \in 1..2 : i = 1 \/ i = 2
    OBVIOUS
  <2>2. s[1] = q[1] /\ s[2] = q[2] => \A i \in 1..Len(s) : s[i] = q[i]
    BY <1>1, <2>1
  <2> QED BY <1>1, <1>2, <2>2, SegmentsEqual
<1>4. s = q <=> ac[1] = "1" /\ ac[2] = Separator
  BY Zenon, <1>1, <1>2, <1>3
<1> QED BY Zenon, <1>4 DEF s, q

LEMMA QualifierSeen ==
  ASSUME NEW parts \in Seq(Plain), Len(parts) >= 1, Len(Joined(parts)) >= 2
  PROVE  SubSeq(Joined(parts), 1, 2) = <<"1", Separator>> <=> Len(parts) >= 2 /\ parts[1] = <<"1">>
<1> DEFINE ac == Joined(parts)
           t == parts[1]
           r == Tail(parts)
<1>1. /\ t \in Plain /\ r \in Seq(Plain) /\ Len(r) = Len(parts) - 1 /\ parts = <<t>> \o r
      /\ Len(parts) \in Nat /\ (Len(parts) = 1 => parts = <<t>>)
  OBVIOUS
<1>2. parts \in Seq(Text) /\ r \in Seq(Text) /\ t \in Text
  BY <1>1, PlainIsText, SeqWider
<1> HIDE DEF t, r
<1>3. ac \in Text
  BY <1>2, JoinedIsText
<1>4. Len(ac) >= 2
  OBVIOUS
<1> HIDE DEF ac
<1>5. SubSeq(ac, 1, 2) = <<"1", Separator>> <=> ac[1] = "1" /\ ac[2] = Separator
  BY <1>3, <1>4, FirstTwo
<1>6. Len(t) \in Nat /\ \A i \in 1..Len(t) : t[i] # Separator
  BY <1>1 DEF Plain
<1>7. CASE Len(parts) = 1
  <2>1. ac = t
    <3>1. parts = <<t>>
      BY <1>1, <1>7
    <3>2. Joined(<<t>>) = t
      BY <1>2, JoinedOne
    <3> QED BY <3>1, <3>2 DEF ac
  <2>2. ac[2] # Separator
    BY <1>4, <1>6, <2>1
  <2> QED BY <1>5, <1>7, <2>2 DEF ac
<1>8. CASE Len(parts) >= 2
  <2> DEFINE z == <<Separator>> \o Joined(r)
  <2>1. Joined(r) \in Seq(Char) /\ ac = t \o z
    <3>1. Len(r) >= 1
      BY <1>1, <1>8
    <3>2. Joined(r) \in Text /\ Joined(<<t>> \o r) = t \o (<<Separator>> \o Joined(r))
      BY <1>2, <3>1, JoinedMore
    <3> QED BY Zenon, <1>1, <3>2 DEF ac, Text
  <2>2. z \in Seq(Char) /\ Len(z) \in Nat /\ Len(z) >= 1 /\ z[1] = Separator
    <3> DEFINE a == <<Separator>>
               j == Joined(r)
    <3>1. a \in Seq(Char) /\ j \in Seq(Char) /\ Len(a) = 1 /\ a[1] = Separator /\ 1 \in 1..Len(a)
      BY <2>1, SeparatorIsText
    <3> HIDE DEF a, j
    <3>2. a \in Seq(Char) /\ j \in Seq(Char) /\ Len(j) \in Nat
      BY <3>1
    <3>3. a \o j \in Seq(Char) /\ Len(a \o j) = Len(a) + Len(j)
      BY <3>2, CatSegments
    <3>5. (a \o j)[1] = a[1]
      <4>1. 1 \in 1..Len(a)
        BY <3>1
      <4> QED BY <3>2, <4>1, CatHead
    <3>4. z = a \o j
      BY DEF a, j
    <3> HIDE DEF z
    <3> QED BY <3>1, <3>2, <3>3, <3>4, <3>5
  <2> HIDE DEF z
  <2>3. t \in Seq(Char)
    BY <1>2 DEF Text
  <2>4. (\A i \in 1..Len(t) : ac[i] = t[i]) /\ (\A i \in 1..Len(z) : ac[Len(t) + i] = z[i])
    BY <2>1, <2>2, <2>3, CatHead, CatTail
  <2>5. ac[Len(t) + 1] = Separator
    BY <2>2, <2>4
  <2>6. "1" # Separator
    BY DEF Separator
  <2>7. CASE Len(t) = 0
    <3>1. ac[1] # "1"
      BY <2>5, <2>6, <2>7
    <3>2. t # <<"1">>
      BY <2>7
    <3> QED BY Zenon, <1>5, <3>1, <3>2 DEF ac, t
  <2>8. CASE Len(t) = 1
    <3>1. ac[1] = t[1] /\ ac[2] = Separator
      BY <2>4, <2>5, <2>8
    <3>2. t = <<"1">> <=> t[1] = "1"
      BY <2>3, <2>8
    <3> QED BY Zenon, <1>5, <1>8, <3>1, <3>2 DEF ac, t
  <2>9. CASE Len(t) >= 2 /\ Len(t) # 1
    <3>1. ac[2] = t[2] /\ t[2] # Separator
      BY <1>6, <2>4, <2>9
    <3>2. t # <<"1">>
      <4>1. Len(<<"1">>) = 1
        OBVIOUS
      <4> QED BY Zenon, <2>9, <4>1
    <3> QED BY Zenon, <1>5, <3>1, <3>2 DEF ac, t
  <2>10. Len(t) = 0 \/ Len(t) = 1 \/ (Len(t) >= 2 /\ Len(t) # 1)
    <3>1. \A m \in Nat : m = 0 \/ m = 1 \/ (m >= 2 /\ m # 1)
      OBVIOUS
    <3> QED BY Zenon, <1>6, <3>1
  <2> QED BY Zenon, <2>7, <2>8, <2>9, <2>10
<1> QED BY <1>1, <1>7, <1>8

CodesParsed ==
  fn = "activation_code" =>
    /\ in \in AcInputs
    /\ done => out = ipa_activation_code_parse(IF in.parts = <<>> THEN <<>> ELSE Joined(in.parts), in.lpa)

LEMMA InitCodesParsed == Init => CodesParsed
BY DEF Init, Choose, CodesParsed

LEMMA NextCodesParsed == CodesParsed /\ [Next]_vars => CodesParsed'
<1> SUFFICES ASSUME CodesParsed, [Next]_vars PROVE CodesParsed'
  OBVIOUS
<1>1. CASE RunActivationCode
  BY <1>1 DEF RunActivationCode, Run, CodesParsed
<1>2. CASE RunTlv
  BY <1>2 DEF RunTlv, Run, CodesParsed
<1>3. CASE RunTaglist
  BY <1>3 DEF RunTaglist, Run, CodesParsed
<1>4. CASE RunSegments
  BY <1>4 DEF RunSegments, Run, CodesParsed
<1>5. CASE RunDataReq
  BY <1>5 DEF RunDataReq, Run, CodesParsed
<1>6. CASE UNCHANGED vars
  BY <1>6 DEF vars, CodesParsed
<1> QED BY <1>1, <1>2, <1>3, <1>4, <1>5, <1>6 DEF Next

LEMMA TupleIsSeq == ASSUME NEW S, NEW n \in Nat, NEW s \in TupleOf(S, n) PROVE s \in Seq(S)
BY DEF TupleOf

LEMMA InputsPlain ==
  ASSUME MaxText \in Nat, MaxParts \in Nat, NEW i \in AcInputs
  PROVE  i.parts \in Seq(Plain) /\ i.lpa \in BOOLEAN
<1>1. Texts \subseteq Plain
  BY BoundedIsSeq DEF Texts, Plain
<1>2. i.parts \in BoundedSeq(Texts, MaxParts) \cup Deep /\ i.lpa \in BOOLEAN
  BY DEF AcInputs
<1>3. CASE i.parts \in BoundedSeq(Texts, MaxParts)
  BY <1>1, <1>2, <1>3, BoundedIsSeq, SeqWider
<1>4. CASE i.parts \in Deep
  <2>1. "1" # Separator
    BY DEF Separator
  <2>2. "1" \in Char \ {Separator}
    BY <2>1, CodeAssumption
  <2>3. <<>> \in Plain /\ <<"1">> \in Plain /\ <<"1", "1">> \in Plain
    BY <2>2 DEF Plain
  <2>4. <<<<"1">>, <<"1", "1">>>> \in Seq(Plain)
    BY <2>3
  <2>5. PICK tail \in TupleOf(Texts, 4) \cup TupleOf({<<>>, <<"1">>}, 6) :
               i.parts = <<<<"1">>, <<"1", "1">>>> \o tail
    BY Zenon, <1>4 DEF Deep
  <2>6. tail \in Seq(Plain)
    <3>1. CASE tail \in TupleOf(Texts, 4)
      <4>1. tail \in Seq(Texts)
        BY <3>1, TupleIsSeq
      <4> QED BY <1>1, <4>1, SeqWider
    <3>2. CASE tail \in TupleOf({<<>>, <<"1">>}, 6)
      <4>1. tail \in Seq({<<>>, <<"1">>})
        BY <3>2, TupleIsSeq
      <4>2. {<<>>, <<"1">>} \subseteq Plain
        BY <2>3
      <4> QED BY <4>1, <4>2, SeqWider
    <3> QED BY <2>5, <3>1, <3>2
  <2> QED BY <1>2, <2>4, <2>5, <2>6, CatSegments
<1> QED BY <1>2, <1>3, <1>4

(* Whatever the characters, the lengths and the number of the texts of an activation code:
   ipa_activation_code_parse takes a code of format 1 apart into them and refuses others. *)
THEOREM CodesTakenApart ==
  ASSUME MaxText \in Nat, MaxParts \in Nat
  PROVE  Spec => []ActivationCodeParsed
<1>1. CodesParsed => ActivationCodeParsed
  <2> SUFFICES ASSUME CodesParsed, done, fn = "activation_code" PROVE ActivationCodeParsed
    BY DEF ActivationCodeParsed, Result
  <2> DEFINE parts == in.parts
             n == Len(parts)
             ac == IF parts = <<>> THEN <<>> ELSE Joined(parts)
             items == Tail(parts)
             qualified == n >= 2 /\ parts[1] = <<"1">>
  <2>1. /\ in \in AcInputs /\ parts \in Seq(Plain) /\ in.lpa \in BOOLEAN
        /\ out = ipa_activation_code_parse(ac, in.lpa)
    BY InputsPlain DEF CodesParsed
  <2>2. n \in Nat /\ (n = 0 <=> parts = <<>>) /\ \A k \in 1..n : parts[k] \in Plain
    BY <2>1
  <2>3. n >= 1 => Len(items) = n - 1 /\ \A k \in 1..(n - 1) : items[k] = parts[k + 1]
    BY <2>1
  <2> HIDE DEF n, items, qualified
  <2>4. CASE n = 0
    <3>1. ac = <<>>
      BY <2>2, <2>4
    <3>2. Short(ac, in.lpa)
      <4>1. Len(ac) = 0
        BY <3>1
      <4> HIDE DEF ac
      <4> QED BY <4>1 DEF Short
    <3> HIDE DEF ac
    <3>3. out = Null
      BY Zenon, <2>1, <3>2 DEF ipa_activation_code_parse
    <3>4. ~(Len(in.parts) >= 3)
      BY <2>4 DEF n, parts
    <3> QED BY Zenon, <3>3, <3>4 DEF ActivationCodeParsed
  <2>5. CASE n >= 1
    <3>1. ac = Joined(parts)
      BY <2>2, <2>5
    <3> HIDE DEF ac
    <3>2. ac \in Text /\ Len(ac) \in Nat
      <4>1. parts \in Seq(Text)
        BY <2>1, PlainIsText, SeqWider
      <4>2. Joined(parts) \in Text
        BY <2>5, <4>1, JoinedIsText DEF n
      <4> QED BY <3>1, <4>2 DEF Text
    <3>3. Items(ac) = items
      BY <2>1, <2>5, <3>1, SplitJoined DEF Items, items, n
    <3>4. Short(ac, in.lpa) <=> ~(Len(ac) > 4)
      BY <2>1, <3>2 DEF Short
    <3>5. Len(ac) > 4 => (SubSeq(ac, 1, 2) = <<"1", Separator>> <=> qualified)
      <4> SUFFICES ASSUME Len(ac) > 4 PROVE SubSeq(ac, 1, 2) = <<"1", Separator>> <=> qualified
        OBVIOUS
      <4>1. Len(ac) >= 2
        BY <3>2
      <4> QED BY <2>1, <2>5, <3>1, <4>1, QualifierSeen DEF qualified, n
    <3>6. \A k \in {1, 2, 3, 4, 5, 6} : Given(items, k) = Part(k + 1)
      <4> SUFFICES ASSUME NEW k \in {1, 2, 3, 4, 5, 6} PROVE Given(items, k) = Part(k + 1)
        OBVIOUS
      <4>1. k <= Len(items) <=> k + 1 <= Len(in.parts)
        BY <2>2, <2>3, <2>5 DEF n, parts
      <4>2. k + 1 <= Len(in.parts) => items[k] = in.parts[k + 1]
        BY <2>2, <2>3, <2>5 DEF n, parts
      <4> QED BY Zenon, <4>1, <4>2 DEF Given, Part
    <3>7. \A k \in 1..n : parts[k] \in Text /\ parts[k] # Null
      BY <2>2, PlainIsText, CodeAssumption
    <3>8. n >= 2 => (Given(items, 1) = Null <=> parts[2] = <<>>)
      <4>1. n >= 2 => 2 \in 1..n /\ 2 <= n
        BY <2>2
      <4>2. Given(items, 1) = Part(2)
        BY <3>6
      <4> QED BY Zenon, <3>7, <4>1, <4>2 DEF Part, n, parts
    <3>9. TokenPresent(items) <=> n >= 3
      BY <2>2, <2>3, <2>5 DEF TokenPresent
    <3> DEFINE good == n >= 3 /\ parts[1] = <<"1">> /\ parts[2] # <<>> /\ Len(ac) > 4
               refused == Short(ac, in.lpa) \/ SubSeq(ac, 1, 2) # <<"1", Separator>>
                          \/ Given(items, 1) = Null \/ ~TokenPresent(items)
               code == [sm_dp_plus_address |-> items[1], ac_token |-> items[2],
                        sm_dp_plus_oid |-> Given(items, 3),
                        confirmation_code_required |-> Given(items, 4) # Null /\ items[4][1] = "1",
                        ci_public_key_indicator |-> Given(items, 5),
                        delete_notification_for_device_change |-> Given(items, 6)]
    <3>10. refused <=> ~good
      <4>1. n >= 3 => n >= 2
        BY <2>2
      <4> QED BY Zenon, <3>4, <3>5, <3>8, <3>9, <4>1 DEF qualified
    <3>11. out = IF refused THEN Null ELSE code
      BY Zenon, <2>1, <3>3 DEF ipa_activation_code_parse
    <3> HIDE DEF refused, code
    <3>12. CASE ~good
      <4>1. out = Null
        BY Zenon, <3>10, <3>11, <3>12
      <4>2. ~(Len(in.parts) >= 3 /\ in.parts[1] = <<"1">> /\ in.parts[2] # <<>> /\ Len(Joined(in.parts)) > 4)
        BY Zenon, <3>1, <3>12 DEF n, parts
      <4> QED BY Zenon, <4>1, <4>2 DEF ActivationCodeParsed
    <3>13. CASE good
      <4>1. out = code
        BY Zenon, <3>10, <3>11, <3>13
      <4>2. n >= 3 /\ 1 \in 1..(n - 1) /\ 2 \in 1..(n - 1) /\ 2 \in 1..n /\ 3 \in 1..n
        BY <2>2, <3>13
      <4>3. items[1] = parts[2] /\ items[2] = parts[3]
        BY <2>3, <2>5, <4>2
      <4>4. /\ Given(items, 3) = Part(4) /\ Given(items, 4) = Part(5)
            /\ Given(items, 5) = Part(6) /\ Given(items, 6) = Part(7)
        BY <3>6
      <4>5. Part(5) # Null => items[4] = Part(5)
        BY Zenon, <4>4 DEF Given
      <4>6. {Part(4), Part(6), Part(7)} \subseteq Text \cup {Null}
        <5>1. \A k \in {4, 6, 7} : k <= Len(in.parts) => in.parts[k] \in Text
          BY <2>2, <3>7 DEF n, parts
        <5> QED BY Zenon, <5>1 DEF Part
      <4>7. /\ code.sm_dp_plus_address = parts[2] /\ code.ac_token = parts[3]
            /\ code.sm_dp_plus_oid = Part(4) /\ code.ci_public_key_indicator = Part(6)
            /\ code.delete_notification_for_device_change = Part(7)
        BY Zenon, <4>3, <4>4 DEF code
      <4>8. code.confirmation_code_required <=> Part(5) # Null /\ Part(5)[1] = "1"
        <5>1. code.confirmation_code_required = (Given(items, 4) # Null /\ items[4][1] = "1")
          BY Zenon DEF code
        <5> QED BY Zenon, <4>4, <4>5, <5>1
      <4>9. code # Null
        <5> DEFINE required == Given(items, 4) # Null /\ items[4][1] = "1"
        <5>1. required \in BOOLEAN
          OBVIOUS
        <5>2. parts[2] \in Text /\ parts[3] \in Text
          BY <3>7, <4>2
        <5>3. code = [sm_dp_plus_address |-> parts[2], ac_token |-> parts[3], sm_dp_plus_oid |-> Part(4),
                      confirmation_code_required |-> required, ci_public_key_indicator |-> Part(6),
                      delete_notification_for_device_change |-> Part(7)]
          BY Zenon, <4>3, <4>4 DEF code
        <5> HIDE DEF required
        <5>4. code \in Code
          BY <4>6, <5>1, <5>2, <5>3 DEF Code
        <5> QED BY Zenon, <5>4, CodeAssumption
      <4> HIDE DEF code
      <4>10. in.parts[2] # <<>> /\ Len(in.parts) >= 3 /\ in.parts[1] = <<"1">> /\ Len(Joined(in.parts)) > 4
        BY Zenon, <3>1, <3>13 DEF n, parts
      <4> QED BY Zenon, <4>1, <4>7, <4>8, <4>9, <4>10 DEF ActivationCodeParsed, parts
    <3> QED BY Zenon, <3>12, <3>13
  <2> QED BY <2>2, <2>4, <2>5
<1> QED BY <1>1, InitCodesParsed, NextCodesParsed, PTL DEF Spec

LEMMA JoinedWith ==
  ASSUME NEW x \in Text, NEW q \in Seq(Text), Len(q) >= 1
  PROVE  Joined(With(x, q)) = x \o Joined(q)
<1> DEFINE Tails(p) == [k \in 1..(Len(p) - 1) |-> <<Separator>> \o p[k + 1]]
           w == With(x, q)
<1>1. Len(q) \in Nat /\ q[1] \in Text /\ \A k \in 1..Len(q) : q[k] \in Text
  OBVIOUS
<1>2. /\ w \in Seq(Text) /\ Len(w) = Len(q) /\ w[1] = x \o q[1]
      /\ \A k \in 2..Len(q) : w[k] = q[k]
  BY WithIs DEF Text
<1> HIDE DEF w
<1>3. Tails(w) = Tails(q)
  <2>1. \A k \in 1..(Len(q) - 1) : w[k + 1] = q[k + 1]
    BY <1>1, <1>2
  <2> QED BY <1>2, <2>1
<1>4. Head(w) = w[1] /\ Head(q) = q[1]
  BY <1>2
<1>5. Joined(w) = w[1] \o FlattenSeq(Tails(w)) /\ Joined(q) = q[1] \o FlattenSeq(Tails(q))
  BY <1>4 DEF Joined
<1>6. FlattenSeq(Tails(q)) \in Seq(Char)
  <2> DEFINE n == Len(q) - 1
             E(k) == <<Separator>> \o q[k + 1]
             t == [k \in 1..n |-> E(k)]
  <2>1. n \in Nat /\ t = Tails(q)
    BY <1>1
  <2>2. ASSUME NEW k \in 1..n PROVE E(k) \in Seq(Char)
    <3>1. q[k + 1] \in Text
      BY <1>1
    <3> QED BY <3>1, SeparatorIsText, CatSegments DEF Text
  <2> HIDE DEF n, E
  <2>3. t \in Seq(Seq(Char))
    BY <2>1, <2>2
  <2> HIDE DEF t
  <2>4. FlattenSeq(t) \in Seq(Char)
    BY <2>3, FlattenType
  <2> QED BY Zenon, <2>1, <2>4
<1>7. (x \o q[1]) \o FlattenSeq(Tails(q)) = x \o (q[1] \o FlattenSeq(Tails(q)))
  <2> DEFINE a == q[1]
             b == FlattenSeq(Tails(q))
  <2>1. x \in Seq(Char) /\ a \in Seq(Char) /\ b \in Seq(Char)
    BY <1>1, <1>6 DEF Text
  <2> HIDE DEF a, b
  <2>2. (x \o a) \o b = x \o (a \o b)
    BY SMTT(30), <2>1, CatGrouped
  <2> QED BY Zenon, <2>2 DEF a, b
<1> HIDE DEF Tails
<1> QED BY Zenon, <1>2, <1>3, <1>5, <1>7 DEF w

(* Every code is made of such texts: the split of one, put together again, is the code, so
   nothing of it is lost, twice there or out of place (the loop of ipa_activation_code_parse). *)
THEOREM EveryCodeSplit ==
  ASSUME NEW code \in Text
  PROVE  /\ Split(code) \in Seq(Plain) /\ Len(Split(code)) >= 1
         /\ Joined(Split(code)) = code
<1> DEFINE Whole(ac) == Split(ac) \in Seq(Plain) /\ Len(Split(ac)) >= 1 /\ Joined(Split(ac)) = ac
           T == {n \in Nat : \A ac \in Text : Len(ac) = n => Whole(ac)}
<1>1. 0 \in T
  <2> SUFFICES ASSUME NEW ac \in Text, Len(ac) = 0 PROVE Whole(ac)
    OBVIOUS
  <2> DEFINE e == <<>>
  <2>1. ac = e
    BY DEF Text
  <2>2. e \in Plain /\ e \in Text
    BY DEF Plain, Text
  <2> HIDE DEF e
  <2>3. Joined(<<e>>) = e
    BY <2>2, JoinedOne
  <2>4. <<e>> \in Seq(Plain) /\ Len(<<e>>) >= 1
    BY <2>2
  <2>5. Split(e) = <<e>>
    BY SplitNothing DEF e
  <2> QED BY Zenon, <2>1, <2>3, <2>4, <2>5
<1>2. ASSUME NEW n \in Nat, n \in T PROVE n + 1 \in T
  <2> SUFFICES ASSUME NEW ac \in Text, Len(ac) = n + 1 PROVE Whole(ac)
    OBVIOUS
  <2> DEFINE c == ac[1]
             rest == Tail(ac)
             q == Split(rest)
  <2>1. c \in Char /\ rest \in Text /\ Len(rest) = n /\ ac = <<c>> \o rest
    BY DEF Text
  <2> HIDE DEF c, rest
  <2>2. q \in Seq(Plain) /\ Len(q) >= 1 /\ Joined(q) = rest
    BY <1>2, <2>1
  <2>3. q \in Seq(Text)
    BY <2>2, PlainIsText, SeqWider
  <2>4. Split(ac) = IF c = Separator THEN <<<<>>>> \o q ELSE With(<<c>>, q)
    BY <2>1, SplitFront
  <2>5. <<c>> \in Text
    BY <2>1, OneSegment DEF Text
  <2> HIDE DEF q
  <2>6. CASE c = Separator
    <3> DEFINE e == <<>>
               s == <<e>> \o q
    <3>1. e \in Plain /\ e \in Text
      BY DEF Plain, Text
    <3>2. e \o (<<c>> \o rest) = <<c>> \o rest
      BY <2>1 DEF Text
    <3>3. Split(ac) = s
      BY <2>4, <2>6
    <3> HIDE DEF e
    <3>4. Joined(s) = e \o (<<Separator>> \o Joined(q))
      BY <2>2, <2>3, <3>1, JoinedMore
    <3>5. Joined(s) = ac
      BY Zenon, <2>1, <2>2, <2>6, <3>2, <3>4
    <3>6. s \in Seq(Plain) /\ Len(s) >= 1
      <4>1. <<e>> \in Seq(Plain) /\ Len(<<e>>) = 1
        BY <3>1, OneSegment
      <4>2. s \in Seq(Plain) /\ Len(s) = Len(<<e>>) + Len(q)
        BY <2>2, <4>1, CatSegments
      <4>3. Len(q) \in Nat
        BY <2>2
      <4> HIDE DEF s
      <4> QED BY <4>1, <4>2, <4>3
    <3> HIDE DEF s
    <3> QED BY <3>3, <3>5, <3>6
  <2>7. CASE c # Separator
    <3>1. Split(ac) = With(<<c>>, q)
      BY <2>4, <2>7
    <3>2. <<c>> \in Plain
      BY <2>1, <2>7, OneSegment DEF Plain
    <3>3. With(<<c>>, q) \in Seq(Plain) /\ Len(With(<<c>>, q)) = Len(q)
      BY <2>2, <3>2, WithIs DEF Plain
    <3>4. Joined(With(<<c>>, q)) = <<c>> \o Joined(q)
      BY <2>2, <2>3, <2>5, JoinedWith
    <3> QED BY Zenon, <2>1, <2>2, <3>1, <3>3, <3>4
  <2> QED BY <2>6, <2>7
<1>3. Nat \subseteq T
  <2> HIDE DEF T
  <2> QED BY <1>1, <1>2, Induction
<1>4. Len(code) \in T
  <2>1. Len(code) \in Nat
    BY DEF Text
  <2> HIDE DEF T
  <2> QED BY <1>3, <2>1
<1> QED BY <1>4
=============================================================================

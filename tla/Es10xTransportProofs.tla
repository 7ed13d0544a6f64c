------------------------ MODULE Es10xTransportProofs ------------------------
(***************************************************************************)
(* Proofs about Es10xTransport, for every value of its constants: the      *)
(* types, that the card performs requests as they were given and the       *)
(* caller gets responses whole, that the limit on blocks is exact, and     *)
(* that an exchange implements PeerCall.                                   *)
(***************************************************************************)
EXTENDS Es10xTransport, TLAPS

Exchanging == {"send", "receive"}

(* How far the request in hand is: the card has not performed it while it is being
   sent, and has once while its response is fetched.                              *)
Progress ==
  /\ \A c \in Calls : state[c] = "new" <=> c > call
  /\ \A c \in Calls : state[c] = "open" <=> c = call /\ pc \in Exchanging
  /\ \A c \in Calls : c > call => performed[c] = 0 /\ content[c] = <<>>
  /\ pc \in Exchanging => call # 0
  /\ pc = "send" => performed[call] = 0 /\ content[call] = <<>>
  /\ pc = "receive" => performed[call] = 1

(* What the card has collected are full blocks that follow one another, those of
   the request that is being sent unless something came between.                *)
Sending ==
  /\ \A k \in 1..Len(blocks) :
       blocks[k].nr = k - 1 /\ blocks[k].from = (k - 1) * MaxBlockTx /\ blocks[k].len = MaxBlockTx
  /\ pc = "send" =>
       /\ offset = block_nr * MaxBlockTx /\ offset < reqLen /\ es10x_res = <<>>
       /\ block_nr > 0 =>
            \/ blocks = <<>> /\ excused
            \/ Len(blocks) = block_nr /\ \A k \in 1..Len(blocks) : blocks[k].of = call

(* The longest block that may be announced for n bytes to come. *)
Announced(n) == IF n >= MaxBlockRx THEN MaxBlockRx ELSE n

(* What was received and what the card still holds make up the response to the
   request in hand, unless something came between.                            *)
Receiving ==
  pc = "receive" =>
    /\ block_len \in 1..MaxBlockRx
    /\ \/ pendingRes = NoRes /\ excused
       \/ /\ pendingRes.of = call /\ pendingRes.left > 0
          /\ Whole(es10x_res, call, pendingRes.from)
          /\ pendingRes.from + pendingRes.left = answerLen[call]
          /\ block_len = Announced(pendingRes.left)

(* An answer stays whole over a restart, too. *)
Answered == call # 0 /\ state[call] = "answered" => Whole(es10x_res, call, answerLen[call])

(* Over a valid handle the application on the card is selected. *)
Linked == pc \in {"ready"} \cup Exchanging /\ link = "valid" => selected

IInv == TypeOK /\ Progress /\ Sending /\ Receiving /\ Answered /\ Linked /\ PerformedWhole /\ LimitExact

-----------------------------------------------------------------------------
(* Lemmas about the operators of the model *)

(* One more piece that continues the others leaves them whole. *)
LEMMA WholeAppended ==
  ASSUME NEW T, NEW s \in Seq(T), NEW c, NEW n, NEW p, Whole(s, c, n), p.of = c, p.from = n
  PROVE  Whole(Append(s, p), c, n + p.len)
<1> DEFINE t == Append(s, p)
<1>1. Len(t) = Len(s) + 1 /\ Len(s) \in Nat /\ t[Len(s) + 1] = p /\ \A k \in 1..Len(s) : t[k] = s[k]
  OBVIOUS
<1>2. DOMAIN t = 1..(Len(s) + 1) /\ DOMAIN s = 1..Len(s) /\ t # <<>> /\ (s = <<>> <=> Len(s) = 0)
  OBVIOUS
<1> HIDE DEF t
<1>3. ASSUME NEW k \in DOMAIN t
      PROVE  t[k].of = c /\ t[k].from = IF k = 1 THEN 0 ELSE t[k - 1].from + t[k - 1].len
  <2>1. CASE k \in 1..Len(s)
    <3>1. k \in DOMAIN s /\ t[k] = s[k] /\ (k # 1 => t[k - 1] = s[k - 1])
      BY <1>1, <1>2, <2>1
    <3> QED BY <3>1 DEF Whole
  <2>2. CASE k = Len(s) + 1
    <3>1. t[k] = p /\ (k = 1 <=> s = <<>>) /\ (k # 1 => t[k - 1] = s[Len(s)])
      BY <1>1, <1>2, <2>2
    <3> QED BY <3>1 DEF Whole
  <2> QED BY <1>1, <1>2, <2>1, <2>2
<1>4. n + p.len = t[Len(t)].from + t[Len(t)].len
  BY <1>1
<1>5. Whole(t, c, n + p.len)
  BY <1>2, <1>3, <1>4 DEF Whole
<1> QED BY <1>5 DEF t

LEMMA NothingWhole == ASSUME NEW c PROVE Whole(<<>>, c, 0)
BY DEF Whole

(* The status word announces what GET RESPONSE then asks for and gets. *)
LEMMA AnnouncedGiven ==
  ASSUME TypeOK, pendingRes.left > 0, block_len = Announced(pendingRes.left)
  PROVE  /\ block_len \in 1..MaxBlockRx /\ Least(block_len, MaxBlockRx) = block_len
         /\ block_len <= pendingRes.left
         /\ CardGives(LeByte(block_len)) = block_len
<1> USE TransportAssumption
<1>1. pendingRes.left \in Nat \ {0}
  BY DEF TypeOK
<1>2. block_len \in 1..MaxBlockRx /\ block_len <= pendingRes.left
  BY <1>1 DEF Announced
<1> QED BY <1>1, <1>2 DEF Least, CardGives, LeByte

LEMMA MoreAnnounces ==
  ASSUME NEW n \in Nat \ {0} PROVE BlockLen(More(n)) = Announced(n) /\ More(n) # Ok /\ More(n).class = "61"
BY TransportAssumption DEF BlockLen, More, Announced, Sw, Ok

(* The block that is sent next: full, or the rest of the request. *)
LEMMA NextBlock ==
  ASSUME TypeOK, Progress, Sending, pc = "send"
  PROVE  /\ Block \in BlockType /\ Block.of = call /\ Block.from = offset /\ Block.nr = block_nr
         /\ call \in Calls /\ reqLen \in Nat /\ offset \in Nat /\ offset = block_nr * MaxBlockTx
         /\ Block.last <=> offset + Block.len >= reqLen
         /\ Block.last => offset + Block.len = reqLen /\ reqLen <= offset + MaxBlockTx
         /\ ~Block.last => Block.len = MaxBlockTx /\ reqLen > offset + MaxBlockTx
<1> USE TransportAssumption
<1>1. call \in Calls /\ reqLen \in Nat /\ offset \in Nat /\ offset < reqLen /\ block_nr \in 0..(MaxBlocks - 1)
  BY DEF TypeOK, Progress, Sending, Exchanging
<1>2. Least(reqLen - offset, MaxBlockTx) \in Nat
  BY <1>1 DEF Least
<1>3. Block \in BlockType
  BY <1>1, <1>2 DEF Block, BlockType
<1>4. /\ Block.of = call /\ Block.from = offset /\ Block.nr = block_nr
      /\ Block.len = Least(reqLen - offset, MaxBlockTx) /\ Block.last = (reqLen - offset <= MaxBlockTx)
  BY DEF Block
<1>5. Block.last <=> reqLen - offset <= MaxBlockTx
  BY <1>4
<1>6. CASE reqLen - offset <= MaxBlockTx
  <2>1. Block.len = reqLen - offset
    BY <1>1, <1>4, <1>6 DEF Least
  <2> QED BY <1>1, <1>3, <1>4, <1>5, <1>6, <2>1 DEF Sending
<1>7. CASE ~(reqLen - offset <= MaxBlockTx)
  <2>1. Block.len = MaxBlockTx
    BY <1>1, <1>4, <1>7 DEF Least
  <2> QED BY <1>1, <1>3, <1>4, <1>5, <1>7, <2>1 DEF Sending
<1> QED BY <1>6, <1>7

-----------------------------------------------------------------------------
(* What the two commands of an exchange may come to *)

Fails ==
  pc' = "ready" /\ state' = [state EXCEPT ![call] = "failed"] /\ UNCHANGED <<offset, block_nr, block_len>>
CardKeeps == UNCHANGED <<performed, content, answerLen>>

NotStored == Fails /\ CardKeeps /\ excused' /\ UNCHANGED <<blocks, pendingRes>>

Refused ==
  /\ Fails /\ CardKeeps /\ blocks' = <<>> /\ pendingRes' = NoRes
  /\ excused' \/ (~excused /\ link = "valid" /\ (~selected \/ ~InSequence(Block)))

Stored ==
  /\ ~Block.last /\ InSequence(Block)
  /\ CardKeeps /\ blocks' = Collected(Block) /\ pendingRes' = NoRes
  /\ \/ Fails /\ (excused' \/ TooMany(block_nr + 1))
     \/ /\ ~TooMany(block_nr + 1)
        /\ offset' = offset + MaxBlockTx /\ block_nr' = block_nr + 1 /\ excused' = excused
        /\ UNCHANGED <<pc, block_len, state>>

PerformedIt(n) ==
  /\ InSequence(Block)
  /\ performed' = [performed EXCEPT ![call] = @ + 1]
  /\ content' = IF Block.last THEN [content EXCEPT ![call] = Collected(Block)] ELSE content
  /\ answerLen' = [answerLen EXCEPT ![call] = n]
  /\ pendingRes' = [of |-> call, from |-> 0, left |-> n] /\ blocks' = <<>>
  /\ \/ Fails /\ excused'
     \/ /\ n = 0 /\ pc' = "ready" /\ state' = [state EXCEPT ![call] = "answered"] /\ excused' = excused
        /\ UNCHANGED <<offset, block_nr, block_len>>
     \/ /\ n > 0 /\ pc' = "receive" /\ block_len' = Announced(n) /\ excused' = excused
        /\ UNCHANGED <<offset, block_nr, state>>

SendLeaves == UNCHANGED <<link, call, reqLen, es10x_res, channelOpen, selected, bounds>>

LEMMA SendCases ==
  ASSUME TypeOK, Progress, Sending, send_es10x_block
  PROVE  /\ pc = "send" /\ SendLeaves /\ check_scard' \in BOOLEAN /\ excused' \in BOOLEAN
         /\ NotStored \/ Refused \/ Stored \/ \E n \in ResLens : PerformedIt(n)
<1> USE TransportAssumption
<1>1. pc = "send" /\ SendLeaves
  BY DEF send_es10x_block, SendLeaves
<1>2. PICK o \in Outcomes, n \in ResLens, class \in {"9000", "61", "error"} :
        LET b == Block
            sw == CASE class = "9000" -> Ok [] class = "61" -> More(n) [] OTHER -> CardError
        IN /\ check_scard' = Canary(o)
           /\ IF ~Reaches(o) THEN UNCHANGED <<blocks, pendingRes, performed, content, answerLen>>
              ELSE IF o = "cardErr" \/ ~selected \/ ~InSequence(b)
                   THEN class = "error" /\ CardRefuses
                   ELSE class # "error" /\ CardStores(b, sw, n)
           /\ excused' = (excused \/ o # "ok")
           /\ IF o \in {"ok", "cardErr"} THEN BlockSent(b, sw)
              ELSE SendFails /\ UNCHANGED <<offset, block_nr, block_len>>
  BY DEF send_es10x_block
<1> DEFINE sw == CASE class = "9000" -> Ok [] class = "61" -> More(n) [] OTHER -> CardError
<1>3. check_scard' \in BOOLEAN /\ excused' \in BOOLEAN
  BY <1>2 DEF Canary, TypeOK
<1>4. o \in {"ok", "lostReq", "lostRes", "noSw", "cardErr"} /\ (o = "ok" => link = "valid")
  BY DEF Outcomes, Faults
<1>5. SendFails /\ UNCHANGED <<offset, block_nr, block_len>> => Fails
  BY DEF SendFails, Return, Fails
<1>6. ASSUME ~Reaches(o) PROVE NotStored
  BY <1>2, <1>3, <1>5, <1>6 DEF Reaches, NotStored, CardKeeps
<1>7. ASSUME Reaches(o), o = "cardErr" \/ ~selected \/ ~InSequence(Block) PROVE Refused
  <2>1. class = "error" /\ CardRefuses
    BY <1>2, <1>7
  <2>2. sw = CardError /\ CardError # Ok /\ CardError.class = "error"
    BY <2>1 DEF CardError, Sw, Ok
  <2>3. Fails
    <3>1. CASE o \in {"ok", "cardErr"}
      BY <1>2, <2>2, <3>1 DEF BlockSent, RequestSent, Return, Fails
    <3>2. CASE o \notin {"ok", "cardErr"}
      BY <1>2, <1>5, <3>2
    <3> QED BY <3>1, <3>2
  <2>4. excused' \/ (~excused /\ o = "ok")
    BY <1>2, <1>3
  <2> QED BY <1>4, <1>7, <2>1, <2>3, <2>4 DEF CardRefuses, CardKeeps, Refused
<1>8. ASSUME Reaches(o), o # "cardErr", selected, InSequence(Block) PROVE Stored \/ PerformedIt(n)
  <2>1. class # "error" /\ CardStores(Block, sw, n)
    BY <1>2, <1>8
  <2>2. o = "ok" => BlockSent(Block, sw)
    BY <1>2
  <2>3. o # "ok" => Fails /\ excused'
    BY <1>2, <1>5, <1>8
  <2>4. o = "ok" => excused' = excused
    BY <1>2, <1>3 DEF TypeOK
  <2> HIDE DEF sw
  <2>5. ASSUME Block.last \/ sw.class = "61" PROVE PerformedIt(n)
    <3>1. /\ sw = IF n = 0 THEN Ok ELSE More(n)
          /\ InSequence(Block)
          /\ performed' = [performed EXCEPT ![call] = @ + 1]
          /\ content' = IF Block.last THEN [content EXCEPT ![call] = Collected(Block)] ELSE content
          /\ answerLen' = [answerLen EXCEPT ![call] = n]
          /\ pendingRes' = [of |-> call, from |-> 0, left |-> n] /\ blocks' = <<>>
      BY <1>1, <2>1, <2>5, NextBlock DEF CardStores
    <3>2. CASE o # "ok"
      BY <2>3, <3>1, <3>2 DEF PerformedIt
    <3>3. CASE o = "ok" /\ n = 0
      <4>1. sw = Ok /\ Block.last
        BY <2>5, <3>1, <3>3 DEF Ok, Sw
      <4>2. RequestSent(sw)
        BY <1>1, <2>2, <3>3, <4>1, NextBlock DEF BlockSent
      <4>3. pc' = "ready" /\ state' = [state EXCEPT ![call] = "answered"] /\ UNCHANGED <<offset, block_nr, block_len>>
        BY <4>1, <4>2 DEF RequestSent, Ok, Sw, Return
      <4> QED BY <2>4, <3>1, <3>3, <4>3 DEF PerformedIt
    <3>4. CASE o = "ok" /\ n # 0
      <4>1. sw = More(n) /\ n \in Nat \ {0}
        BY <3>1, <3>4
      <4>2. sw # Ok /\ sw.class = "61" /\ BlockLen(sw) = Announced(n)
        BY <4>1, MoreAnnounces
      <4>3. pc' = "receive" /\ block_len' = Announced(n) /\ UNCHANGED <<offset, block_nr, state>>
        BY <2>2, <3>4, <4>2 DEF BlockSent, RequestSent
      <4> QED BY <2>4, <3>1, <3>4, <4>1, <4>3 DEF PerformedIt
    <3> QED BY <3>2, <3>3, <3>4
  <2>6. ASSUME ~(Block.last \/ sw.class = "61") PROVE Stored
    <3>1. /\ sw = Ok /\ ~Block.last /\ InSequence(Block)
          /\ CardKeeps /\ blocks' = Collected(Block) /\ pendingRes' = NoRes
      BY <2>1, <2>6 DEF CardStores, CardKeeps
    <3>2. CASE o # "ok"
      BY <2>3, <3>1, <3>2 DEF Stored
    <3>3. CASE o = "ok"
      <4>1. IF TooMany(block_nr + 1)
            THEN Return("failed") /\ UNCHANGED <<offset, block_nr, block_len>>
            ELSE /\ offset' = offset + Block.len /\ block_nr' = block_nr + 1
                 /\ UNCHANGED <<pc, block_len, state>>
        BY <1>1, <2>2, <3>1, <3>3, NextBlock DEF BlockSent
      <4>2. Block.len = MaxBlockTx
        BY <1>1, <3>1, NextBlock
      <4>3. CASE TooMany(block_nr + 1)
        BY <3>1, <4>1, <4>3 DEF Return, Fails, Stored
      <4>4. CASE ~TooMany(block_nr + 1)
        BY <2>4, <3>1, <3>3, <4>1, <4>2, <4>4 DEF Stored
      <4> QED BY <4>3, <4>4
    <3> QED BY <3>2, <3>3
  <2> QED BY <2>5, <2>6
<1> QED BY <1>1, <1>3, <1>6, <1>7, <1>8

RecvLeaves ==
  UNCHANGED <<link, call, reqLen, offset, block_nr, channelOpen, selected, blocks, performed,
              content, answerLen, bounds>>

NotReceived ==
  /\ pc' = "ready" /\ state' = [state EXCEPT ![call] = "failed"]
  /\ excused' /\ UNCHANGED <<block_len, es10x_res>>
  /\ pendingRes' \in [of : Calls \cup {0}, from : Nat, left : Nat]

Received ==
  /\ pendingRes.of = call /\ Whole(es10x_res, call, pendingRes.from)
  /\ block_len \in 1..MaxBlockRx /\ block_len <= pendingRes.left
  /\ pendingRes.from + pendingRes.left = answerLen[call]
  /\ excused' = excused
  /\ es10x_res' = Append(es10x_res, [of |-> call, from |-> pendingRes.from, len |-> block_len])
  /\ \/ /\ pendingRes.left = block_len /\ pendingRes' = NoRes
        /\ pc' = "ready" /\ state' = [state EXCEPT ![call] = "answered"] /\ UNCHANGED block_len
     \/ /\ pendingRes.left > block_len
        /\ pendingRes' = [of |-> call, from |-> pendingRes.from + block_len, left |-> pendingRes.left - block_len]
        /\ block_len' = Announced(pendingRes.left - block_len) /\ UNCHANGED <<pc, state>>

LEMMA ReceiveCases ==
  ASSUME TypeOK, Progress, Receiving, recv_es10x_block
  PROVE  /\ pc = "receive" /\ call \in Calls /\ RecvLeaves /\ check_scard' \in BOOLEAN
         /\ excused' \in BOOLEAN
         /\ NotReceived \/ Received
<1> USE TransportAssumption
<1>1. pc = "receive" /\ RecvLeaves /\ call \in Calls
  BY DEF recv_es10x_block, RecvLeaves, Progress, Exchanging, TypeOK
<1> DEFINE le == Least(block_len, MaxBlockRx)
           got == CardGives(LeByte(le))
<1>2. PICK o \in Outcomes :
       /\ check_scard' = Canary(o)
       /\ pendingRes' = IF ~Reaches(o) THEN pendingRes
                        ELSE IF o = "cardErr" \/ got = 0 THEN NoRes ELSE Remaining(got)
       /\ excused' = (excused \/ o # "ok")
       /\ IF o # "ok" \/ ~LenExact(got, le)
          THEN ReceiveFails /\ UNCHANGED <<block_len, es10x_res>>
          ELSE /\ es10x_res' = Append(es10x_res, [of |-> pendingRes.of, from |-> pendingRes.from, len |-> got])
               /\ IF pendingRes'.left = 0 THEN Return("answered") /\ UNCHANGED block_len
                  ELSE block_len' = BlockLen(More(pendingRes'.left)) /\ UNCHANGED <<pc, state>>
  BY DEF recv_es10x_block
<1>3. check_scard' \in BOOLEAN /\ excused' \in BOOLEAN
  BY <1>2 DEF Canary, TypeOK
<1>4. pendingRes \in [of : Calls \cup {0}, from : Nat, left : Nat] /\ block_len \in 1..MaxBlockRx
  BY <1>1 DEF TypeOK, Receiving
<1>5. le \in 1..MaxBlockRx
  BY <1>4 DEF Least
<1>6. got \in Nat /\ got <= pendingRes.left
  BY <1>4, <1>5 DEF CardGives, LeByte
<1> HIDE DEF le, got
<1>7. pendingRes' \in [of : Calls \cup {0}, from : Nat, left : Nat]
  <2>1. NoRes \in [of : Calls \cup {0}, from : Nat, left : Nat]
    BY DEF NoRes
  <2>2. pendingRes.left - got \in Nat /\ pendingRes.from + got \in Nat
    BY <1>4, <1>6
  <2>3. Remaining(got) \in [of : Calls \cup {0}, from : Nat, left : Nat]
    BY <1>4, <2>1, <2>2 DEF Remaining
  <2> QED BY <1>2, <1>4, <2>1, <2>3
<1>8. ASSUME o # "ok" PROVE NotReceived
  BY <1>2, <1>3, <1>7, <1>8 DEF ReceiveFails, Return, NotReceived
<1>9. ASSUME o = "ok", pendingRes = NoRes, excused PROVE NotReceived
  <2>1. got = 0
    BY <1>6, <1>9 DEF NoRes
  <2>2. ~LenExact(got, le)
    BY <1>5, <2>1 DEF LenExact
  <2>3. excused'
    BY <1>2, <1>9
  <2> QED BY <1>2, <1>7, <2>2, <2>3 DEF ReceiveFails, Return, NotReceived
<1>10. ASSUME o = "ok", pendingRes.of = call, pendingRes.left > 0, Whole(es10x_res, call, pendingRes.from),
              pendingRes.from + pendingRes.left = answerLen[call], block_len = Announced(pendingRes.left)
       PROVE  Received
  <2>1. le = block_len /\ got = block_len /\ block_len <= pendingRes.left
    BY <1>10, AnnouncedGiven DEF le, got
  <2>2. LenExact(got, le) /\ Reaches(o) /\ got # 0
    BY <1>4, <1>10, <2>1 DEF LenExact, Reaches
  <2>3. /\ pendingRes' = Remaining(block_len) /\ excused' = excused
        /\ es10x_res' = Append(es10x_res, [of |-> call, from |-> pendingRes.from, len |-> block_len])
        /\ IF pendingRes'.left = 0 THEN Return("answered") /\ UNCHANGED block_len
           ELSE block_len' = BlockLen(More(pendingRes'.left)) /\ UNCHANGED <<pc, state>>
    BY <1>2, <1>3, <1>10, <2>1, <2>2 DEF TypeOK
  <2>4. CASE pendingRes.left = block_len
    <3>1. pendingRes' = NoRes /\ pendingRes'.left = 0
      BY <2>3, <2>4 DEF Remaining, NoRes
    <3> QED BY <1>4, <1>10, <2>1, <2>3, <2>4, <3>1 DEF Return, Received
  <2>5. CASE pendingRes.left # block_len
    <3>1. pendingRes' = [of |-> call, from |-> pendingRes.from + block_len, left |-> pendingRes.left - block_len]
      BY <1>4, <1>10, <2>3, <2>5 DEF Remaining
    <3>2. pendingRes.left - block_len \in Nat \ {0} /\ pendingRes.left > block_len
      BY <1>4, <2>1, <2>5
    <3>3. BlockLen(More(pendingRes.left - block_len)) = Announced(pendingRes.left - block_len)
      BY <3>2, MoreAnnounces
    <3> QED BY <1>4, <1>10, <2>1, <2>3, <3>1, <3>2, <3>3 DEF Received
  <2> QED BY <2>4, <2>5
<1> QED BY <1>1, <1>3, <1>8, <1>9, <1>10 DEF Receiving

-----------------------------------------------------------------------------
(* The inductive invariant *)

LEMMA ProgressStep ==
  ASSUME TypeOK, Progress, Sending, Receiving, [Next]_vars PROVE Progress'
<1> USE DEF Progress, Exchanging
<1>1. CASE Open \/ leave \/ ipa_free_ctx \/ OtherCommand \/ OtherReset \/ UNCHANGED vars
  <2>1. UNCHANGED <<call, state, performed, content>>
    BY <1>1 DEF Open, ipa_scard_init, send_termcap, manage_channel, select_isd_r, InitCommand, leave,
       ipa_free_ctx, OtherCommand, OtherReset, vars, ipadVars, exchangeVars, history
  <2>2. pc' \in Exchanging \/ pc \in Exchanging => pc' = pc
    BY <1>1 DEF Open, ipa_scard_init, send_termcap, manage_channel, select_isd_r, InitCommand, leave,
       ipa_free_ctx, OtherCommand, OtherReset, vars, ipadVars
  <2> QED BY <2>1, <2>2
<1>2. ASSUME NEW n \in ReqLens, ipa_euicc_transceive_es10x(n) PROVE Progress'
  BY <1>2 DEF ipa_euicc_transceive_es10x, TypeOK, Calls
<1>3. CASE send_es10x_block
  <2>1. pc = "send" /\ call' = call /\ call \in Calls
    BY <1>3, SendCases DEF SendLeaves, TypeOK
  <2>2. CASE NotStored \/ Refused
    BY <2>1, <2>2 DEF NotStored, Refused, Fails, CardKeeps, TypeOK, Calls
  <2>3. CASE Stored
    BY <2>1, <2>3 DEF Stored, Fails, CardKeeps, TypeOK, Calls
  <2>4. ASSUME NEW n \in ResLens, PerformedIt(n) PROVE Progress'
    <3>1. performed'[call] = 1 /\ \A c \in Calls : c # call => performed'[c] = performed[c]
      BY <2>1, <2>4 DEF PerformedIt, TypeOK
    <3>2. \A c \in Calls : c # call => content'[c] = content[c]
      BY <2>1, <2>4 DEF PerformedIt, TypeOK
    <3>3. \/ pc' = "receive" /\ state' = state
          \/ pc' = "ready" /\ (state' = [state EXCEPT ![call] = "failed"] \/ state' = [state EXCEPT ![call] = "answered"])
      BY <2>1, <2>4 DEF PerformedIt, Fails
    <3> QED BY <2>1, <3>1, <3>2, <3>3 DEF TypeOK, Calls
  <2> QED BY <1>3, <2>2, <2>3, <2>4, SendCases
<1>4. CASE recv_es10x_block
  <2>1. pc = "receive" /\ call \in Calls /\ UNCHANGED <<call, performed, content>>
    BY <1>4, ReceiveCases DEF RecvLeaves
  <2>2. \/ pc' = pc /\ state' = state
        \/ pc' = "ready" /\ (state' = [state EXCEPT ![call] = "failed"] \/ state' = [state EXCEPT ![call] = "answered"])
    BY <1>4, ReceiveCases DEF NotReceived, Received
  <2> QED BY <2>1, <2>2 DEF TypeOK, Calls
<1>5. CASE Crash
  BY <1>5 DEF Crash, exchangeVars, TypeOK, Calls
<1> QED BY <1>1, <1>2, <1>3, <1>4, <1>5 DEF Next, Request, Exchange

(* A block that continues those the card has collected leaves them full and in
   sequence; what came between two blocks has emptied the collection.          *)
LEMMA SendingStep ==
  ASSUME TypeOK, Progress, Sending, Receiving, [Next]_vars PROVE Sending'
<1> USE TransportAssumption
<1> DEFINE Full(s) == \A k \in 1..Len(s) :
             s[k].nr = k - 1 /\ s[k].from = (k - 1) * MaxBlockTx /\ s[k].len = MaxBlockTx
<1>0. Full(<<>>) /\ Full(blocks)
  BY DEF Sending
<1>1. CASE Open \/ leave \/ ipa_free_ctx \/ OtherCommand \/ UNCHANGED vars
  <2>1. blocks' \in {blocks, <<>>}
    BY <1>1 DEF Open, ipa_scard_init, send_termcap, manage_channel, select_isd_r, InitCommand, leave,
       ipa_free_ctx, OtherCommand, vars, cardVars
  <2>2. pc' = "send" =>
          /\ pc = "send" /\ UNCHANGED <<offset, block_nr, reqLen, es10x_res, call, blocks>>
          /\ (excused' = excused \/ excused' = TRUE)
    BY <1>1 DEF Open, ipa_scard_init, send_termcap, manage_channel, select_isd_r, InitCommand, leave,
       ipa_free_ctx, OtherCommand, vars, cardVars, ipadVars, history, exchangeVars
  <2> QED BY <1>0, <2>1, <2>2 DEF Sending
<1>2. ASSUME NEW n \in ReqLens, ipa_euicc_transceive_es10x(n) PROVE Sending'
  <2>1. UNCHANGED blocks /\ offset' = 0 /\ block_nr' = 0 /\ reqLen' = n /\ es10x_res' = <<>>
    BY <1>2 DEF ipa_euicc_transceive_es10x, cardVars
  <2>2. 0 = 0 * MaxBlockTx /\ 0 < n
    OBVIOUS
  <2> QED BY <1>0, <2>1, <2>2 DEF Sending
<1>3. CASE send_es10x_block
  <2>1. pc = "send" /\ SendLeaves
    BY <1>3, SendCases
  <2>2. CASE NotStored
    BY <1>0, <2>2 DEF NotStored, Fails, Sending
  <2>3. CASE Refused \/ \E n \in ResLens : PerformedIt(n)
    BY <1>0, <2>3 DEF Refused, PerformedIt, Fails, Sending
  <2>4. CASE Stored
    <3>1. /\ Block.of = call /\ Block.from = offset /\ Block.nr = block_nr /\ Block.len = MaxBlockTx
          /\ offset = block_nr * MaxBlockTx /\ reqLen > offset + MaxBlockTx
      BY <2>1, <2>4, NextBlock DEF Stored
    <3>2. blocks \in Seq(BlockType) /\ block_nr \in Nat
      BY DEF TypeOK
    <3>3. /\ Len(blocks') = block_nr + 1 /\ Full(blocks')
          /\ \A k \in 1..Len(blocks') : blocks'[k].of = call
      <4>1. CASE block_nr = 0
        <5>1. blocks' = <<Block>> /\ 0 * MaxBlockTx = 0
          BY <2>4, <3>1, <4>1 DEF Stored, Collected
        <5> QED BY <3>1, <4>1, <5>1
      <4>2. CASE block_nr # 0
        <5>1. blocks' = Append(blocks, Block) /\ blocks # <<>>
          BY <2>4, <3>1, <4>2 DEF Stored, Collected, InSequence
        <5>2. Len(blocks) = block_nr /\ \A k \in 1..Len(blocks) : blocks[k].of = call
          BY <2>1, <3>2, <4>2, <5>1 DEF Sending
        <5>3. /\ Len(blocks') = Len(blocks) + 1 /\ blocks'[Len(blocks) + 1] = Block
              /\ \A k \in 1..Len(blocks) : blocks'[k] = blocks[k]
          BY <3>2, <5>1
        <5>4. ASSUME NEW k \in 1..Len(blocks')
              PROVE  /\ blocks'[k].nr = k - 1 /\ blocks'[k].from = (k - 1) * MaxBlockTx
                     /\ blocks'[k].len = MaxBlockTx /\ blocks'[k].of = call
          <6>1. CASE k \in 1..Len(blocks)
            BY <1>0, <5>2, <5>3, <6>1
          <6>2. CASE k = block_nr + 1
            BY <3>1, <3>2, <5>2, <5>3, <6>2
          <6> QED BY <3>2, <5>2, <5>3, <6>1, <6>2
        <5> QED BY <5>2, <5>3, <5>4
      <4> QED BY <4>1, <4>2
    <3>4. CASE Fails
      BY <3>3, <3>4 DEF Fails, Sending
    <3>5. CASE ~Fails
      <4>1. offset' = offset + MaxBlockTx /\ block_nr' = block_nr + 1 /\ UNCHANGED <<call, reqLen, es10x_res>>
        BY <2>1, <2>4, <3>5 DEF Stored, SendLeaves
      <4>2. offset' = block_nr' * MaxBlockTx /\ offset' < reqLen'
        <5>1. (block_nr + 1) * MaxBlockTx = block_nr * MaxBlockTx + MaxBlockTx
          BY <3>2
        <5> QED BY <3>1, <4>1, <5>1
      <4> QED BY <2>1, <3>3, <4>1, <4>2 DEF Sending
    <3> QED BY <3>4, <3>5
  <2> QED BY <1>3, <2>2, <2>3, <2>4, SendCases
<1>4. CASE recv_es10x_block
  <2>1. pc' # "send" /\ blocks' = blocks
    BY <1>4, ReceiveCases DEF RecvLeaves, NotReceived, Received
  <2> QED BY <1>0, <2>1 DEF Sending
<1>5. CASE Crash
  <2>1. pc' # "send" /\ blocks' \in {blocks, <<>>}
    BY <1>5 DEF Crash, cardVars
  <2> QED BY <1>0, <2>1 DEF Sending
<1>6. CASE OtherReset
  <2>1. blocks' = <<>> /\ excused' = TRUE /\ UNCHANGED <<pc, offset, block_nr, reqLen, es10x_res>>
    BY <1>6 DEF OtherReset, exchangeVars
  <2> QED BY <1>0, <2>1 DEF Sending
<1> QED BY <1>1, <1>2, <1>3, <1>4, <1>5, <1>6 DEF Next, Request, Exchange

(* The chunks received follow one another up to what the card still holds. *)
LEMMA ReceivingStep ==
  ASSUME TypeOK, Progress, Sending, Receiving, [Next]_vars PROVE Receiving'
<1> USE TransportAssumption
<1>1. CASE Open \/ leave \/ ipa_free_ctx \/ Crash \/ Request
  <2>1. pc' = "receive" => pc = "receive" /\ UNCHANGED <<call, block_len, es10x_res, pendingRes, answerLen, excused>>
    BY <1>1 DEF Open, ipa_scard_init, send_termcap, manage_channel, select_isd_r, InitCommand, leave,
       ipa_free_ctx, Crash, Request, ipa_euicc_transceive_es10x
  <2> QED BY <2>1 DEF Receiving, Whole
<1>2. CASE send_es10x_block
  <2>1. SUFFICES ASSUME pc' = "receive" PROVE Receiving'
    BY DEF Receiving
  <2>2. PICK n \in ResLens : PerformedIt(n)
    BY <1>2, <2>1, SendCases DEF NotStored, Refused, Stored, Fails
  <2>3. pc = "send" /\ es10x_res = <<>> /\ es10x_res' = es10x_res /\ call' = call /\ call \in Calls
    BY <1>2, SendCases DEF SendLeaves, Sending, Progress, Exchanging, TypeOK
  <2>4. /\ n \in Nat \ {0} /\ block_len' = Announced(n)
        /\ pendingRes' = [of |-> call, from |-> 0, left |-> n] /\ answerLen' = [answerLen EXCEPT ![call] = n]
    <3>1. n > 0 /\ block_len' = Announced(n)
      BY <2>1, <2>2 DEF PerformedIt, Fails
    <3>2. n \in Nat
      OBVIOUS
    <3>3. n \in Nat \ {0}
      BY <3>1, <3>2
    <3>4. pendingRes' = [of |-> call, from |-> 0, left |-> n] /\ answerLen' = [answerLen EXCEPT ![call] = n]
      BY <2>2 DEF PerformedIt
    <3> QED BY <3>1, <3>3, <3>4
  <2>5. block_len' \in 1..MaxBlockRx /\ Announced(pendingRes'.left) = block_len'
    BY <2>4 DEF Announced
  <2>6. answerLen'[call'] = n /\ Whole(es10x_res', call', 0)
    BY <2>3, <2>4, NothingWhole DEF TypeOK
  <2>7. pendingRes'.of = call' /\ pendingRes'.left = n /\ pendingRes'.from = 0
    BY <2>3, <2>4
  <2>8. Whole(es10x_res', call', pendingRes'.from) /\ pendingRes'.from + pendingRes'.left = answerLen'[call']
    BY <2>4, <2>6, <2>7
  <2> QED BY <2>4, <2>5, <2>7, <2>8 DEF Receiving, Whole, Announced
<1>3. CASE recv_es10x_block
  <2>1. SUFFICES ASSUME pc' = "receive" PROVE Receiving'
    BY DEF Receiving
  <2>2. Received /\ call \in Calls /\ RecvLeaves
    BY <1>3, <2>1, ReceiveCases DEF NotReceived
  <2> DEFINE left == pendingRes.left - block_len
             from == pendingRes.from + block_len
             chunk == [of |-> call, from |-> pendingRes.from, len |-> block_len]
  <2>3. /\ pendingRes' = [of |-> call, from |-> from, left |-> left] /\ block_len' = Announced(left)
        /\ pendingRes.left > block_len /\ es10x_res' = Append(es10x_res, chunk)
        /\ Whole(es10x_res, call, pendingRes.from)
    BY <2>1, <2>2 DEF Received
  <2>4. /\ pendingRes.left \in Nat /\ pendingRes.from \in Nat /\ block_len \in Nat
        /\ es10x_res \in Seq(ChunkType) /\ answerLen[call] \in Nat
    BY <2>2 DEF TypeOK
  <2>5. Whole(es10x_res', call, from)
    BY <2>3, <2>4, WholeAppended
  <2>6. left \in Nat \ {0} /\ from + left = answerLen[call] /\ Announced(left) \in 1..MaxBlockRx
    <3>1. pendingRes.from + pendingRes.left = answerLen[call]
      BY <2>2 DEF Received
    <3>2. left \in Nat \ {0} /\ from + left = answerLen[call]
      <4>1. pendingRes.left > block_len
        BY <2>3
      <4> QED BY <2>4, <3>1, <4>1
    <3> HIDE DEF left
    <3>3. Announced(left) \in 1..MaxBlockRx
      BY <3>2 DEF Announced
    <3> QED BY <3>2, <3>3
  <2>7. call' = call /\ answerLen' = answerLen
    BY <2>2 DEF RecvLeaves
  <2>8. /\ pendingRes'.of = call' /\ pendingRes'.left = left /\ pendingRes'.from = from
        /\ Announced(pendingRes'.left) = Announced(left)
    BY <2>3, <2>7
  <2> HIDE DEF left, from
  <2>9. Whole(es10x_res', call', pendingRes'.from) /\ pendingRes'.from + pendingRes'.left = answerLen'[call']
    BY <2>5, <2>6, <2>7, <2>8
  <2>10. block_len' \in 1..MaxBlockRx /\ block_len' = Announced(pendingRes'.left) /\ pendingRes'.left > 0
    BY <2>3, <2>6, <2>8
  <2>11. pendingRes'.of = call'
    BY <2>8
  <2> QED BY <2>9, <2>10, <2>11 DEF Receiving, Whole, Announced
<1>4. CASE OtherCommand \/ OtherReset
  BY <1>4 DEF OtherCommand, OtherReset, Receiving, ipadVars, exchangeVars, Whole
<1>5. CASE UNCHANGED vars
  BY <1>5 DEF vars, ipadVars, cardVars, history, Receiving, Whole
<1> QED BY <1>1, <1>2, <1>3, <1>4, <1>5 DEF Next, Exchange

(* What the card puts together at the last block is the request. *)
LEMMA CollectedWhole ==
  ASSUME TypeOK, Progress, Sending, pc = "send", InSequence(Block)
  PROVE  /\ Collected(Block) \in Seq(BlockType) /\ Collected(Block) # <<>>
         /\ Block.last => Whole(Collected(Block), call, reqLen)
<1> USE TransportAssumption
<1>1. /\ Block \in BlockType /\ Block.of = call /\ Block.from = offset /\ Block.nr = block_nr
      /\ Block.last => offset + Block.len = reqLen
      /\ offset = block_nr * MaxBlockTx /\ offset \in Nat
  BY NextBlock
<1>2. blocks \in Seq(BlockType) /\ block_nr \in Nat
  BY DEF TypeOK
<1>3. CASE block_nr = 0
  <2>1. Collected(Block) = Append(<<>>, Block) /\ offset = 0
    BY <1>1, <1>3 DEF Collected
  <2>2. Whole(Append(<<>>, Block), call, 0 + Block.len) /\ <<>> \in Seq(BlockType)
    <3>1. <<>> \in Seq(BlockType)
      OBVIOUS
    <3> QED BY <1>1, <2>1, <3>1, NothingWhole, WholeAppended
  <2>3. Block.len \in Nat
    BY <1>1 DEF BlockType
  <2>4. Append(<<>>, Block) \in Seq(BlockType) /\ Append(<<>>, Block) # <<>>
    BY <1>1, <2>2
  <2>5. Block.last => 0 + Block.len = reqLen
    BY <1>1, <2>1, <2>3
  <2> QED BY <2>1, <2>2, <2>4, <2>5
<1>4. CASE block_nr # 0
  <2>1. Collected(Block) = Append(blocks, Block) /\ blocks # <<>>
    BY <1>1, <1>4 DEF Collected, InSequence
  <2>2. Len(blocks) = block_nr /\ \A k \in 1..Len(blocks) : blocks[k].of = call
    BY <1>2, <1>4, <2>1 DEF Sending
  <2>3. \A k \in 1..Len(blocks) : blocks[k].from = (k - 1) * MaxBlockTx /\ blocks[k].len = MaxBlockTx
    BY DEF Sending
  <2>4. \A k \in Nat : (k + 1) * MaxBlockTx = k * MaxBlockTx + MaxBlockTx
    OBVIOUS
  <2>5. ASSUME NEW k \in 1..Len(blocks)
        PROVE  /\ blocks[k].of = call
               /\ blocks[k].from = IF k = 1 THEN 0 ELSE blocks[k - 1].from + blocks[k - 1].len
    <3>1. CASE k = 1
      BY <2>2, <2>3, <3>1
    <3>2. CASE k # 1
      <4>1. k - 1 \in 1..Len(blocks) /\ k - 2 \in Nat /\ (k - 2) + 1 = k - 1 /\ (k - 1) - 1 = k - 2
        BY <1>2, <2>2, <3>2
      <4>2. blocks[k - 1].from = (k - 2) * MaxBlockTx /\ blocks[k - 1].len = MaxBlockTx
        BY <2>3, <4>1
      <4>3. (k - 1) * MaxBlockTx = (k - 2) * MaxBlockTx + MaxBlockTx
        BY <2>4, <4>1
      <4>4. blocks[k].from = (k - 1) * MaxBlockTx
        BY <2>3
      <4> QED BY <2>2, <3>2, <4>2, <4>3, <4>4
    <3> QED BY <3>1, <3>2
  <2>6. offset = blocks[Len(blocks)].from + blocks[Len(blocks)].len
    <3>1. Len(blocks) \in 1..Len(blocks) /\ Len(blocks) - 1 \in Nat /\ (Len(blocks) - 1) + 1 = Len(blocks)
      BY <1>2, <1>4, <2>2
    <3>2. Len(blocks) * MaxBlockTx = (Len(blocks) - 1) * MaxBlockTx + MaxBlockTx
      BY <2>4, <3>1
    <3> QED BY <1>1, <2>2, <2>3, <3>1, <3>2
  <2>7. Whole(blocks, call, offset)
    <3>1. DOMAIN blocks = 1..Len(blocks)
      BY <1>2
    <3> QED BY <2>1, <2>5, <2>6, <3>1 DEF Whole
  <2>8. Whole(Append(blocks, Block), call, offset + Block.len)
    BY <1>1, <1>2, <2>7, WholeAppended
  <2>9. Append(blocks, Block) \in Seq(BlockType) /\ Append(blocks, Block) # <<>>
    BY <1>1, <1>2
  <2> QED BY <1>1, <2>1, <2>8, <2>9
<1> QED BY <1>3, <1>4

(* Every action keeps the types. *)
LEMMA TypeStep ==
  ASSUME TypeOK, Progress, Sending, Receiving, [Next]_vars PROVE TypeOK'
<1> USE TransportAssumption
<1>0. NoRes \in [of : Calls \cup {0}, from : Nat, left : Nat] /\ <<>> \in Seq(BlockType) /\ <<>> \in Seq(ChunkType)
  BY DEF NoRes
<1>1. CASE ipa_scard_init \/ leave \/ ipa_free_ctx
  BY <1>0, <1>1 DEF TypeOK, PcsInit, ipa_scard_init, leave, ipa_free_ctx, exchangeVars, cardVars, history, bounds
<1>2. CASE send_termcap \/ manage_channel \/ select_isd_r
  <2>1. ASSUME NEW from \in PcsInit, NEW to \in {"open", "select", "ready"}, NEW Agrees \in BOOLEAN,
               InitCommand(from, to, Agrees)
        PROVE  TypeOK'
    <3>1. /\ check_scard' \in BOOLEAN /\ channelOpen' \in BOOLEAN /\ selected' \in BOOLEAN
          /\ pc' \in {to, "leave"} /\ pendingRes' \in {pendingRes, NoRes}
      BY <2>1 DEF InitCommand, Canary, TypeOK
    <3>2. UNCHANGED <<link, exchangeVars, blocks, history, bounds>>
      BY <2>1 DEF InitCommand
    <3> QED BY <1>0, <3>1, <3>2 DEF TypeOK, PcsInit, exchangeVars, history, bounds
  <2>2. CASE send_termcap
    BY <2>1, <2>2 DEF send_termcap, PcsInit
  <2>3. CASE manage_channel
    <3>1. CASE euicc_channel # 0 /\ InitCommand("open", "select", ~channelOpen)
      BY <2>1, <3>1 DEF PcsInit
    <3>2. CASE ~(euicc_channel # 0 /\ InitCommand("open", "select", ~channelOpen))
      BY <2>3, <3>2 DEF manage_channel, TypeOK, PcsInit, exchangeVars, cardVars, history, bounds
    <3> QED BY <3>1, <3>2
  <2>4. CASE select_isd_r
    <3>1. channelOpen \in BOOLEAN
      BY DEF TypeOK
    <3> QED BY <2>1, <2>4, <3>1 DEF select_isd_r, PcsInit
  <2> QED BY <1>2, <2>2, <2>3, <2>4
<1>3. ASSUME NEW n \in ReqLens, ipa_euicc_transceive_es10x(n) PROVE TypeOK'
  <2>1. /\ offset' \in Nat /\ block_nr' \in 0..(MaxBlocks - 1) /\ block_len' \in 0..MaxBlockRx
        /\ call' \in Calls /\ reqLen' \in ReqLens \cup {0} /\ es10x_res' = <<>> /\ pc' = "send"
        /\ excused' \in BOOLEAN
    <3>1. offset' = 0 /\ block_nr' = 0 /\ block_len' = 0 /\ call' \in Calls /\ reqLen' = n
      BY <1>3 DEF ipa_euicc_transceive_es10x
    <3>2. es10x_res' = <<>> /\ pc' = "send" /\ excused' = FALSE
      BY <1>3 DEF ipa_euicc_transceive_es10x
    <3>3. 0 \in Nat /\ 0 \in 0..(MaxBlocks - 1) /\ 0 \in 0..MaxBlockRx
      OBVIOUS
    <3> QED BY <3>1, <3>2, <3>3
  <2>2. state' \in [Calls -> {"new", "open", "answered", "failed"}]
    BY <1>3, <2>1 DEF ipa_euicc_transceive_es10x, TypeOK
  <2>3. UNCHANGED <<link, check_scard, cardVars, performed, content, answerLen, bounds>>
    BY <1>3 DEF ipa_euicc_transceive_es10x
  <2> QED BY <1>0, <2>1, <2>2, <2>3 DEF TypeOK, cardVars, bounds
<1>4. CASE send_es10x_block
  <2>1. /\ pc = "send" /\ SendLeaves /\ check_scard' \in BOOLEAN /\ excused' \in BOOLEAN
        /\ NotStored \/ Refused \/ Stored \/ \E n \in ResLens : PerformedIt(n)
    BY <1>4, SendCases
  <2>2. call \in Calls /\ (InSequence(Block) => Collected(Block) \in Seq(BlockType))
    BY <2>1, NextBlock, CollectedWhole
  <2>3. CASE NotStored \/ Refused
    BY <1>0, <2>1, <2>2, <2>3 DEF NotStored, Refused, Fails, CardKeeps, SendLeaves, TypeOK, bounds
  <2>4. CASE Stored
    <3>1. blocks' \in Seq(BlockType) /\ pendingRes' = NoRes /\ UNCHANGED <<performed, content, answerLen>>
      BY <2>2, <2>4 DEF Stored, CardKeeps
    <3>2. offset' \in Nat /\ block_nr' \in 0..(MaxBlocks - 1) /\ block_len' = block_len
      BY SMTT(30), <2>4 DEF Stored, Fails, TypeOK, TooMany
    <3>3. pc' \in {"ready", "send"} /\ state' \in [Calls -> {"new", "open", "answered", "failed"}]
      BY <2>1, <2>4 DEF Stored, Fails, TypeOK
    <3> QED BY <1>0, <2>1, <3>1, <3>2, <3>3 DEF SendLeaves, TypeOK, bounds
  <2>5. ASSUME NEW n \in ResLens, PerformedIt(n) PROVE TypeOK'
    <3>1. /\ performed' = [performed EXCEPT ![call] = @ + 1] /\ answerLen' = [answerLen EXCEPT ![call] = n]
          /\ content' = IF Block.last THEN [content EXCEPT ![call] = Collected(Block)] ELSE content
          /\ pendingRes' = [of |-> call, from |-> 0, left |-> n] /\ blocks' = <<>>
          /\ Collected(Block) \in Seq(BlockType)
      BY <2>2, <2>5 DEF PerformedIt
    <3>2. performed' \in [Calls -> Nat]
      BY <2>2, <3>1 DEF TypeOK
    <3>3. answerLen' \in [Calls -> Nat]
      BY <2>2, <3>1 DEF TypeOK
    <3>4. content' \in [Calls -> Seq(BlockType)]
      BY <2>2, <3>1 DEF TypeOK
    <3>5. pendingRes' \in [of : Calls \cup {0}, from : Nat, left : Nat] /\ blocks' \in Seq(BlockType)
      BY <1>0, <2>2, <3>1
    <3>6. /\ pc' \in {"ready", "receive"} /\ UNCHANGED <<offset, block_nr>>
          /\ state' \in [Calls -> {"new", "open", "answered", "failed"}]
      BY <2>2, <2>5 DEF PerformedIt, Fails, TypeOK
    <3>7. block_len' \in 0..MaxBlockRx
      <4>1. block_len' = block_len \/ block_len' = Announced(n)
        BY <2>5 DEF PerformedIt, Fails
      <4>2. Announced(n) \in 0..MaxBlockRx
        BY DEF Announced
      <4> QED BY <4>1, <4>2 DEF TypeOK
    <3> QED BY <2>1, <3>2, <3>3, <3>4, <3>5, <3>6, <3>7 DEF SendLeaves, TypeOK, bounds
  <2> QED BY <2>1, <2>3, <2>4, <2>5
<1>5. CASE recv_es10x_block
  <2>1. /\ pc = "receive" /\ call \in Calls /\ RecvLeaves /\ check_scard' \in BOOLEAN /\ excused' \in BOOLEAN
        /\ NotReceived \/ Received
    BY <1>5, ReceiveCases
  <2>2. CASE NotReceived
    BY <2>1, <2>2 DEF NotReceived, RecvLeaves, TypeOK, bounds
  <2>3. CASE Received
    <3>1. pendingRes.from \in Nat /\ pendingRes.left \in Nat /\ block_len \in Nat /\ block_len <= pendingRes.left
      BY <2>3 DEF Received, TypeOK
    <3>2. es10x_res' \in Seq(ChunkType)
      <4>1. [of |-> call, from |-> pendingRes.from, len |-> block_len] \in ChunkType
        BY <2>1, <3>1 DEF ChunkType
      <4>2. es10x_res' = Append(es10x_res, [of |-> call, from |-> pendingRes.from, len |-> block_len])
        BY <2>3 DEF Received
      <4> QED BY <4>1, <4>2 DEF TypeOK
    <3>3. pendingRes' \in [of : Calls \cup {0}, from : Nat, left : Nat]
      BY <1>0, <2>1, <2>3, <3>1 DEF Received
    <3>4. block_len' \in 0..MaxBlockRx
      <4>1. pendingRes.left - block_len \in Nat
        BY <3>1
      <4>2. Announced(pendingRes.left - block_len) \in 0..MaxBlockRx
        BY <4>1 DEF Announced
      <4> QED BY <2>3, <4>2 DEF Received, TypeOK
    <3>5. pc' \in {"ready", "receive"} /\ state' \in [Calls -> {"new", "open", "answered", "failed"}]
      BY <2>1, <2>3 DEF Received, TypeOK
    <3> QED BY <2>1, <3>2, <3>3, <3>4, <3>5 DEF RecvLeaves, TypeOK, bounds
  <2> QED BY <2>1, <2>2, <2>3
<1>6. CASE Crash
  <2>1. state' \in [Calls -> {"new", "open", "answered", "failed"}] /\ crashes' \in 0..MaxCrashes
    BY <1>6 DEF Crash, TypeOK
  <2> QED BY <1>0, <1>6, <2>1 DEF Crash, TypeOK, exchangeVars, cardVars
<1>7. CASE OtherCommand
  BY SMTT(30), <1>0, <1>7 DEF OtherCommand, TypeOK, ipadVars, bounds
<1>8. CASE OtherReset
  <2>1. /\ link' = "stale" /\ channelOpen' \in BOOLEAN /\ selected' \in BOOLEAN /\ blocks' = <<>>
        /\ pendingRes' = NoRes /\ excused' \in BOOLEAN
    BY <1>8 DEF OtherReset
  <2>2. resets' \in 0..MaxResets
    BY <1>8 DEF OtherReset, TypeOK
  <2>3. UNCHANGED <<pc, exchangeVars, check_scard, state, performed, content, answerLen, euicc_channel, crashes>>
    BY <1>8 DEF OtherReset
  <2> QED BY <1>0, <2>1, <2>2, <2>3 DEF TypeOK, exchangeVars
<1>9. CASE UNCHANGED vars
  BY <1>9 DEF vars, TypeOK, ipadVars, cardVars, history, bounds
<1> QED BY <1>1, <1>2, <1>3, <1>4, <1>5, <1>6, <1>7, <1>8, <1>9 DEF Next, Open, Request, Exchange

(* A response is handed up with its last chunk, and nobody touches it after that. *)
LEMMA AnsweredStep ==
  ASSUME TypeOK, Progress, Sending, Receiving, Answered, [Next]_vars PROVE Answered'
<1>1. CASE UNCHANGED <<call, state, es10x_res, answerLen>>
  BY <1>1 DEF Answered, Whole
<1>2. ASSUME NEW n \in ReqLens, ipa_euicc_transceive_es10x(n) PROVE Answered'
  <2>1. state'[call'] # "answered"
    BY <1>2 DEF ipa_euicc_transceive_es10x, TypeOK
  <2> QED BY <2>1 DEF Answered
<1>3. CASE send_es10x_block
  <2>1. pc = "send" /\ call \in Calls /\ call' = call /\ es10x_res' = <<>> /\ state[call] = "open"
    BY <1>3, SendCases DEF SendLeaves, Sending, Progress, Exchanging, TypeOK
  <2>2. SUFFICES ASSUME state'[call'] = "answered" PROVE Answered'
    BY DEF Answered
  <2>3. answerLen'[call] = 0
    <3>1. PICK n \in ResLens : PerformedIt(n)
      BY <1>3, <2>1, <2>2, SendCases DEF NotStored, Refused, Stored, Fails, TypeOK
    <3>2. n = 0 /\ answerLen' = [answerLen EXCEPT ![call] = n]
      BY <2>1, <2>2, <3>1 DEF PerformedIt, Fails, TypeOK
    <3> QED BY <2>1, <3>2 DEF TypeOK
  <2>4. Whole(es10x_res', call', answerLen'[call'])
    BY <2>1, <2>3, NothingWhole
  <2> QED BY <2>4 DEF Answered, Whole
<1>4. CASE recv_es10x_block
  <2>1. pc = "receive" /\ call \in Calls /\ call' = call /\ answerLen' = answerLen /\ state[call] = "open"
    BY <1>4, ReceiveCases DEF RecvLeaves, Progress, Exchanging
  <2>2. SUFFICES ASSUME state'[call'] = "answered" PROVE Answered'
    BY DEF Answered
  <2>3. Received
    BY <1>4, <2>1, <2>2, ReceiveCases DEF NotReceived, TypeOK
  <2> DEFINE chunk == [of |-> call, from |-> pendingRes.from, len |-> block_len]
  <2>4. /\ Whole(es10x_res, call, pendingRes.from) /\ es10x_res' = Append(es10x_res, chunk)
        /\ pendingRes.from + pendingRes.left = answerLen[call] /\ pendingRes.left = block_len
    BY <2>1, <2>2, <2>3 DEF Received
  <2>5. es10x_res \in Seq(ChunkType)
    BY DEF TypeOK
  <2>6. Whole(es10x_res', call, pendingRes.from + block_len)
    BY <2>4, <2>5, WholeAppended
  <2>7. Whole(es10x_res', call', answerLen'[call'])
    BY <2>1, <2>4, <2>6
  <2> QED BY <2>7 DEF Answered, Whole
<1>5. CASE Crash
  <2>1. UNCHANGED <<call, es10x_res, answerLen>>
    BY <1>5 DEF Crash, exchangeVars
  <2>2. call # 0 /\ state'[call] = "answered" => state[call] = "answered"
    BY <1>5 DEF Crash, TypeOK
  <2> QED BY <2>1, <2>2 DEF Answered, Whole
<1> QED BY <1>1, <1>2, <1>3, <1>4, <1>5
        DEF Next, Open, Request, Exchange, ipa_scard_init, send_termcap, manage_channel, select_isd_r,
            InitCommand, leave, ipa_free_ctx, OtherCommand, OtherReset, vars, ipadVars, exchangeVars, history

(* A handle that is valid has seen the selection and no reset since. *)
LEMMA LinkedStep == ASSUME TypeOK, Linked, [Next]_vars PROVE Linked'
<1> USE DEF Linked, Exchanging
<1>1. CASE ipa_scard_init \/ leave \/ ipa_free_ctx \/ Crash \/ OtherReset
  BY <1>1 DEF ipa_scard_init, leave, ipa_free_ctx, Crash, OtherReset, cardVars
<1>2. CASE send_termcap \/ manage_channel
  BY <1>2 DEF send_termcap, manage_channel, InitCommand
<1>3. CASE select_isd_r
  BY <1>3 DEF select_isd_r, InitCommand, Reaches
<1>4. CASE Request \/ OtherCommand \/ UNCHANGED vars
  BY <1>4 DEF Request, ipa_euicc_transceive_es10x, OtherCommand, vars, ipadVars, cardVars
<1>5. CASE Exchange
  BY <1>5 DEF Exchange, send_es10x_block, recv_es10x_block
<1> QED BY <1>1, <1>2, <1>3, <1>4, <1>5 DEF Next, Open

(* A step that changes neither the request in hand nor what became of it. *)
LEMMA ContentKept ==
  ASSUME TypeOK, Progress, [Next]_vars, ~send_es10x_block
  PROVE  /\ content' = content
         /\ \/ UNCHANGED <<call, reqLen>>
            \/ call' \in Calls /\ content'[call'] = <<>> /\ state'[call'] = "open"
<1>1. ASSUME NEW n \in ReqLens, ipa_euicc_transceive_es10x(n)
      PROVE  content' = content /\ call' \in Calls /\ content'[call'] = <<>> /\ state'[call'] = "open"
  BY <1>1 DEF ipa_euicc_transceive_es10x, Progress, TypeOK, Calls
<1> QED BY <1>1 DEF Next, Open, Request, Exchange, ipa_scard_init, send_termcap, manage_channel, select_isd_r,
         InitCommand, recv_es10x_block, leave, ipa_free_ctx, Crash, OtherCommand, OtherReset, vars, ipadVars,
         exchangeVars, history

LEMMA PerformedStep ==
  ASSUME TypeOK, Progress, Sending, Receiving, PerformedWhole, [Next]_vars PROVE PerformedWhole'
<1>1. CASE ~send_es10x_block
  BY <1>1, ContentKept DEF PerformedWhole, Whole
<1>2. CASE send_es10x_block
  <2>1. pc = "send" /\ call \in Calls /\ UNCHANGED <<call, reqLen>> /\ content[call] = <<>>
    BY <1>2, SendCases DEF SendLeaves, Progress, Exchanging, TypeOK
  <2>2. SUFFICES ASSUME content'[call'] # <<>> PROVE PerformedWhole'
    BY DEF PerformedWhole
  <2>3. PICK n \in ResLens : PerformedIt(n)
    BY <1>2, <2>1, <2>2, SendCases DEF NotStored, Refused, Stored, CardKeeps
  <2>4. Block.last /\ content' = [content EXCEPT ![call] = Collected(Block)] /\ InSequence(Block)
    BY <2>1, <2>2, <2>3 DEF PerformedIt
  <2>5. Whole(Collected(Block), call, reqLen)
    BY <2>1, <2>4, CollectedWhole
  <2>6. Whole(content'[call'], call', reqLen')
    BY <2>1, <2>4, <2>5 DEF TypeOK
  <2> QED BY <2>6 DEF PerformedWhole, Whole
<1> QED BY <1>1, <1>2

(* Unless excused, an exchange fails only before a block too many. *)
LEMMA LimitStep ==
  ASSUME TypeOK, Progress, Sending, Receiving, Linked, LimitExact, [Next]_vars PROVE LimitExact'
<1> USE TransportAssumption
<1>1. CASE send_es10x_block
  <2>1. /\ pc = "send" /\ call \in Calls /\ UNCHANGED <<call, reqLen>> /\ content[call] = <<>>
        /\ state[call] = "open" /\ block_nr \in 0..(MaxBlocks - 1)
    BY <1>1, SendCases DEF SendLeaves, Progress, Exchanging, TypeOK
  <2>2. /\ reqLen \in Nat /\ offset = block_nr * MaxBlockTx /\ offset \in Nat
        /\ Block.last => reqLen <= offset + MaxBlockTx
        /\ ~Block.last => reqLen > offset + MaxBlockTx
        /\ Block.nr = block_nr
    BY <2>1, NextBlock
  <2>3. (block_nr + 1) * MaxBlockTx = offset + MaxBlockTx /\ MaxReq = MaxBlockTx * MaxBlocks /\ MaxReq \in Nat
    BY <2>1, <2>2 DEF MaxReq
  <2>4. Block.last => reqLen <= MaxReq
    <3>1. \A a, b, k \in Nat : a <= b => a * k <= b * k
      OBVIOUS
    <3>2. block_nr + 1 \in Nat /\ block_nr + 1 <= MaxBlocks
      BY <2>1
    <3>3. (block_nr + 1) * MaxBlockTx <= MaxBlocks * MaxBlockTx
      BY <3>1, <3>2
    <3>4. MaxBlocks * MaxBlockTx = MaxReq
      BY <2>3
    <3> QED BY <2>2, <2>3, <3>3, <3>4
  <2>5. content'[call] # <<>> => reqLen <= MaxReq
    <3>1. content'[call] # <<>> => Block.last
      BY <1>1, <2>1, SendCases DEF NotStored, Refused, Stored, PerformedIt, CardKeeps
    <3> QED BY <2>4, <3>1
  <2>6. ASSUME state'[call] = "failed", ~excused' PROVE reqLen > MaxReq
    <3>1. ~NotStored
      BY <2>6 DEF NotStored
    <3>2. ~Refused
      <4>1. SUFFICES ASSUME ~excused, link = "valid", ~selected \/ ~InSequence(Block) PROVE FALSE
        BY <2>6 DEF Refused
      <4>2. selected
        BY <2>1, <4>1 DEF Linked, Exchanging
      <4>3. InSequence(Block)
        <5>1. CASE block_nr = 0
          BY <2>2, <5>1 DEF InSequence
        <5>2. CASE block_nr # 0
          <6>1. Len(blocks) = block_nr
            BY <2>1, <4>1, <5>2 DEF Sending
          <6>2. blocks \in Seq(BlockType) /\ Len(blocks) \in 1..Len(blocks) /\ blocks # <<>>
            BY <2>1, <5>2, <6>1 DEF TypeOK
          <6>3. blocks[Len(blocks)].nr = Len(blocks) - 1
            BY <6>2 DEF Sending
          <6> QED BY <2>1, <2>2, <6>1, <6>2, <6>3 DEF InSequence
        <5> QED BY <5>1, <5>2
      <4> QED BY <4>1, <4>2, <4>3
    <3>3. \A n \in ResLens : ~PerformedIt(n)
      BY <2>1, <2>6 DEF PerformedIt, Fails, TypeOK
    <3>4. Stored
      BY <1>1, <3>1, <3>2, <3>3, SendCases
    <3>5. TooMany(block_nr + 1) /\ ~Block.last
      BY <2>1, <2>6, <3>4 DEF Stored
    <3>6. block_nr + 1 = MaxBlocks
      BY <3>5 DEF TooMany
    <3>7. MaxBlocks * MaxBlockTx = MaxBlockTx * MaxBlocks
      OBVIOUS
    <3> QED BY <2>2, <2>3, <3>5, <3>6, <3>7
  <2> QED BY <2>1, <2>5, <2>6 DEF LimitExact, MaxReq
<1>2. CASE recv_es10x_block
  <2>1. UNCHANGED <<call, reqLen, content>> /\ call \in Calls /\ state[call] = "open"
    BY <1>2, ReceiveCases DEF RecvLeaves, Progress, Exchanging
  <2>2. state'[call] = "failed" => excused'
    BY <1>2, <2>1, ReceiveCases DEF NotReceived, Received, TypeOK
  <2> QED BY <2>1, <2>2 DEF LimitExact, MaxReq
<1>3. CASE ~send_es10x_block /\ ~recv_es10x_block
  <2>1. /\ content' = content
        /\ \/ UNCHANGED <<call, reqLen>>
           \/ call' \in Calls /\ content'[call'] = <<>> /\ state'[call'] = "open"
    BY <1>3, ContentKept
  <2>2. UNCHANGED <<call, reqLen>> => excused' = TRUE \/ (excused' = excused /\ state' = state)
    <3>1. Request => call' # call
      BY DEF Request, ipa_euicc_transceive_es10x, TypeOK, Calls
    <3>2. Open \/ leave \/ ipa_free_ctx \/ UNCHANGED vars => excused' = excused /\ state' = state
      BY DEF Open, ipa_scard_init, send_termcap, manage_channel, select_isd_r, InitCommand, leave,
         ipa_free_ctx, vars, history
    <3>3. Crash \/ OtherCommand \/ OtherReset => excused' = TRUE
      BY DEF Crash, OtherCommand, OtherReset
    <3>4. Open \/ Request \/ leave \/ ipa_free_ctx \/ Crash \/ OtherCommand \/ OtherReset \/ UNCHANGED vars
      BY <1>3 DEF Next, Exchange
    <3>5. UNCHANGED <<call, reqLen>> => call' = call
      OBVIOUS
    <3> QED BY <3>1, <3>2, <3>3, <3>4, <3>5
  <2> QED BY <2>1, <2>2 DEF LimitExact, MaxReq
<1> QED BY <1>1, <1>2, <1>3

LEMMA InitIInv == Init => IInv
<1> SUFFICES ASSUME Init PROVE IInv
  OBVIOUS
<1> USE TransportAssumption DEF Init
<1>1. TypeOK
  <2>1. NoRes \in [of : Calls \cup {0}, from : Nat, left : Nat] /\ <<>> \in Seq(BlockType) /\ <<>> \in Seq(ChunkType)
    BY DEF NoRes
  <2>2. /\ state \in [Calls -> {"new", "open", "answered", "failed"}]
        /\ performed \in [Calls -> Nat] /\ content \in [Calls -> Seq(BlockType)] /\ answerLen \in [Calls -> Nat]
    BY <2>1
  <2>3. channelOpen \in BOOLEAN /\ selected \in BOOLEAN /\ block_nr \in 0..(MaxBlocks - 1) /\ block_len \in 0..MaxBlockRx
        /\ crashes \in 0..MaxCrashes /\ resets \in 0..MaxResets
    <3>1. 0 \in 0..(MaxBlocks - 1) /\ 0 \in 0..MaxBlockRx /\ 0 \in 0..MaxCrashes /\ 0 \in 0..MaxResets
      BY DEF TypeOK
    <3>2. channelOpen \in BOOLEAN /\ selected \in BOOLEAN
      OBVIOUS
    <3> QED BY <3>1, <3>2
  <2> QED BY <2>1, <2>2, <2>3 DEF TypeOK, PcsInit
<1>2. Progress /\ Sending /\ Receiving /\ Answered /\ Linked /\ PerformedWhole /\ LimitExact
  BY DEF Progress, Sending, Receiving, Answered, Linked, PerformedWhole, LimitExact, Exchanging, Calls
<1> QED BY <1>1, <1>2 DEF IInv

LEMMA NextIInv == IInv /\ [Next]_vars => IInv'
BY TypeStep, ProgressStep, SendingStep, ReceivingStep, AnsweredStep, LinkedStep, PerformedStep, LimitStep DEF IInv

(* Every variable stays in its type; above all the number of a block fits in its
   byte, and the length that is announced in GET RESPONSE.                       *)
THEOREM Es10xTypeCorrect == Spec => []TypeOK
BY InitIInv, NextIInv, PTL DEF Spec, IInv

(* The card performs the request as the caller gave it, never with blocks of one that
   broke off, wherever commands get lost and whoever else uses the card.             *)
THEOREM PerformsWhole == Spec => []PerformedWhole
BY InitIInv, NextIInv, PTL DEF Spec, IInv

(* A caller that gets a response gets all of it, and of its own request. *)
THEOREM AnswersWhole == Spec => []AnswerWhole
<1>1. IInv => AnswerWhole
  BY DEF IInv, Answered, AnswerWhole
<1> QED BY <1>1, InitIInv, NextIInv, PTL DEF Spec

(* When nothing goes wrong, requests of up to MaxBlocks full blocks are exchanged, and
   longer ones never reach the card's execution.                                      *)
THEOREM LimitIsExact == Spec => []LimitExact
BY InitIInv, NextIInv, PTL DEF Spec, IInv

-----------------------------------------------------------------------------
(* An exchange implements PeerCall: a block is one step of the call, and only the
   last one lets the card perform it.                                            *)

LEMMA RefineStep ==
  ASSUME IInv, [Next]_vars PROVE [OneCall!Next]_(OneCall!callVars)
<1> USE DEF OneCall!callVars, OneCall!Next
<1>1. TypeOK /\ Progress /\ Sending /\ Receiving
  BY DEF IInv
<1>2. ASSUME NEW n \in ReqLens, ipa_euicc_transceive_es10x(n) PROVE OneCall!Next
  <2>1. /\ call' = call + 1 /\ call' \in Calls /\ call \in Nat /\ pc = "ready"
        /\ state' = [state EXCEPT ![call'] = "open"] /\ performed' = performed
    BY <1>1, <1>2 DEF ipa_euicc_transceive_es10x, TypeOK, Calls
  <2>2. state[call'] = "new" /\ \A d \in Calls : state[d] # "open"
    BY <1>1, <2>1 DEF Progress, Exchanging
  <2> QED BY <2>1, <2>2 DEF OneCall!Begin
<1>3. CASE send_es10x_block
  <2>1. call \in Calls /\ state[call] = "open" /\ performed[call] = 0
    BY <1>1, <1>3, SendCases DEF Progress, Exchanging, TypeOK
  <2>2. CASE NotStored \/ Refused \/ Stored
    <3>1. performed' = performed /\ (state' = state \/ state' = [state EXCEPT ![call] = "failed"])
      BY <2>2 DEF NotStored, Refused, Stored, Fails, CardKeeps
    <3>2. performed'[call] <= 1
      BY <2>1, <3>1
    <3> QED BY <2>1, <3>1, <3>2 DEF OneCall!Work
  <2>3. ASSUME NEW n \in ResLens, PerformedIt(n) PROVE OneCall!Next
    <3>1. /\ performed' = [performed EXCEPT ![call] = @ + 1] /\ performed'[call] = 1
          /\ \/ state' = state
             \/ state' = [state EXCEPT ![call] = "answered"]
             \/ state' = [state EXCEPT ![call] = "failed"]
      BY SMTT(30), <1>1, <2>1, <2>3 DEF PerformedIt, Fails, TypeOK
    <3>2. performed'[call] <= 1 /\ performed'[call] > 0
      BY <3>1
    <3>3. performed' \in {performed, [performed EXCEPT ![call] = @ + 1]} /\ state[call] # "new"
      BY <2>1, <3>1
    <3>4. \/ state' = state
          \/ state' = [state EXCEPT ![call] = "answered"]
          \/ state' = [state EXCEPT ![call] = "failed"]
      BY <3>1
    <3> QED BY <2>1, <3>2, <3>3, <3>4 DEF OneCall!Work
  <2> QED BY <1>1, <1>3, <2>2, <2>3, SendCases
<1>4. CASE recv_es10x_block
  <2>1. call \in Calls /\ state[call] = "open" /\ performed[call] = 1 /\ performed' = performed
    BY <1>1, <1>4, ReceiveCases DEF RecvLeaves, Progress, Exchanging
  <2>2. \/ state' = state
        \/ state' = [state EXCEPT ![call] = "answered"]
        \/ state' = [state EXCEPT ![call] = "failed"]
    BY <1>1, <1>4, ReceiveCases DEF NotReceived, Received
  <2> QED BY <2>1, <2>2 DEF OneCall!Work
<1>5. CASE Crash
  <2>1. performed' = performed /\ state' = [c \in Calls |-> IF state[c] = "open" THEN "failed" ELSE state[c]]
    BY <1>5 DEF Crash
  <2>2. CASE pc \notin Exchanging
    <3>1. \A c \in Calls : state[c] # "open"
      BY <1>1, <2>2 DEF Progress
    <3>2. state' = state
      BY <1>1, <2>1, <3>1 DEF TypeOK
    <3> QED BY <2>1, <3>2
  <2>3. CASE pc \in Exchanging
    <3>1. call \in Calls /\ (\A c \in Calls : state[c] = "open" <=> c = call) /\ performed[call] \in {0, 1}
      BY <1>1, <2>3 DEF Progress, TypeOK, Exchanging
    <3>2. state' = [state EXCEPT ![call] = "failed"]
      BY <1>1, <2>1, <3>1 DEF TypeOK
    <3> QED BY <2>1, <3>1, <3>2 DEF OneCall!Work
  <2> QED BY <2>2, <2>3
<1>6. CASE UNCHANGED <<state, performed>>
  BY <1>6
<1> QED BY <1>2, <1>3, <1>4, <1>5, <1>6
        DEF Next, Open, Request, Exchange, ipa_scard_init, send_termcap, manage_channel, select_isd_r,
            InitCommand, leave, ipa_free_ctx, OtherCommand, OtherReset, vars, history

(* A procedure that calls the eUICC may rely on what PeerCall promises, and on its
   request being performed at most once.                                           *)
THEOREM Es10xImplementsCall == Spec => CallSpec
<1>1. Init => OneCall!Init
  BY DEF Init, OneCall!Init
<1>2. IInv /\ [Next]_vars => [OneCall!Next]_(OneCall!callVars)
  BY RefineStep
<1> QED BY <1>1, <1>2, InitIInv, NextIInv, PTL DEF Spec, CallSpec, OneCall!Spec

(* No two calls of the eUICC are open at a time, none is performed twice or before it
   was made, and one that is answered was performed: what PeerCall promises.          *)
THEOREM Es10xCallsAccounted == Spec => []OneCall!Accounted
<1> DEFINE Acc ==
      /\ OneCall!Accounted
      /\ state \in [Calls -> OneCall!States] /\ performed \in [Calls -> Nat]
<1>1. OneCall!Init => Acc
  BY DEF OneCall!Init, OneCall!Accounted, OneCall!States
<1>2. Acc /\ [OneCall!Next]_(OneCall!callVars) => Acc'
  <2> SUFFICES ASSUME Acc, [OneCall!Next]_(OneCall!callVars) PROVE Acc'
    OBVIOUS
  <2>1. ASSUME NEW c \in Calls, OneCall!Begin(c) PROVE Acc'
    BY <2>1 DEF OneCall!Begin, OneCall!Accounted, OneCall!States
  <2>2. ASSUME NEW c \in Calls, OneCall!Work(c) PROVE Acc'
    <3>1. /\ performed' \in [Calls -> Nat] /\ state' \in [Calls -> OneCall!States]
          /\ \A d \in Calls : d # c => performed'[d] = performed[d] /\ state'[d] = state[d]
          /\ state[c] # "new" /\ state'[c] # "new"
          /\ performed'[c] \in Nat /\ performed[c] <= performed'[c] /\ performed'[c] <= 1
          /\ state'[c] = "answered" => performed'[c] > 0
          /\ state'[c] = "open" => state[c] = "open"
      BY <2>2 DEF OneCall!Work, OneCall!Accounted, OneCall!States
    <3> QED BY <3>1 DEF OneCall!Accounted
  <2>3. CASE UNCHANGED OneCall!callVars
    BY <2>3 DEF OneCall!callVars, OneCall!Accounted, OneCall!States
  <2> QED BY <2>1, <2>2, <2>3 DEF OneCall!Next
<1>3. Acc => OneCall!Accounted
  OBVIOUS
<1> QED BY <1>1, <1>2, <1>3, Es10xImplementsCall, PTL DEF CallSpec, OneCall!Spec

(* A call of the eUICC that has returned is over: a card that performs it later does
   not change the outcome.                                                           *)
THEOREM Es10xCallsSettled == Spec => OneCall!Settled
<1>1. state \in [Calls -> OneCall!States] /\ [OneCall!Next]_(OneCall!callVars)
      => [\A c \in Calls : state[c] \in {"answered", "failed"} => state'[c] = state[c]]_(OneCall!callVars)
  BY DEF OneCall!Next, OneCall!Begin, OneCall!Work, OneCall!callVars
<1>2. TypeOK => state \in [Calls -> OneCall!States]
  BY DEF TypeOK, OneCall!States
<1> QED BY <1>1, <1>2, Es10xImplementsCall, Es10xTypeCorrect, PTL DEF CallSpec, OneCall!Spec, OneCall!Settled
=============================================================================

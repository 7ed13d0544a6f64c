--------------------------- MODULE Es10xTransport ---------------------------
(***************************************************************************)
(* The link between the IPAd and the eUICC: opening it                     *)
(* (ipa_euicc_init_es10x), exchanging an ES10x request for its response    *)
(* (euicc_transceive_es10x: STORE DATA blocks, then GET RESPONSE) and      *)
(* leaving it (ipa_free_ctx), over a card reader that is shared with other *)
(* applications (scard.c).                                                 *)
(*                                                                         *)
(* One command to the card is one step.  The card is environment, modelled *)
(* from how euicc.c uses it.                                               *)
(***************************************************************************)
EXTENDS Integers, Sequences

CONSTANTS
  MaxBlockTx,   \* MAX_BLOCKSIZE_TX
  MaxBlocks,    \* blocks in one STORE DATA cycle (255)
  MaxBlockRx,   \* MAX_BLOCKSIZE_RX, announced as 6100
  MaxCalls,     \* bound: the requests made
  ReqLens,      \* lengths of requests
  ResLens,      \* lengths of responses; 0: the card has none, and says 9000
  Channels,     \* the values of cfg->euicc_channel tried
  CardFaults,   \* what may go wrong with a command, see below
  MaxCrashes,   \* bound: crashes of the IPAd
  MaxResets     \* bound: resets of the card by another application

(* "lostReq" and "lostRes": SCardTransmit fails before or after the card got
   the command; "noSw": the answer has no status word; "cardErr": the card
   answers with an error status.                                            *)
Faults == {"lostReq", "lostRes", "noSw", "cardErr"}

ASSUME TransportAssumption ==
  /\ MaxBlockTx \in Nat \ {0} /\ MaxBlocks \in Nat \ {0} /\ MaxBlockRx \in Nat \ {0}
  /\ MaxCalls \in Nat /\ ReqLens \subseteq Nat \ {0} /\ ResLens \subseteq Nat
  /\ Channels \subseteq 0..3 /\ Channels # {} /\ CardFaults \subseteq Faults
  /\ MaxCrashes \in Nat /\ MaxResets \in Nat

Calls == 1..MaxCalls

VARIABLES
  \* the IPAd
  euicc_channel, \* cfg->euicc_channel, fixed
  pc,          \* the command it is about to send, or "down", "ready"
  link,        \* SCARDHANDLE: "none", "valid", or "stale" after a foreign reset
  call,        \* the request in hand: its number, 0 before the first
  reqLen,      \* es10x_req->len
  offset, block_nr, block_len,
  es10x_res,   \* the chunks of response received
  check_scard, \* the canary
  \* the card
  channelOpen, selected,
  blocks,      \* the STORE DATA blocks it has collected
  pendingRes,  \* the response it holds ready for GET RESPONSE
  \* history, read by the properties only
  state, performed, \* of each request, see PeerCall
  content,     \* the blocks the card put together for it
  answerLen,   \* the length of the response the card made for it
  excused,     \* something went wrong with the request in hand
  crashes, resets

ipadVars == <<pc, link, call, reqLen, offset, block_nr, block_len, es10x_res, check_scard>>
cardVars == <<channelOpen, selected, blocks, pendingRes>>
history == <<state, performed, content, answerLen, excused>>
bounds == <<euicc_channel, crashes, resets>>
vars == <<ipadVars, cardVars, history, bounds>>

NoRes == [of |-> 0, from |-> 0, left |-> 0]
PcsInit == {"termcap", "open", "select"}

(* A status word: 9000, 61xx with xx, or an error. *)
Sw(class, xx) == [class |-> class, xx |-> xx]
Ok == Sw("9000", 0)
CardError == Sw("error", 0)
More(n) == Sw("61", IF n >= MaxBlockRx THEN 0 ELSE n)

Least(a, b) == IF a < b THEN a ELSE b

(* Some operators below are preceded by a variant of the same parameters that a
   plausible mistake would make of them; no specification uses a variant, they
   serve to confirm that the properties notice the mistake.                     *)

-----------------------------------------------------------------------------
(* ipa_scard_transceive: with a stale handle every command fails. *)

Outcomes == IF link = "valid" THEN {"ok"} \cup CardFaults ELSE {"lostReq"}
Reaches(o) == o # "lostReq"
Lost(o) == o \in {"lostReq", "lostRes"}

(* Only the commands that send or receive a block or open the link set it. *)
CanaryNever(o) == check_scard
Canary(o) == check_scard \/ Lost(o)

-----------------------------------------------------------------------------
(* The card *)

(* A block is collected when it continues the ones before, or starts anew. *)
Collected(b) == IF b.nr = 0 THEN <<b>> ELSE Append(blocks, b)
InSequence(b) == b.nr = 0 \/ (blocks # <<>> /\ b.nr = blocks[Len(blocks)].nr + 1)

(* A STORE DATA: the new command drops a response that was not fetched.  The
   last block makes the card perform the request, and it has a response of n
   bytes; it may also conclude before the last block with a response (an error
   it reports early).  sw is what it answers.                                *)
CardStores(b, sw, n) ==
  /\ selected /\ InSequence(b)
  /\ IF b.last \/ sw.class = "61"
     THEN /\ sw = IF n = 0 THEN Ok ELSE More(n)
          /\ performed' = [performed EXCEPT ![b.of] = @ + 1]
          /\ content' = IF b.last THEN [content EXCEPT ![b.of] = Collected(b)] ELSE content
          /\ answerLen' = [answerLen EXCEPT ![b.of] = n]
          /\ pendingRes' = [of |-> b.of, from |-> 0, left |-> n]
          /\ blocks' = <<>>
     ELSE /\ sw = Ok /\ n = 0
          /\ blocks' = Collected(b) /\ pendingRes' = NoRes
          /\ UNCHANGED <<performed, content, answerLen>>

(* It does not take the block, and forgets those before. *)
CardRefuses ==
  /\ blocks' = <<>> /\ pendingRes' = NoRes
  /\ UNCHANGED <<performed, content, answerLen>>

-----------------------------------------------------------------------------
(* The IPAd: how an exchange ends *)

Return(how) ==
  /\ pc' = "ready"
  /\ state' = [state EXCEPT ![call] = how]

(* A command failed: there is no second try, the card may have got the first. *)
SendRetries == UNCHANGED <<pc, state>>
SendFails == Return("failed")
ReceiveRetries == UNCHANGED <<pc, state>>
ReceiveFails == Return("failed")

(* What send_es10x_block sends. *)
BlockLastTooEarly ==
  [of |-> call, from |-> offset, len |-> Least(reqLen - offset, MaxBlockTx),
   nr |-> block_nr, last |-> reqLen - offset <= MaxBlockTx + 1]
Block ==
  [of |-> call, from |-> offset, len |-> Least(reqLen - offset, MaxBlockTx),
   nr |-> block_nr, last |-> reqLen - offset <= MaxBlockTx]

TooManyNever(nr) == nr > MaxBlocks
TooMany(nr) == nr = MaxBlocks

BlockLenRaw(sw) == sw.xx
BlockLen(sw) == IF sw.xx = 0 THEN MaxBlockRx ELSE sw.xx

(* Lines 297-330: a response is fetched, also when the transmission was aborted. *)
RequestSent(sw) ==
  CASE sw.class = "9000" -> Return("answered") /\ UNCHANGED <<offset, block_nr, block_len>>
    [] sw.class = "61" -> /\ pc' = "receive" /\ block_len' = BlockLen(sw)
                          /\ UNCHANGED <<offset, block_nr, state>>
    [] OTHER -> Return("failed") /\ UNCHANGED <<offset, block_nr, block_len>>

(* Lines 273-294: after a block was sent. *)
BlockSent(b, sw) ==
  IF offset + b.len >= reqLen \/ sw # Ok THEN RequestSent(sw)
  ELSE IF TooMany(block_nr + 1)
       THEN Return("failed") /\ UNCHANGED <<offset, block_nr, block_len>>
       ELSE /\ offset' = offset + b.len /\ block_nr' = block_nr + 1
            /\ UNCHANGED <<pc, block_len, state>>

-----------------------------------------------------------------------------
Init ==
  /\ pc = "down" /\ link = "none" /\ call = 0 /\ reqLen = 0
  /\ offset = 0 /\ block_nr = 0 /\ block_len = 0 /\ es10x_res = <<>>
  /\ check_scard = FALSE
  /\ euicc_channel \in Channels /\ channelOpen = (euicc_channel = 0) /\ selected = FALSE
  /\ blocks = <<>> /\ pendingRes = NoRes
  /\ state = [c \in Calls |-> "new"] /\ performed = [c \in Calls |-> 0]
  /\ content = [c \in Calls |-> <<>>] /\ answerLen = [c \in Calls |-> 0]
  /\ excused = FALSE /\ crashes = 0 /\ resets = 0

exchangeVars == <<call, reqLen, offset, block_nr, block_len, es10x_res>>

(* ipa_new_ctx and ipa_scard_init: the card is not reset by connecting to it. *)
ipa_scard_init ==
  /\ pc = "down"
  /\ pc' = "termcap" /\ link' = "valid" /\ check_scard' = FALSE
  /\ UNCHANGED <<exchangeVars, cardVars, history, bounds>>

(* One of the three commands that open the link; a failure ends ipa_init and
   with it the context.                                                      *)
InitCommand(from, to, Agrees) ==
  /\ pc = from
  /\ \E o \in Outcomes :
       /\ check_scard' = Canary(o)
       /\ pc' = IF o = "ok" /\ Agrees THEN to ELSE "leave"
       /\ pendingRes' = IF Reaches(o) THEN NoRes ELSE pendingRes
       /\ IF Reaches(o) /\ o # "cardErr" /\ Agrees
          THEN /\ channelOpen' = (channelOpen \/ from = "open")
               /\ selected' = (selected \/ from = "select")
          ELSE UNCHANGED <<channelOpen, selected>>
  /\ UNCHANGED <<link, exchangeVars, blocks, history, bounds>>

send_termcap == InitCommand("termcap", "open", TRUE)

(* The basic channel is always open; another one must not be open already. *)
manage_channel ==
  \/ /\ euicc_channel = 0 /\ pc = "open" /\ pc' = "select"
     /\ UNCHANGED <<link, exchangeVars, check_scard, cardVars, history, bounds>>
  \/ euicc_channel # 0 /\ InitCommand("open", "select", ~channelOpen)

select_isd_r == InitCommand("select", "ready", channelOpen)

(* A procedure makes a request. *)
ipa_euicc_transceive_es10x(n) ==
  /\ pc = "ready" /\ call + 1 \in Calls
  /\ call' = call + 1 /\ reqLen' = n
  /\ offset' = 0 /\ block_nr' = 0 /\ block_len' = 0 /\ es10x_res' = <<>>
  /\ pc' = "send"
  /\ state' = [state EXCEPT ![call'] = "open"] /\ excused' = FALSE
  /\ UNCHANGED <<link, check_scard, cardVars, performed, content, answerLen, bounds>>

(* send_es10x_block and the lines after its call: 149 and 157 end the exchange. *)
send_es10x_block ==
  /\ pc = "send"
  /\ \E o \in Outcomes, n \in ResLens, class \in {"9000", "61", "error"} :
       LET b == Block
           sw == CASE class = "9000" -> Ok [] class = "61" -> More(n) [] OTHER -> CardError
       IN /\ check_scard' = Canary(o)
          /\ IF ~Reaches(o) THEN UNCHANGED <<blocks, pendingRes, performed, content, answerLen>>
             ELSE IF o = "cardErr" \/ ~selected \/ ~InSequence(b)
                  THEN class = "error" /\ CardRefuses
                  ELSE class # "error" /\ CardStores(b, sw, n)
          /\ excused' = (excused \/ o # "ok")
          /\ IF o \in {"ok", "cardErr"} THEN BlockSent(b, sw)
             ELSE SendFails /\ UNCHANGED <<offset, block_nr, block_len>>
  /\ UNCHANGED <<link, call, reqLen, es10x_res, channelOpen, selected, bounds>>

(* The Le byte of GET RESPONSE: 0 stands for the longest block. *)
LeByte(le) == IF le < MaxBlockRx THEN le ELSE 0

(* GET RESPONSE: the card gives what is asked for when it has it, else it says so
   and sends none.                                                             *)
CardGives(byte) ==
  LET le == IF byte = 0 THEN MaxBlockRx ELSE byte IN IF pendingRes.left >= le THEN le ELSE 0
Remaining(n) ==
  IF pendingRes.left = n THEN NoRes
  ELSE [pendingRes EXCEPT !.from = @ + n, !.left = @ - n]

(* recv_es10x_block and lines 313-325: the length must be what was announced. *)
LenAtMost(got, le) == got <= le
LenExact(got, le) == got = le

recv_es10x_block ==
  /\ pc = "receive"
  /\ LET le == Least(block_len, MaxBlockRx) got == CardGives(LeByte(le)) IN
     \E o \in Outcomes :
       /\ check_scard' = Canary(o)
       /\ pendingRes' = IF ~Reaches(o) THEN pendingRes
                        ELSE IF o = "cardErr" \/ got = 0 THEN NoRes ELSE Remaining(got)
       /\ excused' = (excused \/ o # "ok")
       /\ IF o # "ok" \/ ~LenExact(got, le)
          THEN ReceiveFails /\ UNCHANGED <<block_len, es10x_res>>
          ELSE /\ es10x_res' = Append(es10x_res, [of |-> pendingRes.of, from |-> pendingRes.from, len |-> got])
               /\ IF pendingRes'.left = 0 THEN Return("answered") /\ UNCHANGED block_len
                  ELSE block_len' = BlockLen(More(pendingRes'.left)) /\ UNCHANGED <<pc, state>>
  /\ UNCHANGED <<link, call, reqLen, offset, block_nr, channelOpen, selected, blocks,
                 performed, content, answerLen, bounds>>

(* The application gives up the context. *)
leave ==
  /\ pc = "ready" /\ pc' = "leave"
  /\ UNCHANGED <<link, exchangeVars, check_scard, cardVars, history, bounds>>

(* ipa_free_ctx: the channel is closed, whether or not that works, then the card
   is disconnected and loses its power; over a stale handle neither happens.    *)
ipa_free_ctx ==
  /\ pc = "leave"
  /\ pc' = "down" /\ link' = "none" /\ check_scard' = FALSE
  /\ IF link = "valid"
     THEN /\ channelOpen' = (euicc_channel = 0) /\ selected' = FALSE
          /\ blocks' = <<>> /\ pendingRes' = NoRes
     ELSE UNCHANGED cardVars
  /\ UNCHANGED <<exchangeVars, history, bounds>>

(* The process dies; the reader's service resets the card or leaves it as it is. *)
Crash ==
  /\ pc # "down" /\ crashes < MaxCrashes
  /\ crashes' = crashes + 1
  /\ pc' = "down" /\ link' = "none" /\ check_scard' = FALSE
  /\ state' = [c \in Calls |-> IF state[c] = "open" THEN "failed" ELSE state[c]]
  /\ \/ UNCHANGED cardVars
     \/ /\ channelOpen' = (euicc_channel = 0) /\ selected' = FALSE
        /\ blocks' = <<>> /\ pendingRes' = NoRes
  /\ excused' = TRUE
  /\ UNCHANGED <<euicc_channel, exchangeVars, performed, content, answerLen, resets>>

(* The reader is opened shared and no transaction is begun, so a command of another
   application can come between any two: the card drops the response it holds.   *)
OtherCommand ==
  /\ pendingRes # NoRes
  /\ pendingRes' = NoRes /\ excused' = TRUE
  /\ UNCHANGED <<ipadVars, channelOpen, selected, blocks, state, performed, content,
                 answerLen, bounds>>

(* It may reset the card: the IPAd's handle is of no use from then on.  (Not after
   the last request, as no further command would notice it.)                     *)
OtherReset ==
  /\ link = "valid" /\ pc # "leave" /\ resets < MaxResets
  /\ pc = "ready" => call + 1 \in Calls
  /\ resets' = resets + 1
  /\ link' = "stale"
  /\ channelOpen' = (euicc_channel = 0) /\ selected' = FALSE
  /\ blocks' = <<>> /\ pendingRes' = NoRes /\ excused' = TRUE
  /\ UNCHANGED <<pc, exchangeVars, check_scard, state, performed, content, answerLen,
                 euicc_channel, crashes>>

-----------------------------------------------------------------------------
Open == ipa_scard_init \/ send_termcap \/ manage_channel \/ select_isd_r
Request == \E n \in ReqLens : ipa_euicc_transceive_es10x(n)
Exchange == send_es10x_block \/ recv_es10x_block

Next == \/ Open \/ Request \/ Exchange \/ leave \/ ipa_free_ctx
        \/ Crash \/ OtherCommand \/ OtherReset

Spec == Init /\ [][Next]_vars

(* Commands return, procedures go on to make requests, the application leaves when
   the poll told it to check the card (main.c ends on any error) and starts over;
   opening the link, when tried again and again, succeeds at last.                *)
FairSpec ==
  /\ Spec
  /\ WF_vars(Open) /\ WF_vars(Request) /\ WF_vars(Exchange) /\ WF_vars(ipa_free_ctx)
  /\ WF_vars(leave /\ check_scard)
  /\ SF_vars(send_termcap /\ pc' = "open") /\ SF_vars(manage_channel /\ pc' = "select")
  /\ SF_vars(select_isd_r /\ pc' = "ready")

-----------------------------------------------------------------------------
(* Properties *)

MaxReq == MaxBlockTx * MaxBlocks
BlockType == [of : Calls, from : Nat, len : Nat, nr : 0..(MaxBlocks - 1), last : BOOLEAN]
ChunkType == [of : Calls, from : Nat, len : Nat]

(* Every variable stays in its type; the number of a block fits in its byte. *)
TypeOK ==
  /\ pc \in {"down", "ready", "send", "receive", "leave"} \cup PcsInit
  /\ link \in {"none", "valid", "stale"}
  /\ euicc_channel \in Channels /\ call \in Calls \cup {0} /\ reqLen \in ReqLens \cup {0}
  /\ offset \in Nat /\ block_nr \in 0..(MaxBlocks - 1) /\ block_len \in 0..MaxBlockRx
  /\ es10x_res \in Seq(ChunkType) /\ check_scard \in BOOLEAN
  /\ channelOpen \in BOOLEAN /\ selected \in BOOLEAN
  /\ blocks \in Seq(BlockType)
  /\ pendingRes \in [of : Calls \cup {0}, from : Nat, left : Nat]
  /\ state \in [Calls -> {"new", "open", "answered", "failed"}]
  /\ performed \in [Calls -> Nat] /\ content \in [Calls -> Seq(BlockType)]
  /\ answerLen \in [Calls -> Nat] /\ excused \in BOOLEAN
  /\ crashes \in 0..MaxCrashes /\ resets \in 0..MaxResets

(* The pieces are of request c, follow one another without gap and make up n bytes. *)
Whole(pieces, c, n) ==
  /\ \A i \in DOMAIN pieces :
       /\ pieces[i].of = c
       /\ pieces[i].from = IF i = 1 THEN 0 ELSE pieces[i - 1].from + pieces[i - 1].len
  /\ n = IF pieces = <<>> THEN 0 ELSE pieces[Len(pieces)].from + pieces[Len(pieces)].len

(* What the card performs at a last block is one request as the caller gave it:
   nothing is left over in it from a request that broke off.                      *)
PerformedWhole ==
  call # 0 /\ content[call] # <<>> => Whole(content[call], call, reqLen)

(* A response that is handed to the caller is the whole response the card made for
   this very request.                                                             *)
AnswerWhole ==
  pc = "ready" /\ call # 0 /\ state[call] = "answered" => Whole(es10x_res, call, answerLen[call])

(* Whenever nothing went wrong, the exchange succeeds exactly for the requests that
   fit in MaxBlocks blocks: the check of the limit does not refuse the longest one. *)
LimitExact ==
  call # 0 =>
    /\ state[call] = "failed" /\ ~excused => reqLen > MaxReq
    /\ content[call] # <<>> => reqLen <= MaxReq

(* The exchange keeps what PeerCall promises; the card performs a request at most once. *)
OneCall == INSTANCE PeerCall WITH AtMost <- 1
CallSpec == OneCall!Spec

(* Every request returns. *)
CallReturns == \A c \in Calls : state[c] = "open" ~> state[c] # "open"

(* After a crash, and after another application has reset the card, the IPAd comes
   back to a link it can use: the canary makes the application start over, and what
   the process before left open on the card does not keep it out.                 *)
LinkRestored == []<>(link = "valid" /\ channelOpen /\ selected)
=============================================================================

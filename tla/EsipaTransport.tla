--------------------------- MODULE EsipaTransport ---------------------------
(***************************************************************************)
(* The link between the IPAd and the eIM: a request with its retries       *)
(* (ipa_esipa_req), one attempt of it over HTTP (ipa_http_req), and the     *)
(* decision whether what came back is an answer (ipa_esipa_msg_to_ipa_dec). *)
(*                                                                         *)
(* The CURL handle stands for a connection that lives from one request to  *)
(* the next.  What is on its way to the eIM arrives there even if the IPAd *)
(* has given up on it; what comes back can be read only from the connection *)
(* it was asked for on.  Network, libcurl and eIM are environment.         *)
(***************************************************************************)
EXTENDS Integers, Sequences, SequencesExt

CONSTANTS
  Retries,    \* cfg->esipa_req_retries
  Parts,      \* the pieces in which an answer arrives
  MaxCalls,   \* bound: the requests made
  Statuses,   \* what the eIM may answer: "done", "error", "empty"
  MaxCrashes  \* bound: crashes of the IPAd

ASSUME EsipaAssumption ==
  /\ Retries \in Nat /\ Parts \in Nat \ {0} /\ MaxCalls \in Nat /\ MaxCrashes \in Nat
  /\ Statuses \subseteq {"done", "error", "empty"} /\ "done" \in Statuses

Calls == 1..MaxCalls
Conns == 1..(MaxCalls * (Retries + 1))

VARIABLES
  pc,          \* "idle", "request", "perform", "wait"
  call,        \* the request in hand: its number, 0 before the first
  i,           \* the loop counter of ipa_esipa_req
  curl,        \* the connection, 0: none (ctx->curl == NULL)
  res,         \* the pieces of the answer received so far; kept once handed up
  check_http,  \* the canary
  \* the network and the eIM
  conns,       \* connections opened so far
  inbox,       \* attempts the eIM has not worked off: their connection and request
  wire,        \* pieces on their way back over the connection in use
  \* history, read by the properties only
  state, performed, \* of each request, see PeerCall
  sent,        \* attempts made for each request
  crashes

vars == <<pc, call, i, curl, res, check_http, conns, inbox, wire, state, performed,
          sent, crashes>>

(* Some operators below are preceded by a variant of the same parameters that a
   plausible mistake would make of them; no specification uses a variant, they
   serve to confirm that the properties notice the mistake.                     *)

-----------------------------------------------------------------------------
Init ==
  /\ pc = "idle" /\ call = 0 /\ i = 0 /\ curl = 0 /\ res = <<>> /\ check_http = FALSE
  /\ conns = 0 /\ inbox = {} /\ wire = <<>>
  /\ state = [c \in Calls |-> "new"] /\ performed = [c \in Calls |-> 0]
  /\ sent = [c \in Calls |-> 0] /\ crashes = 0

netVars == <<conns, inbox, wire>>

(* ipa_poll starts with the canary cleared. *)
ipa_poll ==
  /\ pc = "idle" /\ check_http
  /\ check_http' = FALSE
  /\ UNCHANGED <<pc, call, i, curl, res, netVars, state, performed, sent, crashes>>

ipa_esipa_req ==
  /\ pc = "idle" /\ call + 1 \in Calls
  /\ call' = call + 1 /\ i' = 0 /\ pc' = "request"
  /\ state' = [state EXCEPT ![call'] = "open"]
  /\ UNCHANGED <<curl, res, check_http, netVars, performed, sent, crashes>>

(* ipa_http_req up to curl_easy_perform: the handle is reused or created. *)
ipa_http_req ==
  /\ pc = "request" /\ pc' = "perform"
  /\ IF curl = 0 THEN curl' = conns + 1 /\ conns' = conns + 1 /\ wire' = <<>>
     ELSE UNCHANGED <<curl, conns, wire>>
  /\ res' = <<>>
  /\ \E arrives \in BOOLEAN :
       inbox' = IF arrives THEN inbox \cup {[conn |-> curl', of |-> call, try |-> i]} ELSE inbox
  /\ sent' = [sent EXCEPT ![call] = @ + 1]
  /\ UNCHANGED <<call, i, check_http, state, performed, crashes>>

Piece(c, k, status) == [of |-> c, part |-> k, status |-> status]
Answer(c, status) ==
  IF status = "empty" THEN <<Piece(c, Parts, status)>>
  ELSE [k \in 1..Parts |-> Piece(c, k, status)]

(* The eIM works off an attempt, in whatever order; it may refuse it with an error
   message or with an HTTP status and no body.                                     *)
EimAnswers(m, status) ==
  /\ m \in inbox /\ inbox' = inbox \ {m}
  /\ performed' = IF status = "done" THEN [performed EXCEPT ![m.of] = @ + 1] ELSE performed
  /\ wire' = IF m.conn = curl THEN wire \o Answer(m.of, status) ELSE wire
  /\ UNCHANGED <<pc, call, i, curl, res, check_http, conns, state, sent, crashes>>

(* store_response_cb *)
store_response_cb ==
  /\ pc = "perform" /\ wire # <<>>
  /\ res' = Append(res, Head(wire)) /\ wire' = Tail(wire)
  /\ UNCHANGED <<pc, call, i, curl, check_http, conns, inbox, state, performed, sent,
                 crashes>>

Complete == res # <<>> /\ Last(res).part = Parts

(* curl_easy_perform returned CURLE_OK: the HTTP status is not looked at; whether the
   body is an answer the decoder decides, and if not the request has failed.         *)
DecodesAny(status) == status # "empty"
Decodes(status) == status = "done"

request_answered ==
  /\ pc = "perform" /\ Complete
  /\ pc' = "idle"
  /\ state' = [state EXCEPT ![call] = IF Decodes(Last(res).status) THEN "answered" ELSE "failed"]
  /\ UNCHANGED <<call, i, curl, res, check_http, netVars, performed, sent, crashes>>

(* ipa_http_close *)
KeepsConnection == curl' = curl /\ UNCHANGED wire
ipa_http_close == curl' = 0 /\ wire' = <<>>

GivesUpLater == i > Retries
GivesUp == i >= Retries

(* CURLOPT_TIMEOUT *)
TimesOutNever == FALSE
TimesOut == TRUE

(* It did not: the connection is closed, what was received of the answer is freed, and
   the request repeated or given up.  A timeout may come while the answer is arriving. *)
attempt_failed ==
  /\ pc = "perform" /\ TimesOut
  /\ ipa_http_close
  /\ res' = <<>>
  /\ IF GivesUp
     THEN /\ pc' = "idle" /\ check_http' = TRUE
          /\ state' = [state EXCEPT ![call] = "failed"]
        ELSE pc' = "wait" /\ UNCHANGED <<check_http, state>>
  /\ UNCHANGED <<call, i, conns, inbox, performed, sent, crashes>>

(* sleep (i + 1)^2 seconds *)
retry ==
  /\ pc = "wait" /\ pc' = "request" /\ i' = i + 1
  /\ UNCHANGED <<call, curl, res, check_http, netVars, state, performed, sent, crashes>>

(* ipa_close: the application closes the connection between two polls. *)
ipa_close ==
  /\ pc = "idle" /\ curl # 0
  /\ ipa_http_close
  /\ UNCHANGED <<pc, call, i, res, check_http, conns, inbox, state, performed, sent,
                 crashes>>

(* The process dies and is started again: the connection goes with it, what the eIM
   has received stays there.                                                       *)
Crash ==
  /\ crashes < MaxCrashes /\ crashes' = crashes + 1
  /\ pc' = "idle" /\ ipa_http_close /\ check_http' = FALSE
  /\ state' = [c \in Calls |-> IF state[c] = "open" THEN "failed" ELSE state[c]]
  /\ UNCHANGED <<call, i, res, conns, inbox, performed, sent>>

-----------------------------------------------------------------------------
Request == ipa_http_req \/ store_response_cb \/ request_answered \/ attempt_failed \/ retry

Next == \/ ipa_poll \/ ipa_esipa_req \/ Request \/ ipa_close \/ Crash
        \/ \E m \in inbox, status \in Statuses : EimAnswers(m, status)

Spec == Init /\ [][Next]_vars

(* The IPAd is single threaded and blocks in curl_easy_perform for no longer than its
   timeout and in sleep for no longer than asked.                                    *)
FairSpec == Spec /\ WF_vars(Request)

-----------------------------------------------------------------------------
(* Properties *)

Pieces == [of : Calls, part : 1..Parts, status : Statuses]

(* Every variable stays in its type; there is never a second answer on the wire. *)
TypeOK ==
  /\ pc \in {"idle", "request", "perform", "wait"}
  /\ call \in Calls \cup {0} /\ i \in 0..Retries
  /\ curl \in Conns \cup {0} /\ conns \in Conns \cup {0}
  /\ res \in Seq(Pieces) /\ wire \in Seq(Pieces) /\ Len(res \o wire) <= Parts
  /\ check_http \in BOOLEAN
  /\ inbox \subseteq [conn : Conns, of : Calls, try : 0..Retries]
  /\ state \in [Calls -> {"new", "open", "answered", "failed"}]
  /\ performed \in [Calls -> 0..(Retries + 1)] /\ sent \in [Calls -> 0..(Retries + 1)]
  /\ crashes \in 0..MaxCrashes

(* What ipa_esipa_req and the decoder hand to a procedure is the eIM's answer to the
   request just made, from its first piece to its last: never the late answer to an
   attempt or a request given up before, nor a part of one behind a part of another. *)
AnswerIsOwn ==
  pc = "idle" /\ call # 0 /\ state[call] = "answered" => res = Answer(call, "done")

(* The requests keep what PeerCall promises, with one performance for each attempt: a
   request answered has been performed, one given up may be performed still.         *)
OneCall == INSTANCE PeerCall WITH AtMost <- Retries + 1
CallSpec == OneCall!Spec

(* A request that nothing answered has been tried Retries + 1 times and raises the
   canary, for the application to check the connection; an answer that is none of
   those expected does not raise it, and leaves no try unmade to be made later.     *)
CanaryExact ==
  [][\A c \in Calls :
       state[c] = "open" /\ state'[c] = "failed" /\ crashes' = crashes =>
         IF res' = <<>> THEN check_http' /\ curl' = 0 /\ sent[c] = Retries + 1
         ELSE check_http' = check_http /\ curl' # 0]_vars

(* Every request returns, whatever the network and the eIM do. *)
CallReturns == \A c \in Calls : state[c] = "open" ~> state[c] # "open"
=============================================================================

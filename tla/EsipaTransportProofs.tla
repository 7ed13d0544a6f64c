------------------------ MODULE EsipaTransportProofs ------------------------
(***************************************************************************)
(* Proofs about EsipaTransport, for every value of its constants: the      *)
(* types, that an answer handed up is the eIM's answer to the request just *)
(* made, that the canary is exact, and that a request with its retries     *)
(* implements PeerCall.                                                    *)
(***************************************************************************)
EXTENDS EsipaTransport, FiniteSets, FiniteSetTheorems, TLAPS

(* How far the request in hand is: the requests before it have returned, those
   after it are not made yet, and each round of the loop has made one attempt. *)
Progress ==
  /\ \A c \in Calls : state[c] = "new" <=> c > call
  /\ \A c \in Calls : state[c] = "open" <=> c = call /\ pc # "idle"
  /\ \A c \in Calls : c > call => sent[c] = 0
  /\ pc # "idle" => call # 0 /\ sent[call] = (IF pc = "request" THEN i ELSE i + 1)
  /\ pc = "wait" => i < Retries

(* The attempts of request c that the eIM has not worked off. *)
Pending(c) == {m \in inbox : m.of = c}

(* The eIM performs a request once for each attempt that it got, at the most. *)
Performances ==
  /\ IsFiniteSet(inbox)
  /\ \A c \in Calls : performed[c] + Cardinality(Pending(c)) <= sent[c]

(* Every request opens no more connections than it makes attempts. *)
Attempts ==
  /\ call = 0 => conns = 0
  /\ call # 0 => conns <= (call - 1) * (Retries + 1) + i + (IF pc = "request" THEN 0 ELSE 1)

(* Received so far and on its way: what is left of one answer. *)
Arriving(a) ==
  /\ Len(res) + Len(wire) = Len(a)
  /\ \A k \in 1..Len(res) : res[k] = a[k]
  /\ \A k \in 1..Len(wire) : wire[k] = a[Len(res) + k]

Unanswered == {m \in inbox : m.conn = curl}

(* The connection in use carries the attempt in hand, or its answer, and nothing
   else; between two attempts it carries nothing.                                *)
Exclusive ==
  /\ curl <= conns /\ \A m \in inbox : m.conn <= conns
  /\ pc = "perform" => curl # 0
  /\ pc # "perform" => wire = <<>> /\ Unanswered = {}
  /\ pc = "perform" =>
       \/ /\ res = <<>> /\ wire = <<>>
          /\ \A m \in Unanswered : m.of = call
          /\ \A m, n \in Unanswered : m = n
       \/ /\ Unanswered = {}
          /\ \E status \in Statuses :
               Arriving(Answer(call, status)) /\ (status = "done" => performed[call] > 0)

IInv == TypeOK /\ Progress /\ Performances /\ Attempts /\ Exclusive /\ AnswerIsOwn

-----------------------------------------------------------------------------
(* Lemmas about the operators of the model *)

(* An answer is a sequence of pieces, of which only the last ends it. *)
LEMMA AnswerShape ==
  ASSUME NEW c \in Calls, NEW status \in Statuses
  PROVE  /\ Answer(c, status) \in Seq(Pieces)
         /\ Len(Answer(c, status)) \in 1..Parts
         /\ \A k \in 1..Len(Answer(c, status)) :
              /\ Answer(c, status)[k].status = status
              /\ Answer(c, status)[k].part = Parts => k = Len(Answer(c, status))
<1> USE EsipaAssumption
<1>1. CASE status = "empty"
  <2>1. Answer(c, status) = <<Piece(c, Parts, status)>> /\ Piece(c, Parts, status) \in Pieces
    BY <1>1 DEF Answer, Piece, Pieces
  <2> QED BY <2>1 DEF Piece
<1>2. CASE status # "empty"
  <2>1. Answer(c, status) = [k \in 1..Parts |-> Piece(c, k, status)]
    BY <1>2 DEF Answer
  <2>2. \A k \in 1..Parts : Piece(c, k, status) \in Pieces
    BY DEF Piece, Pieces
  <2>3. Answer(c, status) \in Seq(Pieces) /\ Len(Answer(c, status)) = Parts
    BY <2>1, <2>2
  <2> QED BY <2>1, <2>3 DEF Piece
<1> QED BY <1>1, <1>2

(* There are no more connections than attempts, and no more attempts than connection
   numbers.                                                                         *)
LEMMA ConnsBounded ==
  ASSUME TypeOK, NEW n \in Nat, call # 0, n <= (call - 1) * (Retries + 1) + i + 1
  PROVE  n \in Conns \cup {0}
<1> DEFINE K == Retries + 1
<1>1. K \in Nat \ {0} /\ call \in 1..MaxCalls /\ MaxCalls \in Nat /\ i + 1 <= K /\ i \in Nat
  BY EsipaAssumption DEF TypeOK, Calls
<1>2. \A a, b, k \in Nat : a <= b => a * k <= b * k
  OBVIOUS
<1>3. (call - 1) * K + K = call * K
  BY <1>1
<1>4. call * K <= MaxCalls * K /\ call * K \in Nat /\ (call - 1) * K \in Nat
  BY <1>1, <1>2
<1>5. MaxCalls * K \in Nat
  BY <1>1
<1>6. n <= MaxCalls * K
  <2> HIDE DEF K
  <2>1. n <= (call - 1) * K + i + 1
    BY DEF K
  <2> QED BY <2>1, <1>1, <1>3, <1>4, <1>5
<1> QED BY <1>6, <1>5 DEF Conns, K

(* To work an attempt off takes one from the pending ones of its request. *)
LEMMA PendingRemoved ==
  ASSUME IsFiniteSet(inbox), NEW m \in inbox, inbox' = inbox \ {m}
  PROVE  /\ IsFiniteSet(inbox')
         /\ Cardinality(Pending(m.of)') + 1 = Cardinality(Pending(m.of))
         /\ Cardinality(Pending(m.of)) \in Nat /\ Cardinality(Pending(m.of)') \in Nat
         /\ \A c : c # m.of => Pending(c)' = Pending(c)
<1>1. IsFiniteSet(inbox')
  BY FS_RemoveElement
<1>2. IsFiniteSet(Pending(m.of)) /\ m \in Pending(m.of)
  BY FS_Subset DEF Pending
<1>3. Pending(m.of)' = Pending(m.of) \ {m}
  BY DEF Pending
<1>4. Cardinality(Pending(m.of)') = Cardinality(Pending(m.of)) - 1
  BY <1>2, <1>3, FS_RemoveElement
<1>5. Cardinality(Pending(m.of)) \in Nat
  BY <1>2, FS_CardinalityType
<1>6. IsFiniteSet(Pending(m.of)')
  BY <1>2, <1>3, FS_RemoveElement
<1>7. Cardinality(Pending(m.of)') \in Nat
  BY <1>6, FS_CardinalityType
<1>8. \A c : c # m.of => Pending(c)' = Pending(c)
  BY DEF Pending
<1> QED BY <1>1, <1>4, <1>5, <1>7, <1>8

(* An attempt that gets through is one more pending attempt of its request. *)
LEMMA PendingAdded ==
  ASSUME IsFiniteSet(inbox), NEW m, inbox' = inbox \/ inbox' = inbox \cup {m}
  PROVE  /\ IsFiniteSet(inbox')
         /\ Cardinality(Pending(m.of)') <= Cardinality(Pending(m.of)) + 1
         /\ Cardinality(Pending(m.of)) \in Nat /\ Cardinality(Pending(m.of)') \in Nat
         /\ \A c : c # m.of => Pending(c)' = Pending(c)
<1>1. IsFiniteSet(inbox')
  BY FS_AddElement
<1>2. IsFiniteSet(Pending(m.of)) /\ IsFiniteSet(Pending(m.of)')
  BY <1>1, FS_Subset DEF Pending
<1>3. Pending(m.of)' = Pending(m.of) \/ Pending(m.of)' = Pending(m.of) \cup {m}
  BY DEF Pending
<1>4. Cardinality(Pending(m.of)) \in Nat /\ Cardinality(Pending(m.of)') \in Nat
  BY <1>2, FS_CardinalityType
<1>5. Cardinality(Pending(m.of)') <= Cardinality(Pending(m.of)) + 1
  BY <1>2, <1>3, <1>4, FS_AddElement
<1>6. \A c : c # m.of => Pending(c)' = Pending(c)
  BY DEF Pending
<1> QED BY <1>1, <1>4, <1>5, <1>6

-----------------------------------------------------------------------------
(* The inductive invariant *)

(* Each round of the loop makes one attempt, for the request in hand. *)
LEMMA ProgressStep == ASSUME TypeOK, Progress, [Next]_vars PROVE Progress'
<1> USE EsipaAssumption DEF TypeOK, Progress, Calls
<1>1. CASE ipa_poll \/ ipa_close \/ UNCHANGED vars
  BY <1>1 DEF ipa_poll, ipa_close, vars
<1>2. CASE ipa_esipa_req
  BY <1>2 DEF ipa_esipa_req
<1>3. CASE ipa_http_req
  BY <1>3 DEF ipa_http_req
<1>4. CASE store_response_cb
  BY <1>4 DEF store_response_cb
<1>5. CASE request_answered
  BY <1>5 DEF request_answered
<1>6. CASE attempt_failed
  <2>1. pc = "perform" /\ UNCHANGED <<call, i, sent>>
    BY <1>6 DEF attempt_failed
  <2>2. CASE i >= Retries
    <3>1. pc' = "idle" /\ state' = [state EXCEPT ![call] = "failed"]
      BY <1>6, <2>2 DEF attempt_failed, GivesUp
    <3> QED BY <2>1, <3>1
  <2>3. CASE ~(i >= Retries)
    <3>1. pc' = "wait" /\ UNCHANGED state
      BY <1>6, <2>3 DEF attempt_failed, GivesUp
    <3>2. i < Retries
      BY <2>3
    <3> QED BY <2>1, <3>1, <3>2
  <2> QED BY <2>2, <2>3
<1>7. CASE retry
  BY <1>7 DEF retry
<1>8. CASE Crash
  BY <1>8 DEF Crash
<1>9. ASSUME NEW m \in inbox, NEW status \in Statuses, EimAnswers(m, status) PROVE Progress'
  BY <1>9 DEF EimAnswers
<1> QED BY <1>1, <1>2, <1>3, <1>4, <1>5, <1>6, <1>7, <1>8, <1>9 DEF Next, Request

(* A connection is opened for an attempt only. *)
LEMMA AttemptsStep == ASSUME TypeOK, Progress, Attempts, [Next]_vars PROVE Attempts'
<1> USE DEF TypeOK, Progress, Attempts, Calls
<1>1. CASE ipa_poll \/ ipa_close \/ UNCHANGED vars
  BY <1>1 DEF ipa_poll, ipa_close, netVars, vars
<1>2. CASE ipa_esipa_req
  <2> DEFINE K == Retries + 1
  <2>1. call' = call + 1 /\ i' = 0 /\ pc' = "request" /\ conns' = conns /\ pc = "idle" /\ call \in Nat
    BY <1>2 DEF ipa_esipa_req, netVars
  <2>2. (call' - 1) * K = call * K /\ (call - 1) * K + K = call * K /\ call * K \in Nat
    BY <2>1, EsipaAssumption
  <2>3. conns' <= (call' - 1) * K
    <3>1. CASE call = 0
      BY <2>1, <2>2, <3>1
    <3>2. CASE call # 0
      <4>1. conns <= (call - 1) * K + i + 1 /\ i + 1 <= K /\ K \in Nat /\ conns \in Nat
        BY <2>1, <3>2, EsipaAssumption DEF Conns
      <4>2. call - 1 \in Nat
        BY <2>1, <3>2
      <4>3. (call - 1) * K \in Nat
        <5>1. \A a, b \in Nat : a * b \in Nat
          OBVIOUS
        <5> HIDE DEF K, TypeOK, Progress, Attempts
        <5> QED BY <4>1, <4>2, <5>1
      <4> HIDE DEF K
      <4> QED BY <2>1, <2>2, <4>1, <4>3
    <3> QED BY <3>1, <3>2
  <2> QED BY <2>1, <2>3, <2>2
<1>3. CASE ipa_http_req
  <2> DEFINE before == (call - 1) * (Retries + 1)
  <2>1. pc = "request" /\ pc' = "perform" /\ UNCHANGED <<call, i>> /\ conns' \in {conns, conns + 1} /\ call # 0
    BY <1>3 DEF ipa_http_req
  <2>2. before \in Int /\ conns \in Int /\ i \in Int
    BY <2>1, EsipaAssumption DEF Conns
  <2>3. conns <= before + i + (IF pc = "request" THEN 0 ELSE 1)
    BY <2>1
  <2>4. conns' <= before + i + 1
    <3> HIDE DEF before
    <3> QED BY <2>1, <2>2, <2>3
  <2> QED BY <2>1, <2>4
<1>4. CASE store_response_cb \/ request_answered \/ attempt_failed
  BY <1>4 DEF store_response_cb, request_answered, attempt_failed, netVars
<1>5. CASE retry
  <2> DEFINE before == (call - 1) * (Retries + 1)
  <2>1. pc = "wait" /\ pc' = "request" /\ UNCHANGED <<call, conns>> /\ i' = i + 1 /\ call # 0
    BY <1>5 DEF retry, netVars
  <2>2. before \in Int /\ conns \in Int /\ i \in Int
    BY <2>1, EsipaAssumption DEF Conns
  <2>3. conns <= before + i + 1
    BY <2>1
  <2>4. conns <= before + (i + 1) + 0
    <3> HIDE DEF before
    <3> QED BY <2>2, <2>3
  <2> QED BY <2>1, <2>4
<1>6. CASE Crash
  <2> DEFINE before == (call - 1) * (Retries + 1)
  <2>1. pc' = "idle" /\ UNCHANGED <<call, conns, i>>
    BY <1>6 DEF Crash
  <2>2. before \in Int /\ conns \in Int /\ i \in Int
    BY EsipaAssumption DEF Conns
  <2>3. call # 0 => conns <= before + i + 1
    <3>1. call # 0 => conns <= before + i + (IF pc = "request" THEN 0 ELSE 1)
      OBVIOUS
    <3> HIDE DEF before
    <3> QED BY <2>2, <3>1
  <2> QED BY <2>1, <2>3
<1>7. ASSUME NEW m \in inbox, NEW status \in Statuses, EimAnswers(m, status) PROVE Attempts'
  BY <1>7 DEF EimAnswers
<1> QED BY <1>1, <1>2, <1>3, <1>4, <1>5, <1>6, <1>7 DEF Next, Request

(* Only what has been sent is performed, and each attempt once. *)
LEMMA PerformancesStep ==
  ASSUME TypeOK, Progress, Performances, [Next]_vars PROVE Performances'
<1>1. CASE UNCHANGED <<inbox, performed, sent>>
  BY <1>1 DEF Performances, Pending
<1>2. CASE ipa_http_req
  <2>1. /\ call \in Calls /\ performed' = performed
        /\ \E arrives \in BOOLEAN :
             inbox' = IF arrives THEN inbox \cup {[conn |-> curl', of |-> call, try |-> i]} ELSE inbox
        /\ sent' = [sent EXCEPT ![call] = @ + 1]
    BY <1>2 DEF ipa_http_req, TypeOK, Progress
  <2>2. PICK r, m : r = call /\ m = [conn |-> curl', of |-> call, try |-> i]
    OBVIOUS
  <2>5. m.of = r /\ (inbox' = inbox \/ inbox' = inbox \cup {m})
    BY <2>1, <2>2
  <2>3. /\ IsFiniteSet(inbox')
        /\ Cardinality(Pending(r)') <= Cardinality(Pending(r)) + 1
        /\ Cardinality(Pending(r)) \in Nat /\ Cardinality(Pending(r)') \in Nat
        /\ \A c : c # r => Pending(c)' = Pending(c)
    BY <2>5, PendingAdded DEF Performances
  <2>4. ASSUME NEW c \in Calls PROVE performed'[c] + Cardinality(Pending(c)') <= sent'[c]
    <3>1. performed[c] + Cardinality(Pending(c)) <= sent[c] /\ performed[c] \in Nat /\ sent[c] \in Nat
      BY DEF Performances, TypeOK
    <3>2. sent' = [sent EXCEPT ![r] = @ + 1] /\ r \in Calls
      BY <2>1, <2>2
    <3>3. CASE c = r
      BY <2>1, <2>3, <3>1, <3>2, <3>3 DEF TypeOK
    <3>4. CASE c # r
      BY <2>1, <2>3, <3>1, <3>2, <3>4 DEF TypeOK
    <3> QED BY <3>3, <3>4
  <2> QED BY <2>3, <2>4 DEF Performances
<1>3. ASSUME NEW m \in inbox, NEW status \in Statuses, EimAnswers(m, status) PROVE Performances'
  <2>1. /\ m.of \in Calls /\ sent' = sent /\ inbox' = inbox \ {m}
        /\ performed' = performed \/ performed' = [performed EXCEPT ![m.of] = @ + 1]
    BY <1>3 DEF EimAnswers, TypeOK
  <2>2. /\ IsFiniteSet(inbox')
        /\ Cardinality(Pending(m.of)') + 1 = Cardinality(Pending(m.of))
        /\ Cardinality(Pending(m.of)) \in Nat /\ Cardinality(Pending(m.of)') \in Nat
        /\ \A c : c # m.of => Pending(c)' = Pending(c)
    BY <2>1, PendingRemoved DEF Performances
  <2>3. ASSUME NEW c \in Calls PROVE performed'[c] + Cardinality(Pending(c)') <= sent'[c]
    <3>1. performed[c] + Cardinality(Pending(c)) <= sent[c] /\ performed[c] \in Nat /\ sent[c] \in Nat
      BY DEF Performances, TypeOK
    <3>2. CASE c = m.of
      BY <2>1, <2>2, <3>1, <3>2 DEF TypeOK
    <3>3. CASE c # m.of
      BY <2>1, <2>2, <3>1, <3>3 DEF TypeOK
    <3> QED BY <3>2, <3>3
  <2> QED BY <2>2, <2>3 DEF Performances
<1> QED BY <1>1, <1>2, <1>3 DEF Next, Request, ipa_poll, ipa_esipa_req, store_response_cb, request_answered,
           attempt_failed, retry, ipa_close, Crash, netVars, vars

(* What the connection in use carries is the attempt in hand or its answer: a new
   connection is one no attempt has used, and one is kept for the next request
   only when it is idle.                                                          *)
LEMMA ExclusiveStep ==
  ASSUME TypeOK, Progress, Exclusive, [Next]_vars PROVE Exclusive'
<1>0. /\ inbox \subseteq [conn : Conns, of : Calls, try : 0..Retries] /\ curl \in Nat /\ conns \in Nat
      /\ \A m \in inbox : m.conn \in Nat \ {0}
  BY EsipaAssumption DEF TypeOK, Conns
<1>1. CASE ipa_poll \/ ipa_esipa_req
  BY <1>1 DEF ipa_poll, ipa_esipa_req, netVars, Exclusive, Unanswered
<1>2. CASE ipa_http_req
  <2>1. /\ pc = "request" /\ pc' = "perform" /\ res' = <<>> /\ call' = call
        /\ IF curl = 0 THEN curl' = conns + 1 /\ conns' = conns + 1 /\ wire' = <<>>
           ELSE UNCHANGED <<curl, conns, wire>>
        /\ inbox' = inbox \/ inbox' = inbox \cup {[conn |-> curl', of |-> call, try |-> i]}
    BY <1>2 DEF ipa_http_req
  <2>2. wire' = <<>> /\ curl' # 0 /\ curl' \in Nat /\ conns' \in Nat /\ conns <= conns' /\ curl' <= conns'
    BY <1>0, <2>1 DEF Exclusive
  <2>3. \A m \in inbox : m.conn # curl' /\ m.conn <= conns
    BY <1>0, <2>1 DEF Exclusive, Unanswered
  <2>4. \A m \in inbox' : m.conn <= conns'
    BY <1>0, <2>1, <2>2, <2>3
  <2>5. \A m \in Unanswered' : m = [conn |-> curl', of |-> call, try |-> i]
    BY <2>1, <2>3 DEF Unanswered
  <2>6. (\A m \in Unanswered' : m.of = call') /\ \A m, n \in Unanswered' : m = n
    BY <2>1, <2>5
  <2> QED BY <2>1, <2>2, <2>4, <2>6 DEF Exclusive
<1>3. CASE store_response_cb
  <2>1. /\ pc = "perform" /\ wire # <<>> /\ res' = Append(res, Head(wire)) /\ wire' = Tail(wire)
        /\ UNCHANGED <<pc, call, curl, conns, inbox, performed>>
    BY <1>3 DEF store_response_cb
  <2>2. Unanswered = {} /\ Unanswered' = Unanswered
    BY <2>1 DEF Exclusive, Unanswered
  <2>3. PICK status \in Statuses :
          Arriving(Answer(call, status)) /\ (status = "done" => performed[call] > 0)
    BY <2>1 DEF Exclusive
  <2> DEFINE a == Answer(call, status)
  <2>4. Arriving(a)
    BY <2>3
  <2>5. Answer(call, status)' = a
    BY <2>1 DEF Answer, Piece
  <2>6. /\ Len(res') + Len(wire') = Len(a)
        /\ \A k \in 1..Len(res') : res'[k] = a[k]
        /\ \A k \in 1..Len(wire') : wire'[k] = a[Len(res') + k]
    <3> HIDE DEF a
    <3>1. res \in Seq(Pieces) /\ wire \in Seq(Pieces)
      BY DEF TypeOK
    <3>2. Len(res') = Len(res) + 1 /\ Len(wire') = Len(wire) - 1 /\ Len(wire) \in Nat \ {0} /\ Len(res) \in Nat
      BY <2>1, <3>1
    <3>3. \A k \in 1..Len(wire') : wire'[k] = wire[k + 1]
      BY <2>1, <3>1
    <3>4. \A k \in 1..Len(res) : res'[k] = res[k]
      BY <2>1, <3>1
    <3>5. res'[Len(res) + 1] = wire[1]
      BY <2>1, <3>1
    <3>6. wire[1] = a[Len(res) + 1]
      BY <2>4, <3>2 DEF Arriving
    <3>7. ASSUME NEW k \in 1..Len(res') PROVE res'[k] = a[k]
      <4>1. k \in 1..Len(res) \/ k = Len(res) + 1
        BY <3>2
      <4> QED BY <2>4, <3>4, <3>5, <3>6, <4>1 DEF Arriving
    <3>8. ASSUME NEW k \in 1..Len(wire') PROVE wire'[k] = a[Len(res') + k]
      <4>1. k + 1 \in 1..Len(wire) /\ Len(res') + k = Len(res) + (k + 1)
        BY <3>2
      <4> QED BY <2>4, <3>3, <4>1 DEF Arriving
    <3>9. Len(res') + Len(wire') = Len(a)
      BY <2>4, <3>2 DEF Arriving
    <3> QED BY <3>7, <3>8, <3>9
  <2>7. Arriving(Answer(call, status))'
    BY <2>5, <2>6 DEF Arriving
  <2>8. status = "done" => performed'[call'] > 0
    BY <2>1, <2>3
  <2> QED BY <2>1, <2>2, <2>7, <2>8 DEF Exclusive
<1>4. CASE request_answered
  <2>1. /\ pc = "perform" /\ Complete /\ pc' = "idle"
        /\ UNCHANGED <<curl, res, conns, inbox, wire>>
    BY <1>4 DEF request_answered, netVars
  <2>2. res # <<>> /\ res \in Seq(Pieces) /\ wire \in Seq(Pieces) /\ res[Len(res)].part = Parts
    BY <2>1 DEF Complete, Last, TypeOK
  <2>3. Unanswered = {}
    BY <2>1, <2>2 DEF Exclusive
  <2>4. PICK status \in Statuses : Arriving(Answer(call, status))
    BY <2>1, <2>2 DEF Exclusive
  <2>5. call \in Calls
    BY <2>1 DEF Progress, TypeOK
  <2>6. Len(res) = Len(Answer(call, status))
    <3>1. /\ Len(Answer(call, status)) \in Nat
          /\ \A k \in 1..Len(Answer(call, status)) :
               Answer(call, status)[k].part = Parts => k = Len(Answer(call, status))
      BY <2>5, AnswerShape
    <3>2. Len(res) \in Nat \ {0} /\ Len(wire) \in Nat /\ Len(res) + Len(wire) = Len(Answer(call, status))
      BY <2>2, <2>4 DEF Arriving
    <3>3. Len(res) \in 1..Len(Answer(call, status)) /\ res[Len(res)] = Answer(call, status)[Len(res)]
      BY <2>4, <3>1, <3>2 DEF Arriving
    <3> QED BY <2>2, <3>1, <3>3
  <2>7. wire = <<>>
    BY <2>2, <2>4, <2>6 DEF Arriving
  <2> QED BY <2>1, <2>3, <2>7 DEF Exclusive, Unanswered
<1>5. CASE attempt_failed \/ ipa_close \/ Crash
  <2>1. curl' = 0 /\ wire' = <<>> /\ pc' # "perform" /\ UNCHANGED <<conns, inbox>>
    BY <1>5 DEF attempt_failed, ipa_close, Crash, ipa_http_close
  <2>2. Unanswered' = {}
    BY <1>0, <2>1 DEF Unanswered
  <2> QED BY <1>0, <2>1, <2>2 DEF Exclusive
<1>6. CASE retry
  BY <1>6 DEF retry, netVars, Exclusive, Unanswered
<1>7. ASSUME NEW m \in inbox, NEW status \in Statuses, EimAnswers(m, status) PROVE Exclusive'
  <2>1. /\ inbox' = inbox \ {m} /\ wire' = IF m.conn = curl THEN wire \o Answer(m.of, status) ELSE wire
        /\ performed' = IF status = "done" THEN [performed EXCEPT ![m.of] = @ + 1] ELSE performed
        /\ UNCHANGED <<pc, call, curl, res, conns>>
    BY <1>7 DEF EimAnswers
  <2>2. Unanswered' = Unanswered \ {m} /\ m.of \in Calls
    BY <1>0, <2>1 DEF Unanswered
  <2>3. \A c \in Calls : performed[c] > 0 => performed'[c] > 0
    BY <2>1, <2>2 DEF TypeOK
  <2>4. CASE m.conn # curl
    <3>1. wire' = wire
      BY <2>1, <2>4
    <3>2. \A s : Answer(call, s)' = Answer(call, s)
      BY <2>1 DEF Answer, Piece
    <3>3. \A s : Arriving(Answer(call, s)) => Arriving(Answer(call, s))'
      BY <2>1, <3>1, <3>2 DEF Arriving
    <3>4. call # 0 => call \in Calls
      BY DEF TypeOK
    <3>5. pc = "perform" => call # 0
      BY DEF Progress
    <3> QED BY <2>1, <2>2, <2>3, <3>1, <3>3, <3>4, <3>5 DEF Exclusive
  <2>5. CASE m.conn = curl
    <3>1. m \in Unanswered
      BY <2>5 DEF Unanswered
    <3>2. pc = "perform" /\ res = <<>> /\ wire = <<>> /\ m.of = call /\ Unanswered' = {}
      BY <2>2, <3>1 DEF Exclusive
    <3>3. Answer(call, status) \in Seq(Pieces) /\ call \in Calls
      BY <2>2, <3>2, AnswerShape
    <3>4. wire' = Answer(call, status) /\ res' = <<>>
      BY <2>1, <2>5, <3>2, <3>3
    <3>5. Answer(call, status)' = Answer(call, status)
      BY <2>1 DEF Answer, Piece
    <3>6. Arriving(Answer(call, status))'
      BY <3>3, <3>4, <3>5 DEF Arriving
    <3>7. status = "done" => performed'[call'] > 0
      BY <2>1, <3>2, <3>3 DEF TypeOK
    <3> QED BY <2>1, <3>2, <3>6, <3>7 DEF Exclusive
  <2> QED BY <2>4, <2>5
<1>8. CASE UNCHANGED vars
  <2>1. \A s : Answer(call, s)' = Answer(call, s)
    BY <1>8 DEF vars, Answer, Piece
  <2>2. \A s : Arriving(Answer(call, s)) => Arriving(Answer(call, s))'
    BY <1>8, <2>1 DEF vars, Arriving
  <2> QED BY <1>8, <2>2 DEF vars, Exclusive, Unanswered
<1> QED BY <1>1, <1>2, <1>3, <1>4, <1>5, <1>6, <1>7, <1>8 DEF Next, Request

(* What bounds the attempts and the performances of each request. *)
LEMMA Bounds ==
  ASSUME TypeOK, Progress, [Next]_vars, Progress', Performances', NEW c \in Calls,
         sent' \in [Calls -> Nat], performed' \in [Calls -> Nat], sent'[c] <= Retries + 1
  PROVE  performed'[c] \in 0..(Retries + 1)
<1>1. IsFiniteSet(Pending(c)')
  BY FS_Subset DEF Performances, Pending
<1>2. Cardinality(Pending(c)') \in Nat
  BY <1>1, FS_CardinalityType
<1>3. performed'[c] + Cardinality(Pending(c)') <= sent'[c] /\ performed'[c] \in Nat /\ sent'[c] \in Nat
  BY DEF Performances
<1> QED BY <1>2, <1>3, EsipaAssumption

(* Every action keeps the types. *)
LEMMA TypeStep ==
  ASSUME TypeOK, Progress, Attempts, Exclusive, [Next]_vars, Attempts', Progress', Performances'
  PROVE  TypeOK'
<1> USE EsipaAssumption
<1>1. Len(res) + Len(wire) <= Parts /\ Len(res) \in Nat /\ Len(wire) \in Nat
  BY DEF TypeOK
<1>2. CASE ipa_poll \/ ipa_esipa_req \/ retry \/ UNCHANGED vars
  <2>1. CASE ipa_poll \/ UNCHANGED vars
    BY <2>1 DEF TypeOK, ipa_poll, netVars, vars
  <2>2. CASE ipa_esipa_req
    BY <2>2 DEF TypeOK, ipa_esipa_req, netVars, Calls
  <2>3. CASE retry
    <3>1. i + 1 \in 0..Retries
      BY <2>3 DEF retry, TypeOK, Progress
    <3> QED BY <2>3, <3>1 DEF TypeOK, retry, netVars
  <2> QED BY <1>2, <2>1, <2>2, <2>3
<1>3. CASE ipa_http_req
  <2>1. /\ pc' = "perform" /\ res' = <<>> /\ wire' \in {wire, <<>>} /\ conns' \in {conns, conns + 1}
        /\ curl' \in {curl, conns'} /\ curl' # 0
        /\ \E arrives \in BOOLEAN :
             inbox' = IF arrives THEN inbox \cup {[conn |-> curl', of |-> call, try |-> i]} ELSE inbox
        /\ UNCHANGED <<call, i, check_http, state, performed, crashes>> /\ call \in Calls
    BY <1>3 DEF ipa_http_req, Progress, TypeOK, Conns
  <2>2. conns' \in Conns \cup {0}
    <3>1. conns' \in Nat /\ conns' <= (call - 1) * (Retries + 1) + i + 1 /\ call # 0
      BY <2>1 DEF Attempts, TypeOK, Conns, Calls
    <3>2. \A n \in Nat : n <= (call - 1) * (Retries + 1) + i + 1 => n \in Conns \cup {0}
      BY <3>1, ConnsBounded
    <3> QED BY <3>1, <3>2
  <2>3. curl' \in Conns
    BY <2>1, <2>2 DEF TypeOK
  <2>4. inbox' \subseteq [conn : Conns, of : Calls, try : 0..Retries]
    BY <2>1, <2>3 DEF TypeOK
  <2>5. res' \in Seq(Pieces) /\ wire' \in Seq(Pieces) /\ Len(res' \o wire') <= Parts
    <3>1. wire \in Seq(Pieces) /\ Len(wire) <= Parts
      BY <1>1 DEF TypeOK
    <3>2. res' = <<>> /\ wire' \in Seq(Pieces) /\ Len(wire') <= Parts
      <4>1. CASE wire' = wire
        BY <2>1, <3>1, <4>1
      <4>2. CASE wire' = <<>>
        BY <2>1, <4>2
      <4> QED BY <2>1, <4>1, <4>2
    <3> QED BY <3>2
  <2>6. sent' \in [Calls -> 0..(Retries + 1)]
    BY <1>3, <2>1 DEF ipa_http_req, TypeOK, Progress
  <2> QED BY <2>1, <2>2, <2>3, <2>4, <2>5, <2>6 DEF TypeOK
<1>4. CASE store_response_cb
  <2>1. /\ wire # <<>> /\ res' = Append(res, Head(wire)) /\ wire' = Tail(wire)
        /\ UNCHANGED <<pc, call, i, curl, check_http, conns, inbox, state, performed, sent, crashes>>
    BY <1>4 DEF store_response_cb
  <2>2. res' \in Seq(Pieces) /\ wire' \in Seq(Pieces)
        /\ Len(res') = Len(res) + 1 /\ Len(wire') = Len(wire) - 1
    BY <2>1 DEF TypeOK
  <2>3. Len(res' \o wire') <= Parts
    BY <1>1, <2>2
  <2> QED BY <2>1, <2>2, <2>3 DEF TypeOK
<1>5. CASE request_answered
  BY <1>5 DEF TypeOK, request_answered, netVars
<1>6. CASE attempt_failed \/ ipa_close \/ Crash
  <2>1. wire' = <<>> /\ curl' = 0 /\ res' \in {res, <<>>}
    BY <1>6 DEF attempt_failed, ipa_close, Crash, ipa_http_close
  <2>2. res' \in Seq(Pieces) /\ wire' \in Seq(Pieces) /\ Len(res' \o wire') <= Parts
    <3>1. res \in Seq(Pieces) /\ Len(res) <= Parts
      BY <1>1 DEF TypeOK
    <3>2. wire' = <<>> /\ res' \in Seq(Pieces) /\ Len(res') <= Parts
      <4>1. CASE res' = res
        BY <2>1, <3>1, <4>1
      <4>2. CASE res' = <<>>
        BY <2>1, <4>2
      <4> QED BY <2>1, <4>1, <4>2
    <3> QED BY <3>2
  <2>3. CASE attempt_failed
    BY <2>1, <2>2, <2>3 DEF TypeOK, attempt_failed
  <2>4. CASE ipa_close
    BY <2>1, <2>2, <2>4 DEF TypeOK, ipa_close
  <2>5. CASE Crash
    <3>1. state' \in [Calls -> {"new", "open", "answered", "failed"}]
      BY <2>5 DEF TypeOK, Crash
    <3>2. crashes' \in 0..MaxCrashes
      BY <2>5 DEF TypeOK, Crash
    <3> QED BY <2>1, <2>2, <2>5, <3>1, <3>2 DEF TypeOK, Crash
  <2> QED BY <1>6, <2>3, <2>4, <2>5
<1>7. ASSUME NEW m \in inbox, NEW status \in Statuses, EimAnswers(m, status) PROVE TypeOK'
  <2>1. /\ inbox' = inbox \ {m} /\ wire' = IF m.conn = curl THEN wire \o Answer(m.of, status) ELSE wire
        /\ performed' = IF status = "done" THEN [performed EXCEPT ![m.of] = @ + 1] ELSE performed
        /\ UNCHANGED <<pc, call, i, curl, res, check_http, conns, state, sent, crashes>>
    BY <1>7 DEF EimAnswers
  <2>2. m.of \in Calls /\ m.conn \in Conns /\ Len(Answer(m.of, status)) <= Parts
        /\ Answer(m.of, status) \in Seq(Pieces)
    BY AnswerShape DEF TypeOK
  <2>3. wire' \in Seq(Pieces) /\ Len(res' \o wire') <= Parts
    <3>1. CASE m.conn = curl
      <4>1. wire = <<>> /\ res = <<>>
        BY <2>2, <3>1 DEF Exclusive, Unanswered, Conns
      <4> QED BY <2>1, <2>2, <3>1, <4>1
    <3>2. CASE m.conn # curl
      BY <2>1, <3>2 DEF TypeOK
    <3> QED BY <3>1, <3>2
  <2>4. performed' \in [Calls -> Nat] /\ sent' \in [Calls -> Nat] /\ \A c \in Calls : sent'[c] <= Retries + 1
    BY SMTT(30), <2>1, <2>2 DEF TypeOK
  <2>5. performed' \in [Calls -> 0..(Retries + 1)]
    BY <2>4, Bounds
  <2> QED BY <2>1, <2>3, <2>5 DEF TypeOK
<1> QED BY <1>2, <1>3, <1>4, <1>5, <1>6, <1>7 DEF Next, Request

(* The piece that completes what arrives is the last of the answer, so that the
   IPAd holds all of it then.                                                   *)
LEMMA CompleteIsWhole ==
  ASSUME TypeOK, Progress, Exclusive, pc = "perform", Complete
  PROVE  \E status \in Statuses :
           /\ res = Answer(call, status) /\ Last(res).status = status
           /\ status = "done" => performed[call] > 0
<1>1. res # <<>> /\ res \in Seq(Pieces) /\ wire \in Seq(Pieces) /\ Last(res) = res[Len(res)]
      /\ res[Len(res)].part = Parts /\ call \in Calls
  BY DEF Complete, Last, TypeOK, Progress
<1>2. PICK status \in Statuses :
        Arriving(Answer(call, status)) /\ (status = "done" => performed[call] > 0)
  BY <1>1 DEF Exclusive
<1> DEFINE a == Answer(call, status)
<1>3. /\ a \in Seq(Pieces) /\ Len(a) \in Nat
      /\ \A k \in 1..Len(a) : a[k].status = status /\ (a[k].part = Parts => k = Len(a))
  BY <1>1, AnswerShape
<1>4. Arriving(a)
  BY <1>2
<1> HIDE DEF a
<1>5. Len(res) \in Nat \ {0} /\ Len(wire) \in Nat /\ Len(res) + Len(wire) = Len(a)
  BY <1>1, <1>4 DEF Arriving
<1>6. Len(res) \in 1..Len(a) /\ res[Len(res)] = a[Len(res)]
  BY <1>3, <1>4, <1>5 DEF Arriving
<1>7. Len(res) = Len(a)
  BY <1>1, <1>3, <1>6
<1>8. res = a
  BY <1>1, <1>3, <1>4, <1>7 DEF Arriving
<1> QED BY <1>1, <1>2, <1>3, <1>6, <1>8 DEF a

(* An answer is handed up once it is complete, and stays until the next attempt. *)
LEMMA AnswerStep ==
  ASSUME TypeOK, Progress, Exclusive, AnswerIsOwn, [Next]_vars PROVE AnswerIsOwn'
<1>0. \A s : Answer(call, s)' = Answer(call', s)
  BY DEF Answer, Piece
<1>1. CASE request_answered
  <2>1. /\ pc = "perform" /\ Complete /\ call' = call /\ res' = res /\ call \in Calls
        /\ state' = [state EXCEPT ![call] = IF Decodes(Last(res).status) THEN "answered" ELSE "failed"]
    BY <1>1 DEF request_answered, Progress, TypeOK
  <2>2. PICK status \in Statuses : res = Answer(call, status) /\ Last(res).status = status
    BY <2>1, CompleteIsWhole
  <2>3. state'[call] = "answered" => status = "done"
    BY <2>1, <2>2 DEF Decodes, TypeOK
  <2> QED BY <1>0, <2>1, <2>2, <2>3 DEF AnswerIsOwn
<1>2. CASE Crash
  <2>1. call' = call /\ res' = res /\ (call # 0 => call \in Calls)
    BY <1>2 DEF Crash, TypeOK
  <2>2. call # 0 /\ state'[call] = "answered" => state[call] = "answered" /\ pc = "idle"
    BY <1>2, <2>1 DEF Crash, TypeOK, Progress
  <2> QED BY <1>0, <2>1, <2>2 DEF AnswerIsOwn
<1>3. CASE ipa_poll \/ ipa_close \/ UNCHANGED vars
  BY <1>0, <1>3 DEF ipa_poll, ipa_close, vars, AnswerIsOwn
<1>4. CASE ipa_esipa_req \/ ipa_http_req \/ store_response_cb \/ retry
  BY <1>4 DEF ipa_esipa_req, ipa_http_req, store_response_cb, retry, AnswerIsOwn
<1>5. CASE attempt_failed
  <2>1. pc' = "idle" => state'[call'] # "answered"
    BY <1>5 DEF attempt_failed, Progress, TypeOK
  <2> QED BY <2>1 DEF AnswerIsOwn
<1>6. ASSUME NEW m \in inbox, NEW status \in Statuses, EimAnswers(m, status) PROVE AnswerIsOwn'
  BY <1>0, <1>6 DEF EimAnswers, AnswerIsOwn
<1> QED BY <1>1, <1>2, <1>3, <1>4, <1>5, <1>6 DEF Next, Request

LEMMA InitIInv == Init => IInv
<1> SUFFICES ASSUME Init PROVE IInv
  OBVIOUS
<1> USE EsipaAssumption DEF Init
<1>1. TypeOK
  <2>1. res \in Seq(Pieces) /\ wire \in Seq(Pieces) /\ Len(res \o wire) <= Parts
    OBVIOUS
  <2>2. curl \in Conns \cup {0} /\ conns \in Conns \cup {0} /\ i \in 0..Retries /\ crashes \in 0..MaxCrashes
        /\ inbox \subseteq [conn : Conns, of : Calls, try : 0..Retries]
    OBVIOUS
  <2>3. /\ state \in [Calls -> {"new", "open", "answered", "failed"}]
        /\ performed \in [Calls -> 0..(Retries + 1)] /\ sent \in [Calls -> 0..(Retries + 1)]
    OBVIOUS
  <2> QED BY <2>1, <2>2, <2>3 DEF TypeOK
<1>2. Progress /\ Attempts /\ Exclusive /\ AnswerIsOwn
  BY DEF Progress, Attempts, Exclusive, Unanswered, AnswerIsOwn, Calls
<1>3. Performances
  <2>1. \A c \in Calls : Pending(c) = {}
    BY DEF Pending
  <2>2. IsFiniteSet(inbox) /\ \A c \in Calls : Cardinality(Pending(c)) = 0
    BY <2>1, FS_EmptySet
  <2> QED BY <2>2 DEF Performances
<1> QED BY <1>1, <1>2, <1>3 DEF IInv

LEMMA NextIInv == IInv /\ [Next]_vars => IInv'
<1> SUFFICES ASSUME IInv, [Next]_vars PROVE IInv'
  OBVIOUS
<1>1. Progress' /\ Attempts' /\ Performances' /\ Exclusive'
  BY ProgressStep, AttemptsStep, PerformancesStep, ExclusiveStep DEF IInv
<1> QED BY <1>1, TypeStep, AnswerStep DEF IInv

(* Every variable stays in its type: no request is tried more often than
   configured, performed more often than tried, nor a second answer on the wire. *)
THEOREM EsipaTypeCorrect == Spec => []TypeOK
BY InitIInv, NextIInv, PTL DEF Spec, IInv

(* What is handed to a procedure is the eIM's whole answer to the request just made,
   also when earlier attempts or requests are answered late.                       *)
THEOREM AnswersOwnRequest == Spec => []AnswerIsOwn
BY InitIInv, NextIInv, PTL DEF Spec, IInv

-----------------------------------------------------------------------------
(* The canary *)

LEMMA CanaryStep ==
  ASSUME IInv, [Next]_vars, NEW c \in Calls,
         state[c] = "open", state'[c] = "failed", crashes' = crashes
  PROVE  IF res' = <<>> THEN check_http' /\ curl' = 0 /\ sent[c] = Retries + 1
         ELSE check_http' = check_http /\ curl' # 0
<1>1. c = call /\ pc # "idle"
  BY DEF IInv, Progress
<1>2. CASE request_answered
  BY <1>2 DEF request_answered, Complete, IInv, Exclusive
<1>3. CASE attempt_failed
  <2>1. GivesUp /\ check_http' = TRUE /\ res' = <<>> /\ curl' = 0 /\ pc = "perform"
    BY <1>3 DEF attempt_failed, ipa_http_close
  <2>2. sent[call] = i + 1 /\ i \in 0..Retries
    BY <1>1, <2>1 DEF IInv, Progress, TypeOK
  <2>3. i = Retries
    BY <2>1, <2>2, EsipaAssumption DEF GivesUp
  <2> QED BY <1>1, <2>1, <2>2, <2>3
<1>4. ~ipa_poll /\ ~ipa_esipa_req /\ ~ipa_close
  BY <1>1 DEF ipa_poll, ipa_esipa_req, ipa_close
<1>5. ~ipa_http_req /\ ~store_response_cb /\ ~retry /\ ~UNCHANGED vars
  BY DEF ipa_http_req, store_response_cb, retry, vars
<1>6. ~Crash
  BY DEF Crash, IInv, TypeOK
<1>7. \A m \in inbox, status \in Statuses : ~EimAnswers(m, status)
  BY DEF EimAnswers
<1> QED BY <1>2, <1>3, <1>4, <1>5, <1>6, <1>7 DEF Next, Request

(* A request raises the canary exactly when nothing answered it, and then it has been
   tried as often as configured: an answer that is of no use does not raise it.      *)
THEOREM CanaryIsExact == Spec => CanaryExact
<1>1. IInv /\ [Next]_vars =>
        [\A c \in Calls :
           state[c] = "open" /\ state'[c] = "failed" /\ crashes' = crashes =>
             IF res' = <<>> THEN check_http' /\ curl' = 0 /\ sent[c] = Retries + 1
             ELSE check_http' = check_http /\ curl' # 0]_vars
  BY CanaryStep
<1> QED BY <1>1, InitIInv, NextIInv, PTL DEF Spec, CanaryExact

-----------------------------------------------------------------------------
(* A request with its retries implements PeerCall: the loop is invisible, what the
   eIM performs late is one of the performances it allows.                        *)

LEMMA RefineStep ==
  ASSUME IInv, IInv', [Next]_vars PROVE [OneCall!Next]_(OneCall!callVars)
<1> USE DEF OneCall!callVars, OneCall!Next
<1>1. TypeOK /\ Progress /\ Exclusive
  BY DEF IInv
<1>2. \A c \in Calls : performed'[c] <= Retries + 1 /\ performed[c] \in Nat
  <2>1. performed' \in [Calls -> 0..(Retries + 1)] /\ performed \in [Calls -> 0..(Retries + 1)]
    BY DEF IInv, TypeOK
  <2> QED BY <2>1, EsipaAssumption
<1>3. CASE ipa_esipa_req
  <2>1. /\ call' = call + 1 /\ call' \in Calls /\ call \in Nat /\ pc = "idle"
        /\ state' = [state EXCEPT ![call'] = "open"] /\ performed' = performed
    BY <1>1, <1>3 DEF ipa_esipa_req, TypeOK, Calls
  <2>2. state[call'] = "new" /\ \A d \in Calls : state[d] # "open"
    BY <1>1, <2>1 DEF Progress
  <2> QED BY <2>1, <2>2 DEF OneCall!Begin
<1>4. CASE request_answered
  <2>1. /\ pc = "perform" /\ Complete /\ call \in Calls /\ performed' = performed
        /\ state' = [state EXCEPT ![call] = IF Decodes(Last(res).status) THEN "answered" ELSE "failed"]
    BY <1>1, <1>4 DEF request_answered, Progress, TypeOK
  <2>2. state[call] = "open"
    BY <1>1, <2>1 DEF Progress
  <2>3. Decodes(Last(res).status) => performed[call] > 0
    BY <1>1, <2>1, CompleteIsWhole DEF Decodes
  <2> QED BY <1>2, <2>1, <2>2, <2>3 DEF OneCall!Work
<1>5. CASE attempt_failed
  <2>1. /\ call \in Calls /\ performed' = performed /\ state[call] = "open"
        /\ state' = state \/ state' = [state EXCEPT ![call] = "failed"]
    BY <1>1, <1>5 DEF attempt_failed, Progress, TypeOK
  <2> QED BY <1>2, <2>1 DEF OneCall!Work
<1>6. CASE Crash
  <2>1. performed' = performed /\ state' = [c \in Calls |-> IF state[c] = "open" THEN "failed" ELSE state[c]]
    BY <1>6 DEF Crash
  <2>2. CASE pc = "idle"
    <3>1. \A c \in Calls : state[c] # "open"
      BY <1>1, <2>2 DEF Progress
    <3>2. state' = state
      BY <1>1, <2>1, <3>1 DEF TypeOK
    <3> QED BY <2>1, <3>2
  <2>3. CASE pc # "idle"
    <3>1. call \in Calls /\ \A c \in Calls : state[c] = "open" <=> c = call
      BY <1>1, <2>3 DEF Progress, TypeOK
    <3>2. state' = [state EXCEPT ![call] = "failed"]
      BY <1>1, <2>1, <3>1 DEF TypeOK
    <3> QED BY <1>2, <2>1, <3>1, <3>2 DEF OneCall!Work
  <2> QED BY <2>2, <2>3
<1>7. ASSUME NEW m \in inbox, NEW status \in Statuses, EimAnswers(m, status)
      PROVE [OneCall!Next]_(OneCall!callVars)
  <2>1. /\ m.of \in Calls /\ state' = state
        /\ performed' \in {performed, [performed EXCEPT ![m.of] = @ + 1]}
    BY <1>1, <1>7 DEF EimAnswers, TypeOK
  <2>2. CASE performed' = performed
    BY <2>1, <2>2
  <2>3. CASE performed' # performed
    <3>1. performed'[m.of] > 0
      BY <1>1, <1>2, <2>1, <2>3 DEF TypeOK
    <3>2. state[m.of] # "new"
      <4>1. IsFiniteSet(Pending(m.of)) /\ m \in Pending(m.of)
        BY FS_Subset DEF IInv, Performances, Pending
      <4>2. Cardinality(Pending(m.of)) \in Nat \ {0}
        BY <4>1, FS_CardinalityType, FS_EmptySet
      <4>3. performed[m.of] + Cardinality(Pending(m.of)) <= sent[m.of] /\ sent[m.of] \in Nat
        BY <1>1, <2>1 DEF IInv, Performances, TypeOK
      <4>4. sent[m.of] # 0
        BY <1>2, <2>1, <4>2, <4>3
      <4> QED BY <1>1, <2>1, <4>4 DEF Progress, TypeOK
    <3> QED BY <1>2, <2>1, <3>2 DEF OneCall!Work
  <2> QED BY <2>2, <2>3
<1>8. CASE ipa_poll \/ ipa_http_req \/ store_response_cb \/ retry \/ ipa_close \/ UNCHANGED vars
  BY <1>8 DEF ipa_poll, ipa_http_req, store_response_cb, retry, ipa_close, vars
<1> QED BY <1>3, <1>4, <1>5, <1>6, <1>7, <1>8 DEF Next, Request

(* A procedure that makes a request of the eIM may rely on what PeerCall promises,
   with as many performances as there are tries.                                  *)
THEOREM EsipaImplementsCall == Spec => CallSpec
<1>1. Init => OneCall!Init
  BY DEF Init, OneCall!Init
<1>2. IInv /\ IInv' /\ [Next]_vars => [OneCall!Next]_(OneCall!callVars)
  BY RefineStep
<1> QED BY <1>1, <1>2, InitIInv, NextIInv, PTL DEF Spec, CallSpec, OneCall!Spec

(* No two requests of the eIM are open at a time, none is performed more often than it
   is tried or before it was made, and one that is answered was performed.            *)
THEOREM EsipaCallsAccounted == Spec => []OneCall!Accounted
<1> DEFINE Acc ==
      /\ OneCall!Accounted
      /\ state \in [Calls -> OneCall!States] /\ performed \in [Calls -> Nat]
<1>1. OneCall!Init => Acc
  BY EsipaAssumption DEF OneCall!Init, OneCall!Accounted, OneCall!States
<1>2. Acc /\ [OneCall!Next]_(OneCall!callVars) => Acc'
  <2> SUFFICES ASSUME Acc, [OneCall!Next]_(OneCall!callVars) PROVE Acc'
    OBVIOUS
  <2>1. ASSUME NEW c \in Calls, OneCall!Begin(c) PROVE Acc'
    BY <2>1 DEF OneCall!Begin, OneCall!Accounted, OneCall!States
  <2>2. ASSUME NEW c \in Calls, OneCall!Work(c) PROVE Acc'
    <3>1. /\ performed' \in [Calls -> Nat] /\ state' \in [Calls -> OneCall!States]
          /\ \A d \in Calls : d # c => performed'[d] = performed[d] /\ state'[d] = state[d]
          /\ state[c] # "new" /\ state'[c] # "new"
          /\ performed'[c] \in Nat /\ performed[c] <= performed'[c] /\ performed'[c] <= Retries + 1
          /\ state'[c] = "answered" => performed'[c] > 0
          /\ state'[c] = "open" => state[c] = "open"
      BY <2>2 , EsipaAssumption DEF OneCall!Work, OneCall!Accounted, OneCall!States
    <3> QED BY <3>1, EsipaAssumption DEF OneCall!Accounted
  <2>3. CASE UNCHANGED OneCall!callVars
    BY <2>3 DEF OneCall!callVars, OneCall!Accounted, OneCall!States
  <2> QED BY <2>1, <2>2, <2>3 DEF OneCall!Next
<1>3. Acc => OneCall!Accounted
  OBVIOUS
<1> QED BY <1>1, <1>2, <1>3, EsipaImplementsCall, PTL DEF CallSpec, OneCall!Spec

(* A request of the eIM that has returned is over: a try the eIM performs later does
   not change the outcome.                                                           *)
THEOREM EsipaCallsSettled == Spec => OneCall!Settled
<1>1. state \in [Calls -> OneCall!States] /\ [OneCall!Next]_(OneCall!callVars)
      => [\A c \in Calls : state[c] \in {"answered", "failed"} => state'[c] = state[c]]_(OneCall!callVars)
  BY DEF OneCall!Next, OneCall!Begin, OneCall!Work, OneCall!callVars
<1>2. TypeOK => state \in [Calls -> OneCall!States]
  BY DEF TypeOK, OneCall!States
<1> QED BY <1>1, <1>2, EsipaImplementsCall, EsipaTypeCorrect, PTL DEF CallSpec, OneCall!Spec, OneCall!Settled
=============================================================================

--------------------------- MODULE MessagesProofs ---------------------------
(***************************************************************************)
(* Proofs about the messages of a channel, the bots that answer them and   *)
(* the reports about them, for every set of requests: one message per      *)
(* nonce, one reply to an interaction, one companion for an owner and one  *)
(* server for a companion, and evidence with every report.                 *)
(***************************************************************************)
EXTENDS MessageSend, Bots, Reports, TLAPS

(* Leaves go to Zenon unless they name another prover. *)
USE Zenon

(* What the provers are told of sequences. *)
LEMMA LenFacts ==
    ASSUME NEW S, NEW s \in Seq(S)
    PROVE  Len(s) \in Nat /\ s \in [1 .. Len(s) -> S] /\ DOMAIN s = 1 .. Len(s)
BY SMT

LEMMA MakesSeq ==
    ASSUME NEW S, NEW n \in Nat, NEW s \in [1 .. n -> S]
    PROVE  s \in Seq(S)
BY SMT

LEMMA AppendFacts ==
    ASSUME NEW S, NEW s \in Seq(S), NEW x \in S
    PROVE  /\ Append(s, x) \in Seq(S) /\ Len(Append(s, x)) = Len(s) + 1
           /\ \A i \in 1 .. Len(s) : Append(s, x)[i] = s[i]
           /\ Append(s, x)[Len(s) + 1] = x
BY SMT

LEMMA EmptyFacts == \A S : <<>> \in Seq(S)
BY SMT

(***************************************************************************)
(* Messages.  What carries a nonce, a delivered message or one on its way, *)
(* has it in the cache or saw it dropped from there, and shares it with    *)
(* nothing else unless it was dropped.                                     *)
(***************************************************************************)
Cache(c) == c \in Seq(Nonces)

CarrierOK(m, last) == {"id", "nonce"} \subseteq DOMAIN m /\ m.id \in Nat /\ m.id <= last

Seen(m, cache, old) == m.nonce = NoNonce \/ m.nonce \in Range(cache) \cup old

Apart(m, n, old) == m.id # n.id /\ (m.nonce = n.nonce /\ m.nonce # NoNonce => m.nonce \in old)

(* The ids of the messages delivered, and the requests that send a new one. *)
Delivered(h) == {h[i].id : i \in DOMAIN h}
Sending(q, h) == q # NoRequest /\ q.msg.id \notin Delivered(h)

RequestOK(q, last) ==
    q # NoRequest => /\ q = [at |-> q.at, todo |-> q.todo, msg |-> q.msg]
                     /\ CarrierOK(q.msg, last)

NonceOK(cache, old, reqs, last, h) ==
    /\ Cache(cache) /\ last \in Nat
    /\ DOMAIN reqs = SRequests
    /\ h \in Seq({h[i] : i \in DOMAIN h})
    /\ \A i \in DOMAIN h : CarrierOK(h[i], last) /\ Seen(h[i], cache, old)
    /\ \A i, j \in DOMAIN h : i # j => Apart(h[i], h[j], old)
    /\ \A r \in SRequests : RequestOK(reqs[r], last)
    /\ \A r \in SRequests : Sending(reqs[r], h) =>
          /\ Seen(reqs[r].msg, cache, old)
          /\ \A i \in DOMAIN h : Apart(reqs[r].msg, h[i], old)
          /\ \A q \in SRequests : (q # r /\ Sending(reqs[q], h)) => Apart(reqs[r].msg, reqs[q].msg, old)

NonceIInv == NonceOK(TOKEN_CACHE, evicted, request, next_id, history)

LEMMA NoncePrimed ==
    ASSUME NonceOK(TOKEN_CACHE', evicted', request', next_id', history')
    PROVE  NonceIInv'
  BY DEF NonceIInv, NonceOK, Cache, CarrierOK, Seen, Apart, Delivered, Sending, RequestOK, NoRequest, Range

LEMMA ConsumeAdds ==
    ASSUME NEW c, Cache(c), NEW n \in Nonces \cup {NoNonce}
    PROVE  /\ Cache(Consume(c, n))
           /\ n # NoNonce => n \in Range(Consume(c, n))
<1>1. CASE n = NoNonce
  BY <1>1 DEF Consume
<1>2. CASE n # NoNonce
  <2>1. ASSUME NEW s \in Seq(Nonces) PROVE Cache(Append(s, n)) /\ n \in Range(Append(s, n))
    <3>1. /\ Append(s, n) \in Seq(Nonces) /\ Len(Append(s, n)) = Len(s) + 1 /\ Len(s) \in Nat
          /\ Append(s, n)[Len(s) + 1] = n /\ DOMAIN Append(s, n) = 1 .. Len(s) + 1
      BY <1>2, AppendFacts, LenFacts, SMT
    <3> QED
      BY <3>1, SMT DEF Cache, Range
  <2>2. Len(c) = NonceCapacity => Tail(c) \in Seq(Nonces)
    BY MessageSendAssumption, SMT DEF Cache
  <2> QED
    BY <1>2, <2>1, <2>2 DEF Consume, Cache
<1> QED
  BY <1>1, <1>2

LEMMA AppendsTo ==
    ASSUME NEW h, h \in Seq({h[i] : i \in DOMAIN h}), NEW m, NEW g, g = Append(h, m)
    PROVE  /\ g \in Seq({g[i] : i \in DOMAIN g})
           /\ Len(h) \in Nat /\ DOMAIN h = 1 .. Len(h) /\ DOMAIN g = 1 .. Len(h) + 1
           /\ \A i \in DOMAIN h : g[i] = h[i]
           /\ g[Len(h) + 1] = m
<1> DEFINE S == {h[i] : i \in DOMAIN h} \cup {m}
<1>1. h \in Seq(S)
  <2>1. Len(h) \in Nat /\ h \in [1 .. Len(h) -> {h[i] : i \in DOMAIN h}]
    BY LenFacts
  <2> QED
    BY <2>1, MakesSeq
<1>2. /\ g \in Seq(S) /\ Len(g) = Len(h) + 1 /\ Len(h) \in Nat /\ DOMAIN h = 1 .. Len(h)
      /\ DOMAIN g = 1 .. Len(g)
      /\ \A i \in 1 .. Len(h) : g[i] = h[i]
      /\ g[Len(h) + 1] = m
  BY <1>1, AppendFacts, LenFacts, SMT
<1> HIDE DEF S
<1>3. g \in Seq({g[i] : i \in DOMAIN g})
  BY <1>2, MakesSeq, LenFacts, SMT
<1> QED
  BY <1>2, <1>3

LEMMA RequestTo ==
    ASSUME NonceIInv, NEW r \in SRequests, NEW q, request' = [request EXCEPT ![r] = q]
    PROVE  /\ DOMAIN request' = SRequests /\ request'[r] = q
           /\ \A x \in SRequests : x # r => request'[x] = request[x]
  BY DEF NonceIInv, NonceOK

(* A request moves on with the message it has, edits one or is over. *)
LEMMA RequestMoves ==
    ASSUME NonceIInv, NEW r \in SRequests, DOMAIN request' = SRequests,
           \A x \in SRequests : x # r => request'[x] = request[x],
           RequestOK(request'[r], next_id),
           Sending(request'[r], history) =>
              /\ Sending(request[r], history)
              /\ request'[r].msg.id = request[r].msg.id /\ request'[r].msg.nonce = request[r].msg.nonce,
           UNCHANGED <<TOKEN_CACHE, evicted, next_id, history>>
    PROVE  NonceIInv'
<1>1. \A x \in SRequests : RequestOK(request'[x], next_id)
  BY DEF NonceIInv, NonceOK
<1>2. \A x \in SRequests : Sending(request'[x], history) =>
         /\ Sending(request[x], history)
         /\ request'[x].msg.id = request[x].msg.id /\ request'[x].msg.nonce = request[x].msg.nonce
  OBVIOUS
<1>3. \A x \in SRequests : Sending(request'[x], history) =>
         /\ Seen(request'[x].msg, TOKEN_CACHE, evicted)
         /\ \A i \in DOMAIN history : Apart(request'[x].msg, history[i], evicted)
  BY <1>2, SMT DEF NonceIInv, NonceOK, Seen, Apart
<1>4. \A x, q \in SRequests : (q # x /\ Sending(request'[x], history) /\ Sending(request'[q], history)) =>
         Apart(request'[x].msg, request'[q].msg, evicted)
  BY <1>2, SMT DEF NonceIInv, NonceOK, Apart
<1>5. NonceOK(TOKEN_CACHE', evicted', request', next_id', history')
  BY <1>1, <1>3, <1>4 DEF NonceIInv, NonceOK
<1> QED
  BY <1>5, NoncePrimed

LEMMA RequestEnds ==
    ASSUME NonceIInv, NEW r \in SRequests, request' = [request EXCEPT ![r] = NoRequest],
           UNCHANGED <<TOKEN_CACHE, evicted, next_id, history>>
    PROVE  NonceIInv'
<1>1. RequestOK(NoRequest, next_id) /\ ~Sending(NoRequest, history)
  BY DEF RequestOK, Sending
<1> QED
  BY <1>1, RequestTo, RequestMoves

LEMMA FindKeeps ==
    ASSUME NonceIInv, NEW r \in SRequests, FindAttachment(r)
    PROVE  NonceIInv'
<1>1. UNCHANGED <<TOKEN_CACHE, evicted, next_id, history>>
  BY DEF FindAttachment
<1>2. CASE request' = [request EXCEPT ![r].at = "use"]
  <2> DEFINE q == [request[r] EXCEPT !.at = "use"]
  <2>1. request[r] # NoRequest
    BY SMT DEF FindAttachment, NoRequest
  <2>2. RequestOK(request[r], next_id)
    BY DEF NonceIInv, NonceOK
  <2>3. /\ q = [at |-> q.at, todo |-> q.todo, msg |-> q.msg] /\ q.msg = request[r].msg
    BY <2>1, <2>2, SMT DEF RequestOK
  <2>4. request' = [request EXCEPT ![r] = q]
    BY <1>2
  <2> HIDE DEF q
  <2>5. /\ DOMAIN request' = SRequests /\ request'[r] = q
        /\ \A x \in SRequests : x # r => request'[x] = request[x]
    BY <2>4, RequestTo
  <2>6. RequestOK(request'[r], next_id)
    BY <2>1, <2>2, <2>3, <2>5 DEF RequestOK
  <2>7. Sending(request'[r], history) => Sending(request[r], history)
    BY <2>1, <2>3, <2>5 DEF Sending
  <2> QED
    BY <1>1, <2>3, <2>5, <2>6, <2>7, RequestMoves
<1>3. CASE request' = [request EXCEPT ![r] = NoRequest]
  BY <1>1, <1>3, RequestEnds
<1> QED
  BY <1>2, <1>3 DEF FindAttachment, Abandon

LEMMA UseKeeps ==
    ASSUME NonceIInv, NEW r \in SRequests, UseAttachment(r)
    PROVE  NonceIInv'
<1> DEFINE f == Head(request[r].todo)
           m == [request[r].msg EXCEPT !.files = @ \cup {f}]
           q == [at |-> "attach", todo |-> Tail(request[r].todo), msg |-> m]
<1>1. request[r] # NoRequest
  BY SMT DEF UseAttachment, NoRequest
<1>2. CarrierOK(request[r].msg, next_id)
  BY <1>1 DEF NonceIInv, NonceOK, RequestOK
<1>3. CarrierOK(m, next_id) /\ m.id = request[r].msg.id /\ m.nonce = request[r].msg.nonce
  BY <1>2 DEF CarrierOK
<1> HIDE DEF m
<1>4. /\ request' = [request EXCEPT ![r] = q] /\ q.msg = m
      /\ q = [at |-> q.at, todo |-> q.todo, msg |-> q.msg]
  BY DEF UseAttachment, m
<1> HIDE DEF q
<1>5. /\ DOMAIN request' = SRequests /\ request'[r] = q
      /\ \A x \in SRequests : x # r => request'[x] = request[x]
  BY <1>4, RequestTo
<1>6. RequestOK(request'[r], next_id)
  BY <1>3, <1>4, <1>5 DEF RequestOK
<1>7. Sending(request'[r], history) => Sending(request[r], history)
  BY <1>1, <1>3, <1>4, <1>5 DEF Sending
<1>8. UNCHANGED <<TOKEN_CACHE, evicted, next_id, history>>
  BY DEF UseAttachment
<1> QED
  BY <1>3, <1>4, <1>5, <1>6, <1>7, <1>8, RequestMoves

LEMMA EditMessageKeeps ==
    ASSUME NonceIInv, NEW r \in SRequests, NEW i \in DOMAIN history, NEW d, edit_message(r, i, d)
    PROVE  NonceIInv'
<1> DEFINE m == [history[i] EXCEPT !.files = {}]
           q == [at |-> "attach", todo |-> d.files, msg |-> m]
<1>1. CarrierOK(history[i], next_id)
  BY DEF NonceIInv, NonceOK
<1>2. CarrierOK(m, next_id) /\ m.id = history[i].id
  BY <1>1 DEF CarrierOK
<1> HIDE DEF m
<1>3. /\ request' = [request EXCEPT ![r] = q] /\ q.msg = m
      /\ q = [at |-> q.at, todo |-> q.todo, msg |-> q.msg]
  BY DEF edit_message, m
<1> HIDE DEF q
<1>4. /\ DOMAIN request' = SRequests /\ request'[r] = q
      /\ \A x \in SRequests : x # r => request'[x] = request[x]
  BY <1>3, RequestTo
<1>5. RequestOK(request'[r], next_id) /\ ~Sending(request'[r], history)
  BY <1>2, <1>3, <1>4 DEF RequestOK, Sending, Delivered
<1>6. UNCHANGED <<TOKEN_CACHE, evicted, next_id, history>>
  BY DEF edit_message
<1> QED
  BY <1>4, <1>5, <1>6, RequestMoves

LEMMA SendKeeps ==
    ASSUME NonceIInv, NEW r \in SRequests, send_message(r)
    PROVE  NonceIInv'
<1> DEFINE m == request[r].msg
           n == Len(history) + 1
<1>1. /\ history' = Append(history, m) /\ request' = [request EXCEPT ![r] = NoRequest]
      /\ UNCHANGED <<TOKEN_CACHE, evicted, next_id>>
  BY DEF send_message
<1>2. Sending(request[r], history) /\ CarrierOK(m, next_id)
  <2>1. request[r] # NoRequest
    BY SMT DEF send_message, NoRequest
  <2> QED
    BY <2>1 DEF send_message, Edits, Sending, Delivered, NonceIInv, NonceOK, RequestOK
<1>3. /\ history' \in Seq({history'[i] : i \in DOMAIN history'})
      /\ DOMAIN history = 1 .. Len(history) /\ DOMAIN history' = 1 .. n /\ Len(history) \in Nat
      /\ \A i \in DOMAIN history : history'[i] = history[i]
      /\ history'[n] = m
  <2>1. history \in Seq({history[i] : i \in DOMAIN history})
    BY DEF NonceIInv, NonceOK
  <2>2. PICK g : g = Append(history, m)
    OBVIOUS
  <2> HIDE DEF m
  <2>3. /\ g \in Seq({g[i] : i \in DOMAIN g})
        /\ Len(history) \in Nat /\ DOMAIN history = 1 .. Len(history)
        /\ DOMAIN g = 1 .. Len(history) + 1
        /\ \A i \in DOMAIN history : g[i] = history[i]
        /\ g[Len(history) + 1] = m
    BY <2>1, <2>2, AppendsTo, SMT
  <2> QED
    BY <1>1, <2>2, <2>3
<1> HIDE DEF m
<1>4. \A i \in DOMAIN history' : i = n \/ i \in DOMAIN history
  BY <1>3, SMT
<1>5. /\ DOMAIN request' = SRequests /\ request'[r] = NoRequest
      /\ \A x \in SRequests : x # r => request'[x] = request[x]
  BY <1>1, RequestTo
<1>6. /\ Seen(m, TOKEN_CACHE, evicted)
      /\ \A i \in DOMAIN history : Apart(m, history[i], evicted)
  BY <1>2 DEF NonceIInv, NonceOK, m
<1>7. \A x \in SRequests : Sending(request'[x], history') => x # r /\ Sending(request[x], history)
  BY <1>3, <1>5, SMT DEF Sending, Delivered
<1>8. \A x \in SRequests : Sending(request'[x], history') => Apart(request[x].msg, m, evicted)
  BY <1>2, <1>7 DEF NonceIInv, NonceOK, m
<1>9. \A i \in DOMAIN history' : CarrierOK(history'[i], next_id) /\ Seen(history'[i], TOKEN_CACHE, evicted)
  BY <1>2, <1>3, <1>4, <1>6 DEF NonceIInv, NonceOK, m
<1>10. \A i, j \in DOMAIN history' : i # j => Apart(history'[i], history'[j], evicted)
  <2> SUFFICES ASSUME NEW i \in DOMAIN history', NEW j \in DOMAIN history', i # j
               PROVE  Apart(history'[i], history'[j], evicted)
    OBVIOUS
  <2>1. CASE i \in DOMAIN history /\ j \in DOMAIN history
    BY <1>3, <2>1 DEF NonceIInv, NonceOK
  <2>2. CASE i = n /\ j \in DOMAIN history
    BY <1>3, <1>6, <2>2
  <2>3. CASE i \in DOMAIN history /\ j = n
    BY <1>3, <1>6, <2>3 DEF Apart
  <2> QED
    BY <1>4, <2>1, <2>2, <2>3
<1>11. \A x \in SRequests : Sending(request'[x], history') =>
          /\ Seen(request'[x].msg, TOKEN_CACHE, evicted)
          /\ \A i \in DOMAIN history' : Apart(request'[x].msg, history'[i], evicted)
          /\ \A q \in SRequests : (q # x /\ Sending(request'[q], history')) =>
                Apart(request'[x].msg, request'[q].msg, evicted)
  BY <1>3, <1>4, <1>5, <1>7, <1>8 DEF NonceIInv, NonceOK
<1>12. \A x \in SRequests : RequestOK(request'[x], next_id)
  BY <1>5 DEF NonceIInv, NonceOK, RequestOK
<1>13. NonceOK(TOKEN_CACHE', evicted', request', next_id', history')
  BY <1>1, <1>3, <1>5, <1>9, <1>10, <1>11, <1>12 DEF NonceIInv, NonceOK
<1> QED
  BY <1>13, NoncePrimed

LEMMA UpdateMessageKeeps ==
    ASSUME NonceIInv, NEW r \in SRequests, UpdateMessage(r)
    PROVE  NonceIInv'
<1>1. PICK k \in DOMAIN history : history' = [history EXCEPT ![k].files = @ \cup request[r].msg.files]
  BY DEF UpdateMessage, Edits
<1>2. request' = [request EXCEPT ![r] = NoRequest] /\ UNCHANGED <<TOKEN_CACHE, evicted, next_id>>
  BY DEF UpdateMessage
<1>3. /\ DOMAIN request' = SRequests /\ request'[r] = NoRequest
      /\ \A x \in SRequests : x # r => request'[x] = request[x]
  BY <1>2, RequestTo
<1>4. /\ DOMAIN history' = DOMAIN history
      /\ \A i \in DOMAIN history :
            CarrierOK(history'[i], next_id) /\ history'[i].id = history[i].id /\ history'[i].nonce = history[i].nonce
  <2>1. \A i \in DOMAIN history : CarrierOK(history[i], next_id)
    BY DEF NonceIInv, NonceOK
  <2> QED
    BY <1>1, <2>1 DEF CarrierOK
<1>5. history' \in Seq({history'[i] : i \in DOMAIN history'})
  <2>1. history \in Seq({history[i] : i \in DOMAIN history})
    BY DEF NonceIInv, NonceOK
  <2>2. Len(history) \in Nat /\ DOMAIN history = 1 .. Len(history)
    BY <2>1, LenFacts
  <2>3. history' = [i \in 1 .. Len(history) |-> history'[i]]
    BY <1>1, <2>2
  <2>4. history' \in [1 .. Len(history) -> {history'[i] : i \in DOMAIN history'}]
    BY <1>4, <2>2, <2>3
  <2> QED
    BY <2>2, <2>4, MakesSeq
<1>6. Delivered(history') = Delivered(history)
  BY <1>4 DEF Delivered
<1>7. \A x \in SRequests : Sending(request'[x], history') => x # r /\ Sending(request[x], history)
  BY <1>3, <1>6 DEF Sending
<1>8. \A i \in DOMAIN history' : CarrierOK(history'[i], next_id) /\ Seen(history'[i], TOKEN_CACHE, evicted)
  BY <1>4 DEF NonceIInv, NonceOK, Seen
<1>9. \A i, j \in DOMAIN history' : i # j => Apart(history'[i], history'[j], evicted)
  BY <1>4, SMT DEF NonceIInv, NonceOK, Apart
<1>10. \A x \in SRequests : Sending(request'[x], history') =>
          /\ Seen(request'[x].msg, TOKEN_CACHE, evicted)
          /\ \A q \in SRequests : (q # x /\ Sending(request'[q], history')) =>
                Apart(request'[x].msg, request'[q].msg, evicted)
  BY <1>3, <1>7 DEF NonceIInv, NonceOK
<1>11. \A x \in SRequests : Sending(request'[x], history') =>
          \A i \in DOMAIN history' : Apart(request'[x].msg, history'[i], evicted)
  BY <1>3, <1>4, <1>7, SMT DEF NonceIInv, NonceOK, Apart
<1>12. \A x \in SRequests : RequestOK(request'[x], next_id)
  BY <1>3 DEF NonceIInv, NonceOK, RequestOK
<1>13. NonceOK(TOKEN_CACHE', evicted', request', next_id', history')
  BY <1>2, <1>3, <1>5, <1>8, <1>9, <1>10, <1>11, <1>12 DEF NonceIInv, NonceOK
<1> QED
  BY <1>13, NoncePrimed

(* The cache moves on: what it drops is counted as evicted. *)
LEMMA SeenStays ==
    ASSUME NEW m, NEW c, NEW h, NEW e, NEW old,
           Seen(m, c, old)
    PROVE  Seen(m, e, old \cup Dropped(c, h) \cup Dropped(h, e))
  BY DEF Seen, Dropped

LEMMA ApartStays ==
    ASSUME NEW m, NEW n, NEW old, NEW new, old \subseteq new, Apart(m, n, old)
    PROVE  Apart(m, n, new)
  BY DEF Apart

(* A message that is accepted has a nonce that nothing has that is not     *)
(* evicted.                                                                *)
LEMMA KeyIsFresh ==
    ASSUME NonceIInv, NEW d \in SendInputs, from_request(d), consume_nonce(d)
    PROVE  LET new == evicted \cup Dropped(TOKEN_CACHE, AfterHeader(d)) \cup Dropped(AfterHeader(d), AfterNonce(d)) IN
           /\ Cache(AfterHeader(d)) /\ Cache(AfterNonce(d))
           /\ KeyOf(d) # NoNonce => KeyOf(d) \in Range(AfterNonce(d))
           /\ \A m : Seen(m, TOKEN_CACHE, evicted) => (m.nonce = KeyOf(d) /\ m.nonce # NoNonce => m.nonce \in new)
<1>1. /\ d.header \in Nonces \cup {NoNonce} /\ d.nonce \in Nonces \cup {NoNonce}
      /\ Cache(TOKEN_CACHE)
  BY MessageSendAssumption DEF NonceIInv, NonceOK
<1>2. Cache(AfterHeader(d)) /\ (d.header # NoNonce => d.header \in Range(AfterHeader(d)))
  BY <1>1, ConsumeAdds DEF AfterHeader
<1>3. Cache(AfterNonce(d)) /\ (d.nonce # NoNonce => d.nonce \in Range(AfterNonce(d)))
  BY <1>1, <1>2, ConsumeAdds DEF AfterNonce
<1>4. d.nonce = NoNonce => AfterNonce(d) = AfterHeader(d)
  BY DEF AfterNonce, Consume
<1>5. d.header \notin Range(TOKEN_CACHE) /\ d.nonce \notin Range(AfterHeader(d))
  BY DEF from_request, consume_nonce, Fresh
<1> QED
  BY <1>2, <1>3, <1>4, <1>5 DEF KeyOf, Seen, Dropped

LEMMA HeaderKeeps ==
    ASSUME NonceIInv, NEW d \in SendInputs
    PROVE  Cache(AfterHeader(d))
  BY MessageSendAssumption, ConsumeAdds DEF NonceIInv, NonceOK, AfterHeader

LEMMA MessageSendKeeps ==
    ASSUME NonceIInv, NEW r \in SRequests, NEW d \in SendInputs, message_send(r, d)
    PROVE  NonceIInv'
<1> DEFINE q == [at |-> "attach", todo |-> d.files, msg |-> MessageOf(d)]
<1>1. PICK c : /\ TOKEN_CACHE' = c
               /\ evicted' = evicted \cup Dropped(TOKEN_CACHE, AfterHeader(d)) \cup Dropped(AfterHeader(d), c)
               /\ \/ /\ consume_nonce(d) /\ from_request(d) /\ c = AfterNonce(d)
                     /\ request' = [request EXCEPT ![r] = q] /\ next_id' = next_id + 1
                  \/ /\ c = AfterHeader(d) \/ (c = AfterNonce(d) /\ consume_nonce(d))
                     /\ UNCHANGED <<request, next_id>>
  BY DEF message_send
<1>2. from_request(d) /\ history' = history /\ request[r] = NoRequest
  BY DEF message_send
<1>3. Cache(c)
  BY <1>1, <1>2, KeyIsFresh, HeaderKeeps
<1>4. evicted \subseteq evicted' /\ \A m : Seen(m, TOKEN_CACHE, evicted) => Seen(m, c, evicted')
  BY <1>1, SeenStays
<1>5. /\ \A i \in DOMAIN history : Seen(history[i], c, evicted')
      /\ \A i, j \in DOMAIN history : i # j => Apart(history[i], history[j], evicted')
  BY <1>4, ApartStays DEF NonceIInv, NonceOK
<1>6. \A x \in SRequests : Sending(request[x], history) =>
         /\ Seen(request[x].msg, c, evicted')
         /\ \A i \in DOMAIN history : Apart(request[x].msg, history[i], evicted')
         /\ \A y \in SRequests : (y # x /\ Sending(request[y], history)) =>
               Apart(request[x].msg, request[y].msg, evicted')
  BY <1>4, ApartStays DEF NonceIInv, NonceOK
<1>7. CASE UNCHANGED <<request, next_id>>
  <2>1. NonceOK(TOKEN_CACHE', evicted', request', next_id', history')
    BY <1>1, <1>2, <1>3, <1>5, <1>6, <1>7 DEF NonceIInv, NonceOK
  <2> QED
    BY <2>1, NoncePrimed
<1>8. CASE /\ consume_nonce(d) /\ c = AfterNonce(d)
           /\ request' = [request EXCEPT ![r] = q] /\ next_id' = next_id + 1
  <2>1. /\ q.msg.id = next_id + 1 /\ q.msg.nonce = KeyOf(d) /\ q # NoRequest
        /\ q = [at |-> q.at, todo |-> q.todo, msg |-> q.msg] /\ {"id", "nonce"} \subseteq DOMAIN q.msg
    BY DEF MessageOf, NoRequest
  <2> HIDE DEF q
  <2>2. /\ DOMAIN request' = SRequests /\ request'[r] = q
        /\ \A x \in SRequests : x # r => request'[x] = request[x]
    BY <1>8, RequestTo
  <2>3. /\ next_id \in Nat
        /\ \A m : CarrierOK(m, next_id) => CarrierOK(m, next_id') /\ m.id # next_id + 1
    BY <1>8, SMT DEF NonceIInv, NonceOK, CarrierOK
  <2>4. CarrierOK(q.msg, next_id')
    BY <1>8, <2>1, <2>3, SMT DEF CarrierOK
  <2>5. Seen(q.msg, c, evicted')
    BY <1>2, <1>8, <2>1, KeyIsFresh DEF Seen
  <2>6. \A m : CarrierOK(m, next_id) /\ Seen(m, TOKEN_CACHE, evicted)
                  => Apart(q.msg, m, evicted') /\ Apart(m, q.msg, evicted')
    BY <1>1, <1>2, <1>8, <2>1, <2>3, KeyIsFresh DEF Apart
  <2>7. \A x \in SRequests : RequestOK(request'[x], next_id')
    BY <2>1, <2>2, <2>3, <2>4 DEF NonceIInv, NonceOK, RequestOK
  <2>8. \A i \in DOMAIN history : CarrierOK(history[i], next_id') /\ Apart(q.msg, history[i], evicted')
    BY <2>3, <2>6 DEF NonceIInv, NonceOK
  <2>9. \A x \in SRequests : x # r /\ Sending(request[x], history)
           => Apart(q.msg, request[x].msg, evicted') /\ Apart(request[x].msg, q.msg, evicted')
    BY <2>6 DEF NonceIInv, NonceOK, RequestOK, Sending
  <2>10. \A x \in SRequests : Sending(request'[x], history) =>
           /\ Seen(request'[x].msg, c, evicted')
           /\ \A i \in DOMAIN history : Apart(request'[x].msg, history[i], evicted')
           /\ \A y \in SRequests : (y # x /\ Sending(request'[y], history)) =>
                 Apart(request'[x].msg, request'[y].msg, evicted')
    BY <1>6, <2>2, <2>5, <2>8, <2>9
  <2>11. NonceOK(TOKEN_CACHE', evicted', request', next_id', history')
    <3>1. history \in Seq({history[i] : i \in DOMAIN history}) /\ next_id' \in Nat
      BY <1>8, <2>3, SMT DEF NonceIInv, NonceOK
    <3> QED
      BY <1>1, <1>2, <1>3, <1>5, <2>2, <2>7, <2>8, <2>10, <3>1 DEF NonceOK
  <2> QED
    BY <2>11, NoncePrimed
<1> QED
  BY <1>1, <1>7, <1>8

LEMMA SendStepKeeps == NonceIInv /\ [SendNext]_sendVars => NonceIInv'
<1> SUFFICES ASSUME NonceIInv, [SendNext]_sendVars PROVE NonceIInv'
  OBVIOUS
<1>1. CASE \E r \in SRequests, d \in SendInputs : message_send(r, d)
  BY <1>1, MessageSendKeeps
<1>2. CASE \E r \in SRequests : FindAttachment(r) \/ UseAttachment(r) \/ send_message(r) \/ UpdateMessage(r)
  BY <1>2, FindKeeps, UseKeeps, SendKeeps, UpdateMessageKeeps
<1>3. CASE \E r \in SRequests : SendFails(r)
  BY <1>3, RequestEnds DEF SendFails, Abandon
<1>4. CASE \E r \in SRequests, i \in DOMAIN history, d \in EditInputs : edit_message(r, i, d)
  BY <1>4, EditMessageKeeps
<1>5. CASE UNCHANGED sendVars
  <2>1. NonceOK(TOKEN_CACHE', evicted', request', next_id', history')
    BY <1>5 DEF sendVars, NonceIInv
  <2> QED
    BY <2>1, NoncePrimed
<1> QED
  BY <1>1, <1>2, <1>3, <1>4, <1>5 DEF SendNext

LEMMA SendInitOK == SendInit => NonceIInv
<1> SUFFICES ASSUME SendInit PROVE NonceIInv
  OBVIOUS
<1>1. /\ history = <<>> /\ TOKEN_CACHE = <<>> /\ next_id = 0
      /\ DOMAIN request = SRequests /\ \A r \in SRequests : request[r] = NoRequest
  BY DEF SendInit
<1>2. DOMAIN history = {} /\ history \in Seq({history[i] : i \in DOMAIN history}) /\ Cache(TOKEN_CACHE)
  BY <1>1, EmptyFacts, SMT DEF Cache
<1> QED
  BY <1>1, <1>2 DEF NonceIInv, NonceOK, RequestOK, Sending

(* A nonce is good for one message as long as the cache has not dropped it, *)
(* for any capacity of the cache and any number of requests, whichever of  *)
(* header and body carries it.                                             *)
THEOREM AlwaysOncePerNonce == SendSpec => []OncePerNonce
<1>1. NonceIInv => OncePerNonce
  BY DEF NonceIInv, NonceOK, OncePerNonce, Apart
<1> QED
  BY <1>1, SendInitOK, SendStepKeeps, PTL DEF SendSpec

-----------------------------------------------------------------------------
(***************************************************************************)
(* Interactions.  Of an interaction that no two callbacks held at once, at *)
(* most one request holds it or replies to it, it is not in the store once *)
(* a reply is under way or sent, and a reply that was sent is the last.    *)
(***************************************************************************)
Interaction == 1 .. MaxInteractions
CallRecord ==
    {Unused} \cup [op : {"command"}, id : CommandIds, doc : [bot_id : Handlers, name : CommandNames]]
             \cup [op : {"take", "reply"}, id : Interaction, bot : Handlers]

Holds(q, i) == calls[q].op = "take" /\ calls[q].id = i
Replies(q, i) == calls[q].op = "reply" /\ calls[q].id = i
Stored(i) == \E b \in Handlers : <<i, b>> \in pending

OneHolder(i) == \A p, q \in Calls : Holds(p, i) /\ Holds(q, i) => p = q
OneReplier(i) == \A p, q \in Calls : Replies(p, i) /\ Replies(q, i) => p = q
NoHolder(i) == \A q \in Calls : ~Holds(q, i)
NoReplier(i) == \A q \in Calls : ~Replies(q, i)

InteractionFine(i) ==
    /\ OneHolder(i) /\ OneReplier(i)
    /\ NoReplier(i) \/ (NoHolder(i) /\ ~Stored(i) /\ replies[i] = 0)
    /\ replies[i] = 0 \/ (replies[i] = 1 /\ NoHolder(i) /\ NoReplier(i) /\ ~Stored(i))

InteractionsIInv ==
    /\ invoked \in 0 .. MaxInteractions
    /\ commands \in [CommandIds -> [bot_id : Handlers, name : CommandNames] \cup {NoCommand}]
    /\ pending \subseteq (1 .. invoked) \X Handlers
    /\ calls \in [Calls -> CallRecord]
    /\ replies \in [Interaction -> Nat]
    /\ \A q \in Calls : calls[q].op \in {"take", "reply"} => calls[q].id \in 1 .. invoked
    /\ \A i \in Interaction : i > invoked => replies[i] = 0
    /\ \A i \in Interaction : i \notin shared => InteractionFine(i)

LEMMA InteractionsInitOK == InteractionsInit => InteractionsIInv
<1> SUFFICES ASSUME InteractionsInit PROVE InteractionsIInv
  OBVIOUS
<1>1. \A q \in Calls : calls[q] = Unused
  BY DEF InteractionsInit
<1>2. \A i \in Interaction : InteractionFine(i)
  BY <1>1 DEF InteractionsInit, InteractionFine, OneHolder, OneReplier, NoHolder, NoReplier,
              Holds, Replies, Stored, Unused, Interaction
<1> QED
  BY <1>1, <1>2, InteractionsAssumption, SMT
     DEF InteractionsInit, InteractionsIInv, CallRecord, Unused, Interaction

(* What a request may be at. *)
LEMMA CallKinds ==
    ASSUME InteractionsIInv, NEW q \in Calls
    PROVE  /\ calls[q].op \in {"take", "reply"} =>
                /\ calls[q] = [op |-> calls[q].op, id |-> calls[q].id, bot |-> calls[q].bot]
                /\ calls[q].id \in 1 .. invoked /\ calls[q].bot \in Handlers
           /\ calls[q].op = "command" =>
                /\ calls[q].id \in CommandIds
                /\ calls[q].doc \in [bot_id : Handlers, name : CommandNames]
<1>1. calls[q] \in CallRecord
  BY DEF InteractionsIInv
<1>2. CASE calls[q] = Unused
  BY <1>2, SMT DEF Unused
<1>3. CASE calls[q] \in [op : {"command"}, id : CommandIds, doc : [bot_id : Handlers, name : CommandNames]]
  BY <1>3
<1>4. CASE calls[q] \in [op : {"take", "reply"}, id : Interaction, bot : Handlers]
  BY <1>4 DEF InteractionsIInv
<1> QED
  BY <1>1, <1>2, <1>3, <1>4 DEF CallRecord

(* A request moves on. *)
LEMMA CallMoved ==
    ASSUME InteractionsIInv, NEW q \in Calls, NEW r \in CallRecord, CallIs(q, r)
    PROVE  /\ calls' \in [Calls -> CallRecord] /\ calls'[q] = r
           /\ \A p \in Calls : p # q => calls'[p] = calls[p]
  BY DEF InteractionsIInv, CallIs

(* An interaction stays fine when it is held, replied to and stored by fewer. *)
LEMMA FineShrinks ==
    ASSUME NEW i \in Interaction, InteractionFine(i),
           \A p \in Calls : Holds(p, i)' => Holds(p, i),
           \A p \in Calls : Replies(p, i)' => Replies(p, i),
           Stored(i)' => Stored(i), replies'[i] = replies[i]
    PROVE  InteractionFine(i)'
<1>1. OneHolder(i)' /\ (NoHolder(i) => NoHolder(i)')
  BY DEF InteractionFine, OneHolder, NoHolder
<1>2. OneReplier(i)' /\ (NoReplier(i) => NoReplier(i)')
  BY DEF InteractionFine, OneReplier, NoReplier
<1> QED
  BY <1>1, <1>2 DEF InteractionFine

(* A request about a command begins or ends, or a reply fails. *)
LEMMA QuietCallKeeps ==
    ASSUME InteractionsIInv, NEW q \in Calls, NEW r \in CallRecord, CallIs(q, r),
           r.op \in {"none", "command"},
           UNCHANGED <<pending, invoked, replies, shared>>,
           commands' \in [CommandIds -> [bot_id : Handlers, name : CommandNames] \cup {NoCommand}]
    PROVE  InteractionsIInv'
<1>1. /\ calls' \in [Calls -> CallRecord] /\ calls'[q] = r
      /\ \A p \in Calls : p # q => calls'[p] = calls[p]
  BY CallMoved
<1>2. ASSUME NEW i \in Interaction, i \notin shared PROVE InteractionFine(i)'
  <2>1. \A p \in Calls : (Holds(p, i)' => Holds(p, i)) /\ (Replies(p, i)' => Replies(p, i))
    BY <1>1 DEF Holds, Replies
  <2>2. Stored(i)' => Stored(i)
    BY DEF Stored
  <2> QED
    BY <1>2, <2>1, <2>2, FineShrinks DEF InteractionsIInv
<1>3. \A p \in Calls : calls'[p].op \in {"take", "reply"} => calls'[p].id \in 1 .. invoked
  BY <1>1 DEF InteractionsIInv
<1> QED
  BY <1>1, <1>2, <1>3 DEF InteractionsIInv

LEMMA CommandKeeps ==
    ASSUME InteractionsIInv, NEW q \in Calls,
           \/ \E k \in CommandIds, b \in Handlers, n \in CommandNames : create_bot_command(q, k, b, n)
           \/ insert_bot_command(q) \/ CommandFails(q)
    PROVE  InteractionsIInv'
<1>1. Unused \in CallRecord /\ Unused.op = "none"
  BY DEF CallRecord, Unused
<1>2. ASSUME NEW k \in CommandIds, NEW b \in Handlers, NEW n \in CommandNames, create_bot_command(q, k, b, n)
      PROVE  InteractionsIInv'
  <2> DEFINE r == [op |-> "command", id |-> k, doc |-> [bot_id |-> b, name |-> n]]
  <2>1. r \in CallRecord /\ r.op = "command"
    BY DEF CallRecord
  <2>2. /\ CallIs(q, r)
        /\ UNCHANGED <<commands, pending, invoked, replies, shared>>
    BY <1>2 DEF create_bot_command
  <2> HIDE DEF r
  <2> QED
    BY <2>1, <2>2, QuietCallKeeps DEF InteractionsIInv
<1>3. CASE insert_bot_command(q)
  <2>1. calls[q].id \in CommandIds /\ calls[q].doc \in [bot_id : Handlers, name : CommandNames]
    BY <1>3, CallKinds DEF insert_bot_command
  <2>2. /\ CallIs(q, Unused) /\ UNCHANGED <<pending, invoked, replies, shared>>
        /\ commands' = [commands EXCEPT ![calls[q].id] = calls[q].doc]
    BY <1>3 DEF insert_bot_command
  <2>3. commands' \in [CommandIds -> [bot_id : Handlers, name : CommandNames] \cup {NoCommand}]
    BY <2>1, <2>2 DEF InteractionsIInv
  <2> QED
    BY <1>1, <2>2, <2>3, QuietCallKeeps
<1>4. CASE CommandFails(q)
  <2>1. CallIs(q, Unused) /\ UNCHANGED <<commands, pending, invoked, replies, shared>>
    BY <1>4 DEF CommandFails
  <2> QED
    BY <1>1, <2>1, QuietCallKeeps DEF InteractionsIInv
<1> QED
  BY <1>2, <1>3, <1>4

(* A command goes, or a bot moves: the interactions stay. *)
LEMMA CommandGoneKeeps ==
    ASSUME InteractionsIInv, UNCHANGED <<pending, invoked, calls, replies, shared>>,
           commands' \in [CommandIds -> [bot_id : Handlers, name : CommandNames] \cup {NoCommand}]
    PROVE  InteractionsIInv'
<1>1. \A i \in Interaction : i \notin shared => InteractionFine(i)'
  BY DEF InteractionsIInv, InteractionFine, OneHolder, OneReplier, NoHolder, NoReplier, Holds, Replies, Stored
<1> QED
  BY <1>1 DEF InteractionsIInv

LEMMA InvokeKeeps ==
    ASSUME InteractionsIInv, NEW k \in CommandIds, NEW cutoff \in Nat, invoke_command(k, cutoff)
    PROVE  InteractionsIInv'
<1>1. /\ invoked < MaxInteractions /\ invoked' = invoked + 1
      /\ pending' \subseteq pending \cup {<<invoked + 1, commands[k].bot_id>>}
      /\ UNCHANGED <<commands, calls, replies, shared>>
  BY DEF invoke_command, cleanup_expired
<1>2. commands[k].bot_id \in Handlers /\ invoked \in Nat /\ MaxInteractions \in Nat
  <2>1. commands[k] \in [bot_id : Handlers, name : CommandNames]
    BY DEF InteractionsIInv, invoke_command
  <2> QED
    BY <2>1, InteractionsAssumption, SMT DEF InteractionsIInv
<1>3. pending' \subseteq (1 .. invoked') \X Handlers
  BY <1>1, <1>2, SMT DEF InteractionsIInv
<1>4. ASSUME NEW i \in Interaction, i \notin shared PROVE InteractionFine(i)'
  <2>1. \A p \in Calls : (Holds(p, i)' => Holds(p, i)) /\ (Replies(p, i)' => Replies(p, i))
    BY <1>1 DEF Holds, Replies
  <2>2. CASE i # invoked + 1
    <3>1. Stored(i)' => Stored(i)
      BY <1>1, <2>2 DEF Stored
    <3> QED
      BY <1>1, <1>4, <2>1, <3>1, FineShrinks DEF InteractionsIInv
  <2>3. CASE i = invoked + 1
    <3>1. NoHolder(i)' /\ NoReplier(i)'
      BY <1>1, <1>2, <2>3, SMT DEF NoHolder, NoReplier, Holds, Replies, InteractionsIInv
    <3>2. replies'[i] = 0
      BY <1>1, <1>2, <2>3, SMT DEF InteractionsIInv
    <3> QED
      BY <3>1, <3>2 DEF InteractionFine, NoHolder, NoReplier, OneHolder, OneReplier
  <2> QED
    BY <2>2, <2>3
<1>5. invoked' \in 0 .. MaxInteractions
  BY <1>1, <1>2, SMT
<1>6. \A q \in Calls : calls'[q].op \in {"take", "reply"} => calls'[q].id \in 1 .. invoked'
  BY <1>1, <1>2, SMT DEF InteractionsIInv
<1>7. \A i \in Interaction : i > invoked' => replies'[i] = 0
  BY <1>1, <1>2, SMT DEF InteractionsIInv, Interaction
<1> QED
  BY <1>1, <1>3, <1>4, <1>5, <1>6, <1>7 DEF InteractionsIInv

LEMMA CallbackKeeps ==
    ASSUME InteractionsIInv, NEW q \in Calls, NEW n \in 1 .. invoked, NEW b \in Handlers,
           interaction_callback(q, n, b)
    PROVE  InteractionsIInv'
<1> DEFINE r == [op |-> "take", id |-> n, bot |-> b]
<1>1. n \in Interaction /\ invoked \in Nat /\ MaxInteractions \in Nat
  BY InteractionsAssumption, SMT DEF InteractionsIInv, Interaction
<1>2. r \in CallRecord /\ r.op = "take" /\ r.id = n
  BY <1>1 DEF CallRecord
<1>3. /\ CallIs(q, r) /\ <<n, b>> \in pending
      /\ calls[q] = Unused
      /\ shared \subseteq shared'
      /\ n \notin shared' => \A p \in Calls : ~Holds(p, n)
      /\ UNCHANGED <<commands, pending, invoked, replies>>
  BY DEF interaction_callback, Holds
<1> HIDE DEF r
<1>4. /\ calls' \in [Calls -> CallRecord] /\ calls'[q] = r
      /\ \A p \in Calls : p # q => calls'[p] = calls[p]
  BY <1>2, <1>3, CallMoved
<1>5. ASSUME NEW i \in Interaction, i \notin shared' PROVE InteractionFine(i)'
  <2>1. \A p \in Calls : Replies(p, i)' => Replies(p, i)
    BY <1>2, <1>4 DEF Replies
  <2>2. Stored(i)' = Stored(i) /\ InteractionFine(i) /\ replies'[i] = replies[i]
    BY <1>3, <1>5 DEF Stored, InteractionsIInv
  <2>3. CASE i # n
    <3>1. \A p \in Calls : Holds(p, i)' => Holds(p, i)
      BY <1>2, <1>4, <2>3 DEF Holds
    <3> QED
      BY <2>1, <2>2, <3>1, FineShrinks
  <2>4. CASE i = n
    <3>1. Stored(i)
      BY <1>3, <2>4 DEF Stored
    <3>2. NoReplier(i) /\ replies[i] = 0
      BY <2>2, <3>1 DEF InteractionFine
    <3>3. OneHolder(i)'
      BY <1>3, <1>4, <1>5, <2>4 DEF OneHolder, Holds
    <3>4. NoReplier(i)' /\ OneReplier(i)'
      BY <2>1, <3>2 DEF NoReplier, OneReplier
    <3> QED
      BY <2>2, <3>2, <3>3, <3>4 DEF InteractionFine
  <2> QED
    BY <2>3, <2>4
<1>6. \A p \in Calls : calls'[p].op \in {"take", "reply"} => calls'[p].id \in 1 .. invoked
  BY <1>2, <1>4 DEF InteractionsIInv
<1> QED
  BY <1>3, <1>4, <1>5, <1>6 DEF InteractionsIInv

LEMMA TakeKeeps ==
    ASSUME InteractionsIInv, NEW q \in Calls, TakeInteraction(q)
    PROVE  InteractionsIInv'
<1> DEFINE n == calls[q].id
<1>1. /\ calls[q] = [op |-> "take", id |-> n, bot |-> calls[q].bot]
      /\ n \in 1 .. invoked /\ calls[q].bot \in Handlers
  BY CallKinds DEF TakeInteraction
<1> DEFINE r == [op |-> "reply", id |-> n, bot |-> calls[q].bot]
<1>2. [calls[q] EXCEPT !.op = "reply"] = r
  BY <1>1, SMT
<1>3. n \in Interaction
  BY <1>1, InteractionsAssumption, SMT DEF InteractionsIInv, Interaction
<1>4. r \in CallRecord /\ r.op = "reply" /\ r.id = n
  BY <1>1, <1>3 DEF CallRecord
<1>5. /\ CallIs(q, r) /\ pending' \subseteq pending
      /\ \A b \in Handlers : <<n, b>> \notin pending'
      /\ UNCHANGED <<commands, invoked, replies, shared>>
  BY <1>2 DEF TakeInteraction, take
<1>6. Holds(q, n)
  BY DEF Holds, TakeInteraction
<1> HIDE DEF r, n
<1>7. /\ calls' \in [Calls -> CallRecord] /\ calls'[q] = r
      /\ \A p \in Calls : p # q => calls'[p] = calls[p]
  BY <1>4, <1>5, CallMoved
<1>8. ASSUME NEW i \in Interaction, i \notin shared PROVE InteractionFine(i)'
  <2>1. \A p \in Calls : Holds(p, i)' => Holds(p, i) /\ p # q
    BY <1>4, <1>7 DEF Holds
  <2>2. (Stored(i)' => Stored(i)) /\ InteractionFine(i) /\ replies'[i] = replies[i]
    BY <1>5, <1>8 DEF Stored, InteractionsIInv
  <2>3. CASE i # n
    <3>1. \A p \in Calls : Replies(p, i)' => Replies(p, i)
      BY <1>4, <1>7, <2>3 DEF Replies
    <3> QED
      BY <2>1, <2>2, <3>1, FineShrinks
  <2>4. CASE i = n
    <3>1. NoReplier(i) /\ replies[i] = 0
      BY <1>6, <2>2, <2>4 DEF InteractionFine, NoHolder
    <3>2. NoHolder(i)' /\ OneHolder(i)'
      BY <1>6, <2>1, <2>2, <2>4 DEF InteractionFine, OneHolder, NoHolder
    <3>3. OneReplier(i)'
      BY <1>7, <3>1 DEF OneReplier, NoReplier, Replies
    <3>4. ~Stored(i)'
      BY <1>5, <2>4 DEF Stored
    <3> QED
      BY <2>2, <3>1, <3>2, <3>3, <3>4 DEF InteractionFine
  <2> QED
    BY <2>3, <2>4
<1>9. \A p \in Calls : calls'[p].op \in {"take", "reply"} => calls'[p].id \in 1 .. invoked
  BY <1>1, <1>4, <1>7 DEF InteractionsIInv, n
<1> QED
  BY <1>5, <1>7, <1>8, <1>9 DEF InteractionsIInv

LEMMA SendReplyKeeps ==
    ASSUME InteractionsIInv, NEW q \in Calls, SendReply(q)
    PROVE  InteractionsIInv'
<1> DEFINE n == calls[q].id
<1>1. n \in 1 .. invoked /\ Replies(q, n)
  BY CallKinds DEF SendReply, Replies
<1>2. n \in Interaction
  BY <1>1, InteractionsAssumption, SMT DEF InteractionsIInv, Interaction
<1>3. Unused \in CallRecord /\ Unused.op = "none"
  BY DEF CallRecord, Unused
<1>4. /\ CallIs(q, Unused)
      /\ replies' = [replies EXCEPT ![n] = replies[n] + 1]
      /\ UNCHANGED <<commands, pending, invoked, shared>>
  BY DEF SendReply
<1> HIDE DEF n
<1>5. /\ calls' \in [Calls -> CallRecord] /\ calls'[q] = Unused
      /\ \A p \in Calls : p # q => calls'[p] = calls[p]
  BY <1>3, <1>4, CallMoved
<1>6. /\ replies' \in [Interaction -> Nat] /\ replies'[n] = replies[n] + 1
      /\ \A i \in Interaction : i # n => replies'[i] = replies[i]
  BY <1>2, <1>4, SMT DEF InteractionsIInv
<1>7. ASSUME NEW i \in Interaction, i \notin shared PROVE InteractionFine(i)'
  <2>1. \A p \in Calls : /\ Holds(p, i)' => Holds(p, i)
                         /\ Replies(p, i)' => Replies(p, i) /\ p # q
    BY <1>3, <1>5 DEF Holds, Replies
  <2>2. (Stored(i)' => Stored(i)) /\ InteractionFine(i)
    BY <1>4, <1>7 DEF Stored, InteractionsIInv
  <2>3. CASE i # n
    BY <1>6, <2>1, <2>2, <2>3, FineShrinks
  <2>4. CASE i = n
    <3>1. NoHolder(i) /\ ~Stored(i) /\ replies[i] = 0
      BY <1>1, <2>2, <2>4 DEF InteractionFine, NoReplier
    <3>2. NoHolder(i)' /\ OneHolder(i)'
      BY <2>1, <3>1 DEF OneHolder, NoHolder
    <3>3. NoReplier(i)' /\ OneReplier(i)'
      BY <1>1, <2>1, <2>2, <2>4 DEF InteractionFine, OneReplier, NoReplier
    <3>4. replies'[i] = 1
      BY <1>6, <2>4, <3>1, SMT
    <3> QED
      BY <2>2, <3>1, <3>2, <3>3, <3>4 DEF InteractionFine
  <2> QED
    BY <2>3, <2>4
<1>8. \A p \in Calls : calls'[p].op \in {"take", "reply"} => calls'[p].id \in 1 .. invoked
  BY <1>3, <1>5 DEF InteractionsIInv
<1>9. \A i \in Interaction : i > invoked => replies'[i] = 0
  BY <1>1, <1>6, SMT DEF InteractionsIInv, Interaction
<1> QED
  BY <1>4, <1>5, <1>6, <1>7, <1>8, <1>9 DEF InteractionsIInv

LEMMA InteractionsStepKeeps == InteractionsIInv /\ [InteractionsNext]_commandVars => InteractionsIInv'
<1> SUFFICES ASSUME InteractionsIInv, [InteractionsNext]_commandVars PROVE InteractionsIInv'
  OBVIOUS
<1>1. CASE UNCHANGED commandVars
  BY <1>1, CommandGoneKeeps DEF commandVars, InteractionsIInv
<1>2. ASSUME NEW k \in CommandIds, delete_bot_command(k) PROVE InteractionsIInv'
  BY <1>2, CommandGoneKeeps DEF delete_bot_command, InteractionsIInv
<1>3. ASSUME NEW b \in Handlers, Move(b) PROVE InteractionsIInv'
  BY <1>3, CommandGoneKeeps DEF Move, InteractionsIInv
<1>4. invoked \in Nat
  BY InteractionsAssumption, SMT DEF InteractionsIInv
<1>5. ASSUME NEW k \in CommandIds, NEW cutoff \in 0 .. invoked, invoke_command(k, cutoff)
      PROVE  InteractionsIInv'
  BY <1>4, <1>5, InvokeKeeps, SMT
<1> QED
  BY <1>1, <1>2, <1>3, <1>5, CommandKeeps, CallbackKeeps, TakeKeeps, SendReplyKeeps DEF InteractionsNext

(* An invocation gets one reply, for any bots, requests and number of
   interactions, unless two callbacks read the store before either took it
   (interaction_callback, InteractionStore::take). *)
THEOREM AlwaysRepliedOnce == InteractionsSpec => []RepliedOnce
<1>1. InteractionsIInv => RepliedOnce
  <2> SUFFICES ASSUME InteractionsIInv,
                      NEW i \in 1 .. invoked, i \notin shared,
                      NEW R, R = {q \in Calls : calls[q].op = "reply" /\ calls[q].id = i}
               PROVE  /\ \A p, q \in R : p = q
                      /\ replies[i] = 0 \/ (replies[i] = 1 /\ R = {})
                      /\ replies[i] = 1 \/ R # {} => \A b \in Handlers : <<i, b>> \notin pending
    BY DEF RepliedOnce
  <2>1. i \in Interaction
    BY InteractionsAssumption, SMT DEF InteractionsIInv, Interaction
  <2>2. InteractionFine(i)
    BY <2>1 DEF InteractionsIInv
  <2>3. \A q : q \in R <=> q \in Calls /\ Replies(q, i)
    BY DEF Replies
  <2>4. (R = {} <=> NoReplier(i)) /\ \A p, q \in R : p = q
    BY <2>2, <2>3 DEF InteractionFine, NoReplier, OneReplier
  <2>5. ~Stored(i) => \A b \in Handlers : <<i, b>> \notin pending
    BY DEF Stored
  <2> QED
    BY <2>2, <2>4, <2>5, SMT DEF InteractionFine
<1> QED
  BY <1>1, InteractionsInitOK, InteractionsStepKeeps, PTL DEF InteractionsSpec

(***************************************************************************)
(* Bots and their servers.  Two requests under way are about disturbed bots, *)
(* so what a request about an undisturbed bot read is still there.         *)
(***************************************************************************)
BotRequest ==
    {Calm} \cup [op : {"user", "insert"}, of : BotIds, bot_type : {"regular", "ai_companion"}]
           \cup [op : {"mark", "delete"}, of : BotIds]
           \cup [op : {"check", "join", "record"}, of : BotIds, server : BotServers, copy : Bot]
           \cup [op : {"forget"}, of : BotIds, server : BotServers]

(* The only request about b, which no other request overlapped. *)
Alone(q, b) == breq[q].of = b /\ b \notin disturbed

Memberless(b) == \A s \in BotServers : <<s, b>> \notin memberOf

(* A bot in creation is not there, and is to be the only companion. *)
NewBot(q, b) ==
    /\ ~Exists(b) /\ Memberless(b)
    /\ breq[q].bot_type = "ai_companion" => \A o \in BotIds \ disturbed : ~IsCompanion(o)

(* A bot in invitation is as it was read; between the check and the record,
   a companion is in no other server. *)
Invited(q, b) ==
    /\ bots[b] = breq[q].copy
    /\ (breq[q].op = "join" /\ IsCompanion(b)) => Memberless(b)
    /\ breq[q].op = "record" => \A s \in BotServers : <<s, b>> \in memberOf => s = breq[q].server

BotsIInv ==
    /\ bots \in [BotIds -> Bot \cup {NoSite}]
    /\ breq \in [BotRequests -> BotRequest]
    /\ \A p, q \in BotRequests :
          p # q /\ breq[p] # Calm /\ breq[q] # Calm => breq[p].of \in disturbed
    /\ \A b \in BotIds : Exists(b) \/ ~Memberless(b) => b \in given
    /\ \A q \in BotRequests : breq[q] # Calm => breq[q].of \in given
    /\ \A q \in BotRequests, b \in BotIds \ disturbed :
          breq[q].op \in {"user", "insert"} /\ breq[q].of = b => NewBot(q, b)
    /\ \A q \in BotRequests, b \in BotIds \ disturbed :
          breq[q].op \in {"check", "join", "record"} /\ breq[q].of = b => Invited(q, b)
    /\ \A a, b \in BotIds \ disturbed : IsCompanion(a) /\ IsCompanion(b) => a = b
    /\ \A b \in BotIds \ disturbed : IsCompanion(b) =>
          \/ \E q \in BotRequests : breq[q].op = "record" /\ breq[q].of = b
          \/ \A s \in BotServers : <<s, b>> \in memberOf => bots[b].joined_server_id = s

LEMMA BotsInitOK == BotsInit => BotsIInv
<1> SUFFICES ASSUME BotsInit PROVE BotsIInv
  OBVIOUS
<1>1. \A q \in BotRequests : breq[q] = Calm /\ breq[q].op = "none"
  BY DEF BotsInit, Calm
<1>2. \A b \in BotIds : ~Exists(b) /\ Memberless(b)
  BY DEF BotsInit, Exists, Memberless
<1> QED
  BY <1>1, <1>2 DEF BotsInit, BotsIInv, BotRequest, IsCompanion

(* What a request may be at. *)
LEMMA BotRequestKinds ==
    ASSUME NEW r \in BotRequest
    PROVE  /\ r = Calm <=> r.op = "none"
           /\ r # Calm => r.of \in BotIds
           /\ r.op \in {"user", "insert"} => r.bot_type \in {"regular", "ai_companion"}
           /\ r.op \in {"check", "join", "record"} => r.server \in BotServers /\ r.copy \in Bot
           /\ r.op = "forget" => r.server \in BotServers
<1>1. CASE r = Calm
  BY <1>1 DEF Calm
<1>2. CASE r \in [op : {"user", "insert"}, of : BotIds, bot_type : {"regular", "ai_companion"}]
  BY <1>2, SMT DEF Calm
<1>3. CASE r \in [op : {"mark", "delete"}, of : BotIds]
  BY <1>3, SMT DEF Calm
<1>4. CASE r \in [op : {"check", "join", "record"}, of : BotIds, server : BotServers, copy : Bot]
  BY <1>4, SMT DEF Calm
<1>5. CASE r \in [op : {"forget"}, of : BotIds, server : BotServers]
  BY <1>5, SMT DEF Calm
<1> QED
  BY <1>1, <1>2, <1>3, <1>4, <1>5 DEF BotRequest

(* A step of request q about bot x, which leaves the other bots alone. *)
LEMMA BotStep ==
    ASSUME BotsIInv, NEW q \in BotRequests, NEW x \in BotIds, NEW r \in BotRequest,
           Goes(q, r), breq[q] = Calm \/ breq[q].of = x, r = Calm \/ r.of = x,
           disturbed \subseteq disturbed', given \subseteq given', x \in given',
           bots' \in [BotIds -> Bot \cup {NoSite}],
           \A b \in BotIds \ {x} : bots'[b] = bots[b],
           \A b \in BotIds \ {x} : \A s \in BotServers : <<s, b>> \in memberOf' => <<s, b>> \in memberOf,
           \A p \in BotRequests \ {q} : breq[p] # Calm => breq[p].of \in disturbed' /\ x \in disturbed',
           r.op \in {"user", "insert"} => x \in disturbed' \/ NewBot(q, x)',
           r.op \in {"check", "join", "record"} => x \in disturbed' \/ Invited(q, x)',
           x \in disturbed' \/ (IsCompanion(x)' =>
               IsCompanion(x) \/ \A o \in BotIds \ disturbed : ~IsCompanion(o)),
           x \in disturbed' \/ (IsCompanion(x)' =>
               r.op = "record" \/ \A s \in BotServers : <<s, x>> \in memberOf' => bots'[x].joined_server_id = s)
    PROVE  BotsIInv'
<1>1. /\ breq' \in [BotRequests -> BotRequest] /\ breq'[q] = r
      /\ \A p \in BotRequests \ {q} : breq'[p] = breq[p]
  BY DEF BotsIInv, Goes
<1>2. ASSUME NEW p1 \in BotRequests, NEW p2 \in BotRequests, p1 # p2, breq'[p1] # Calm, breq'[p2] # Calm
      PROVE  breq'[p1].of \in disturbed'
  BY <1>1, <1>2
<1>3. \A b \in BotIds : Exists(b)' \/ ~Memberless(b)' => b \in given'
  BY DEF BotsIInv, Exists, Memberless
<1>4. \A p \in BotRequests : breq'[p] # Calm => breq'[p].of \in given'
  BY <1>1 DEF BotsIInv
<1>5. \A p \in BotRequests : p # q /\ breq'[p] # Calm => breq'[p].of \in disturbed'
  BY <1>1
<1>6. ASSUME NEW p \in BotRequests, NEW b \in BotIds \ disturbed',
             breq'[p].op \in {"user", "insert"}, breq'[p].of = b
      PROVE  NewBot(p, b)'
  <2>1. breq'[p] # Calm
    BY <1>6, SMT DEF Calm
  <2>2. p = q /\ b = x
    BY <1>1, <1>5, <1>6, <2>1
  <2> QED
    BY <1>1, <1>6, <2>2
<1>7. ASSUME NEW p \in BotRequests, NEW b \in BotIds \ disturbed',
             breq'[p].op \in {"check", "join", "record"}, breq'[p].of = b
      PROVE  Invited(p, b)'
  <2>1. breq'[p] # Calm
    BY <1>7, SMT DEF Calm
  <2>2. p = q /\ b = x
    BY <1>1, <1>5, <1>7, <2>1
  <2> QED
    BY <1>1, <1>7, <2>2
<1>8. \A b \in BotIds \ {x} : IsCompanion(b)' = IsCompanion(b)
  BY DEF IsCompanion, Exists
<1>9. ASSUME NEW a \in BotIds \ disturbed', NEW b \in BotIds \ disturbed', IsCompanion(a)', IsCompanion(b)'
      PROVE  a = b
  <2>1. a \notin disturbed /\ b \notin disturbed
    OBVIOUS
  <2>2. \A c, d \in BotIds \ disturbed : IsCompanion(c) /\ IsCompanion(d) => c = d
    BY DEF BotsIInv
  <2> QED
    BY <1>8, <1>9, <2>1, <2>2
<1>10. ASSUME NEW b \in BotIds \ disturbed', IsCompanion(b)'
       PROVE  \/ \E p \in BotRequests : breq'[p].op = "record" /\ breq'[p].of = b
              \/ \A s \in BotServers : <<s, b>> \in memberOf' => bots'[b].joined_server_id = s
  <2>1. CASE b = x
    <3>1. r.op = "record" => r.of = x
      BY SMT DEF Calm
    <3> QED
      BY <1>1, <1>10, <2>1, <3>1
  <2>2. CASE b # x
    <3>1. IsCompanion(b) /\ b \notin disturbed
      BY <1>8, <1>10, <2>2
    <3>2. CASE \E p \in BotRequests : breq[p].op = "record" /\ breq[p].of = b
      <4>1. PICK p \in BotRequests : breq[p].op = "record" /\ breq[p].of = b
        BY <3>2
      <4>2. p # q
        BY <2>2, <4>1, SMT DEF Calm
      <4> QED
        BY <1>1, <4>1, <4>2
    <3>3. CASE \A s \in BotServers : <<s, b>> \in memberOf => bots[b].joined_server_id = s
      BY <2>2, <3>3
    <3> QED
      BY <3>1, <3>2, <3>3 DEF BotsIInv
  <2> QED
    BY <2>1, <2>2
<1> QED
  BY <1>1, <1>2, <1>3, <1>4, <1>6, <1>7, <1>9, <1>10 DEF BotsIInv

(* A request that leaves the documents and memberships as they are, or ends
   memberships. *)
LEMMA BotQuiet ==
    ASSUME BotsIInv, NEW q \in BotRequests, NEW x \in BotIds, NEW r \in BotRequest,
           Goes(q, r), breq[q] = Calm \/ breq[q].of = x, r = Calm \/ r.of = x,
           disturbed \subseteq disturbed', given \subseteq given', x \in given',
           bots' = bots, memberOf' \subseteq memberOf, breq[q].op # "record" \/ x \in disturbed',
           \A p \in BotRequests \ {q} : breq[p] # Calm => breq[p].of \in disturbed' /\ x \in disturbed',
           r.op \in {"user", "insert"} => x \in disturbed' \/ NewBot(q, x)',
           r.op \in {"check", "join", "record"} => x \in disturbed' \/ Invited(q, x)'
    PROVE  BotsIInv'
<1>1. IsCompanion(x)' = IsCompanion(x)
  BY DEF IsCompanion, Exists
<1>2. ASSUME x \notin disturbed', IsCompanion(x)
      PROVE  \A s \in BotServers : <<s, x>> \in memberOf' => bots'[x].joined_server_id = s
  <2>1. ASSUME NEW p \in BotRequests, breq[p].op = "record", breq[p].of = x PROVE FALSE
    <3>1. p # q /\ breq[p] # Calm
      BY <1>2, <2>1, SMT DEF Calm
    <3> QED
      BY <1>2, <3>1
  <2>2. \A s \in BotServers : <<s, x>> \in memberOf => bots[x].joined_server_id = s
    BY <1>2, <2>1 DEF BotsIInv
  <2> QED
    BY <2>2
<1> QED
  BY <1>1, <1>2, BotStep DEF BotsIInv

(* A request begins: it and those under way are disturbed, if there are any. *)
LEMMA Begun ==
    ASSUME NEW q \in BotRequests, breq[q] = Calm, NEW x, Overlaps(x)
    PROVE  /\ disturbed \subseteq disturbed'
           /\ \A p \in BotRequests \ {q} : breq[p] # Calm => breq[p].of \in disturbed' /\ x \in disturbed'
  BY DEF Overlaps

(* A request under way that is not alone is disturbed. *)
LEMMA UnderWay ==
    ASSUME BotsIInv, NEW q \in BotRequests, breq[q] # Calm, disturbed \subseteq disturbed'
    PROVE  /\ breq[q].of \in given /\ breq[q].of \in BotIds
           /\ \A p \in BotRequests \ {q} : breq[p] # Calm =>
                 breq[p].of \in disturbed' /\ breq[q].of \in disturbed'
  BY BotRequestKinds DEF BotsIInv

LEMMA CalmFits == Calm \in BotRequest /\ Calm.op = "none"
  BY DEF Calm, BotRequest

LEMMA CreateBotKeeps ==
    ASSUME BotsIInv, NEW q \in BotRequests, NEW b \in BotIds, NEW type \in {"regular", "ai_companion"},
           CreateBot(q, b, type)
    PROVE  BotsIInv'
<1> DEFINE r == [op |-> "user", of |-> b, bot_type |-> type]
<1>1. r \in BotRequest /\ r.op = "user" /\ r.of = b /\ r.bot_type = type
  BY DEF BotRequest
<1>2. /\ breq[q] = Calm /\ b \notin given /\ Goes(q, r) /\ given' = given \cup {b}
      /\ type = "ai_companion" => ~\E o \in BotIds : IsCompanion(o)
      /\ UNCHANGED <<bots, memberOf>> /\ Overlaps(b)
  BY DEF CreateBot
<1> HIDE DEF r
<1>3. breq'[q] = r
  BY <1>2 DEF Goes, BotsIInv
<1>4. ~Exists(b)' /\ Memberless(b)'
  BY <1>2 DEF BotsIInv, Exists, Memberless
<1>5. NewBot(q, b)'
  BY <1>1, <1>2, <1>3, <1>4 DEF NewBot, IsCompanion, Exists
<1> QED
  BY <1>1, <1>2, <1>5, Begun, BotQuiet, CalmFits

LEMMA CreateUserKeeps ==
    ASSUME BotsIInv, NEW q \in BotRequests, CreateUser(q)
    PROVE  BotsIInv'
<1>0. PICK x \in BotIds : x = breq[q].of
  BY BotRequestKinds DEF CreateUser, BotsIInv
<1> DEFINE r == [op |-> "insert", of |-> x, bot_type |-> breq[q].bot_type]
<1>1. /\ breq[q].op = "user" /\ breq[q] # Calm /\ breq[q] \in BotRequest
      /\ UNCHANGED <<bots, memberOf, given, disturbed>>
  BY <1>0, SMT DEF CreateUser, BotsIInv, Calm
<1>2. breq[q] = [op |-> "user", of |-> x, bot_type |-> breq[q].bot_type]
  BY <1>0, <1>1 DEF BotRequest, Calm
<1>3. Goes(q, r)
  BY <1>0, <1>2, SMT DEF CreateUser
<1>4. r \in BotRequest /\ r.op = "insert" /\ r.of = x /\ r.bot_type = breq[q].bot_type
  BY <1>0, <1>1, BotRequestKinds DEF BotRequest
<1>5. x \in BotIds /\ x \in given
  BY <1>0, <1>1, UnderWay
<1> HIDE DEF r
<1>6. breq'[q] = r
  BY <1>0, <1>3 DEF Goes, BotsIInv
<1>7. x \in disturbed \/ NewBot(q, x)
  BY <1>0, <1>1, <1>5 DEF BotsIInv
<1>8. NewBot(q, x) => NewBot(q, x)'
  BY <1>0, <1>1, <1>4, <1>6 DEF NewBot, Exists, Memberless, IsCompanion
<1>9. \A p \in BotRequests \ {q} : breq[p] # Calm => breq[p].of \in disturbed' /\ x \in disturbed'
  BY <1>0, <1>1, UnderWay
<1>10. breq[q].of = x
  BY <1>0
<1> QED
  BY <1>0, <1>1, <1>3, <1>4, <1>5, <1>7, <1>8, <1>9, <1>10, BotQuiet

LEMMA InsertBotKeeps ==
    ASSUME BotsIInv, NEW q \in BotRequests, insert_bot(q)
    PROVE  BotsIInv'
<1>0. PICK x \in BotIds : x = breq[q].of
  BY BotRequestKinds DEF insert_bot, BotsIInv
<1> DEFINE d == [bot_type |-> breq[q].bot_type, joined_server_id |-> NoSite]
<1>1. /\ breq[q].op = "insert" /\ breq[q] # Calm /\ breq[q] \in BotRequest
      /\ bots' = [bots EXCEPT ![x] = d] /\ Goes(q, Calm)
      /\ UNCHANGED <<memberOf, given, disturbed>>
  BY <1>0, SMT DEF insert_bot, BotsIInv, Calm
<1>2. d \in Bot /\ d.bot_type = breq[q].bot_type
  BY <1>0, <1>1, BotRequestKinds DEF Bot
<1>3. x \in BotIds /\ x \in given
  BY <1>0, <1>1, UnderWay
<1>4. x \in disturbed \/ NewBot(q, x)
  BY <1>0, <1>1, <1>3 DEF BotsIInv
<1>5. \A p \in BotRequests \ {q} : breq[p] # Calm => breq[p].of \in disturbed' /\ x \in disturbed'
  BY <1>0, <1>1, UnderWay
<1>6. breq[q].of = x
  BY <1>0
<1> HIDE DEF d
<1>7. /\ bots' \in [BotIds -> Bot \cup {NoSite}] /\ bots'[x] = d
      /\ \A b \in BotIds \ {x} : bots'[b] = bots[b]
  BY <1>0, <1>1, <1>2, <1>3 DEF BotsIInv
<1>8. x \in disturbed' \/ (IsCompanion(x)' => \A o \in BotIds \ disturbed : ~IsCompanion(o))
  BY <1>0, <1>1, <1>2, <1>4, <1>7 DEF IsCompanion, NewBot
<1>9. x \in disturbed' \/ \A s \in BotServers : <<s, x>> \notin memberOf'
  BY <1>0, <1>1, <1>4 DEF NewBot, Memberless
<1> QED
  BY <1>0, <1>1, <1>3, <1>5, <1>6, <1>7, <1>8, <1>9, BotStep, CalmFits

LEMMA DeleteBotKeeps ==
    ASSUME BotsIInv, NEW q \in BotRequests, NEW b \in BotIds, DeleteBot(q, b)
    PROVE  BotsIInv'
<1> DEFINE r == [op |-> "mark", of |-> b]
<1>1. r \in BotRequest /\ r.op = "mark" /\ r.of = b
  BY DEF BotRequest
<1>2. /\ breq[q] = Calm /\ b \in given /\ Goes(q, r) /\ Overlaps(b)
      /\ UNCHANGED <<bots, memberOf, given>>
  BY DEF DeleteBot, BotsIInv
<1> HIDE DEF r
<1> QED
  BY <1>1, <1>2, Begun, BotQuiet, CalmFits

LEMMA MarkDeletedKeeps ==
    ASSUME BotsIInv, NEW q \in BotRequests, mark_deleted(q)
    PROVE  BotsIInv'
<1>0. PICK x \in BotIds : x = breq[q].of
  BY BotRequestKinds DEF mark_deleted, BotsIInv
<1> DEFINE r == [op |-> "delete", of |-> x]
<1>1. /\ breq[q].op = "mark" /\ breq[q] # Calm /\ breq[q] \in BotRequest
      /\ UNCHANGED <<bots, memberOf, given, disturbed>>
  BY <1>0, SMT DEF mark_deleted, BotsIInv, Calm
<1>2. breq[q] = [op |-> "mark", of |-> x]
  BY <1>0, <1>1 DEF BotRequest, Calm
<1>3. Goes(q, r)
  BY <1>0, <1>2, SMT DEF mark_deleted
<1>4. x \in BotIds /\ x \in given
  BY <1>0, <1>1, UnderWay
<1>5. r \in BotRequest /\ r.op = "delete" /\ r.of = x
  BY <1>0, <1>4 DEF BotRequest
<1>6. \A p \in BotRequests \ {q} : breq[p] # Calm => breq[p].of \in disturbed' /\ x \in disturbed'
  BY <1>0, <1>1, UnderWay
<1>7. breq[q].of = x
  BY <1>0
<1> HIDE DEF r
<1> QED
  BY <1>0, <1>1, <1>3, <1>4, <1>5, <1>6, <1>7, BotQuiet

LEMMA DeleteDocumentKeeps ==
    ASSUME BotsIInv, NEW q \in BotRequests, delete_bot(q)
    PROVE  BotsIInv'
<1>0. PICK x \in BotIds : x = breq[q].of
  BY BotRequestKinds DEF delete_bot, BotsIInv
<1>1. /\ breq[q] # Calm /\ bots' = [bots EXCEPT ![x] = NoSite] /\ Goes(q, Calm)
      /\ UNCHANGED <<memberOf, given, disturbed>>
  BY <1>0, SMT DEF delete_bot, Calm
<1>2. x \in BotIds /\ x \in given
  BY <1>0, <1>1, UnderWay
<1>3. \A p \in BotRequests \ {q} : breq[p] # Calm => breq[p].of \in disturbed' /\ x \in disturbed'
  BY <1>0, <1>1, UnderWay
<1>4. breq[q].of = x
  BY <1>0
<1>5. /\ bots' \in [BotIds -> Bot \cup {NoSite}] /\ bots'[x] = NoSite
      /\ \A b \in BotIds \ {x} : bots'[b] = bots[b]
  BY <1>0, <1>1, <1>2 DEF BotsIInv
<1>6. ~IsCompanion(x)'
  BY <1>0, <1>5 DEF IsCompanion, Exists
<1> QED
  BY <1>0, <1>1, <1>2, <1>3, <1>4, <1>5, <1>6, BotStep, CalmFits

LEMMA InviteKeeps ==
    ASSUME BotsIInv, NEW q \in BotRequests, NEW b \in BotIds, NEW s \in BotServers, invite_bot(q, b, s)
    PROVE  BotsIInv'
<1> DEFINE r == [op |-> "check", of |-> b, server |-> s, copy |-> bots[b]]
<1>1. bots[b] \in Bot /\ b \in given
  BY DEF invite_bot, Exists, BotsIInv
<1>2. r \in BotRequest /\ r.op = "check" /\ r.of = b /\ r.copy = bots[b]
  BY <1>1 DEF BotRequest
<1>3. /\ breq[q] = Calm /\ Goes(q, r) /\ Overlaps(b)
      /\ UNCHANGED <<bots, memberOf, given>>
  BY DEF invite_bot
<1> HIDE DEF r
<1>4. breq'[q] = r
  BY <1>3 DEF Goes, BotsIInv
<1>5. Invited(q, b)'
  BY <1>2, <1>3, <1>4 DEF Invited
<1> QED
  BY <1>1, <1>2, <1>3, <1>5, Begun, BotQuiet, CalmFits

(* A request of an invitation, once it has read the bot. *)
LEMMA InvitationIs ==
    ASSUME BotsIInv, NEW q \in BotRequests, breq[q].op \in {"check", "join", "record"}
    PROVE  /\ breq[q] = [op |-> breq[q].op, of |-> breq[q].of, server |-> breq[q].server, copy |-> breq[q].copy]
           /\ breq[q] # Calm /\ breq[q].of \in BotIds /\ breq[q].of \in given
           /\ breq[q].server \in BotServers /\ breq[q].server # NoSite /\ breq[q].copy \in Bot
           /\ breq[q].of \in disturbed \/ Invited(q, breq[q].of)
<1>1. breq[q] \in BotRequest /\ breq[q] # Calm
  BY SMT DEF BotsIInv, Calm
<1>2. breq[q] \in [op : {"check", "join", "record"}, of : BotIds, server : BotServers, copy : Bot]
  BY <1>1 DEF BotRequest, Calm
<1>3. /\ breq[q] = [op |-> breq[q].op, of |-> breq[q].of, server |-> breq[q].server, copy |-> breq[q].copy]
      /\ breq[q].of \in BotIds /\ breq[q].server \in BotServers /\ breq[q].copy \in Bot
  BY <1>2
<1> QED
  BY <1>1, <1>3, BotsAssumption DEF BotsIInv

(* None is not written. *)
LEMMA NothingWritten == ASSUME NEW b PROVE update_bot_joined_server(b, NoSite) = bots
  BY DEF update_bot_joined_server

LEMMA CheckCompanionKeeps ==
    ASSUME BotsIInv, NEW q \in BotRequests, CheckCompanion(q)
    PROVE  BotsIInv'
<1>1. breq[q].op = "check"
  BY DEF CheckCompanion
<1>0. PICK x \in BotIds, s \in BotServers, c \in Bot :
          breq[q] = [op |-> "check", of |-> x, server |-> s, copy |-> c]
  BY <1>1, InvitationIs
<1>2. /\ breq[q].op = "check" /\ breq[q].of = x /\ breq[q].server = s /\ breq[q].copy = c
      /\ x \in given /\ breq[q] # Calm /\ (x \in disturbed \/ Invited(q, x))
  <2>1. breq[q].of = x /\ breq[q].server = s /\ breq[q].copy = c
    BY <1>0, SMTT(30)
  <2> QED
    BY <1>1, <2>1, InvitationIs
<1>3. bots' = bots /\ UNCHANGED <<memberOf, given, disturbed>>
  BY NothingWritten DEF CheckCompanion
<1> DEFINE r == [op |-> "join", of |-> x, server |-> s, copy |-> c]
<1>4. r \in BotRequest /\ r.op = "join" /\ r.of = x /\ r.server = s /\ r.copy = c
  BY DEF BotRequest
<1>5. \/ Goes(q, Calm)
      \/ /\ Goes(q, r)
         /\ ~(/\ c.bot_type = "ai_companion" /\ c.joined_server_id # NoSite
              /\ c.joined_server_id = s \/ <<c.joined_server_id, x>> \in memberOf)
  BY <1>0, SMT DEF CheckCompanion, StillJoined
<1> HIDE DEF r
<1>6. \A p \in BotRequests \ {q} : breq[p] # Calm => breq[p].of \in disturbed' /\ x \in disturbed'
  BY <1>2, <1>3, UnderWay
<1>7. CASE Goes(q, Calm)
  BY <1>2, <1>3, <1>6, <1>7, BotQuiet, CalmFits
<1>8. CASE /\ Goes(q, r)
           /\ ~(/\ c.bot_type = "ai_companion" /\ c.joined_server_id # NoSite
                /\ c.joined_server_id = s \/ <<c.joined_server_id, x>> \in memberOf)
  <2>1. breq'[q] = r
    BY <1>8 DEF Goes, BotsIInv
  <2>2. ASSUME x \notin disturbed, IsCompanion(x) PROVE Memberless(x)
    <3>1. bots[x] = c
      BY <1>2, <2>2 DEF Invited
    <3>2. ASSUME NEW p \in BotRequests, breq[p].op = "record", breq[p].of = x PROVE FALSE
      <4>1. p # q /\ breq[p] # Calm
        BY <1>2, <3>2, SMT DEF Calm
      <4> QED
        BY <1>3, <1>6, <2>2, <4>1
    <3>3. \A t \in BotServers : <<t, x>> \in memberOf => c.joined_server_id = t
      BY <2>2, <3>1, <3>2 DEF BotsIInv
    <3>4. c.bot_type = "ai_companion"
      BY <2>2, <3>1 DEF IsCompanion
    <3> QED
      BY <1>8, <3>3, <3>4, BotsAssumption DEF Memberless
  <2>3. x \in disturbed' \/ Invited(q, x)'
    BY <1>2, <1>3, <1>4, <2>1, <2>2 DEF Invited, IsCompanion, Exists, Memberless
  <2> QED
    BY <1>2, <1>3, <1>4, <1>6, <1>8, <2>3, BotQuiet
<1> QED
  BY <1>5, <1>7, <1>8

LEMMA JoinServerKeeps ==
    ASSUME BotsIInv, NEW q \in BotRequests, JoinServer(q)
    PROVE  BotsIInv'
<1>1. breq[q].op = "join"
  BY DEF JoinServer
<1>0. PICK x \in BotIds, s \in BotServers, c \in Bot :
          breq[q] = [op |-> "join", of |-> x, server |-> s, copy |-> c]
  BY <1>1, InvitationIs
<1>2. /\ breq[q].of = x /\ breq[q].server = s /\ breq[q].copy = c
      /\ x \in given /\ breq[q] # Calm /\ (x \in disturbed \/ Invited(q, x))
  <2>1. breq[q].of = x /\ breq[q].server = s /\ breq[q].copy = c
    BY <1>0, SMT
  <2> QED
    BY <1>1, <2>1, InvitationIs
<1> DEFINE r == [op |-> "record", of |-> x, server |-> s, copy |-> c]
<1>3. r \in BotRequest /\ r.op = "record" /\ r.of = x /\ r.server = s /\ r.copy = c
  BY DEF BotRequest
<1>4. /\ memberOf' = memberOf \cup {<<s, x>>}
      /\ UNCHANGED <<bots, given, disturbed>>
      /\ \/ Goes(q, Calm) /\ ~(<<s, x>> \notin memberOf /\ c.bot_type = "ai_companion")
         \/ Goes(q, r) /\ <<s, x>> \notin memberOf /\ c.bot_type = "ai_companion"
  BY <1>0, SMT DEF JoinServer
<1> HIDE DEF r
<1>5. \A p \in BotRequests \ {q} : breq[p] # Calm => breq[p].of \in disturbed' /\ x \in disturbed'
  BY <1>2, <1>4, UnderWay
<1>6. \A b \in BotIds \ {x} : \A t \in BotServers : <<t, b>> \in memberOf' => <<t, b>> \in memberOf
  BY <1>4
<1>7. IsCompanion(x)' = IsCompanion(x) /\ (x \notin disturbed => bots[x] = c)
  BY <1>2, <1>4 DEF IsCompanion, Exists, Invited
<1>8. ASSUME x \notin disturbed, IsCompanion(x)
      PROVE  c.bot_type = "ai_companion" /\ Memberless(x)
  <2>1. Invited(q, x) /\ bots[x] = c
    BY <1>2, <1>7, <1>8
  <2>2. Memberless(x)
    BY <1>1, <1>8, <2>1 DEF Invited
  <2>3. c.bot_type = "ai_companion"
    BY <1>8, <2>1 DEF IsCompanion
  <2> QED
    BY <2>2, <2>3
<1>9. CASE Goes(q, Calm) /\ ~(<<s, x>> \notin memberOf /\ c.bot_type = "ai_companion")
  <2>1. x \in disturbed \/ ~IsCompanion(x)
    <3> SUFFICES ASSUME x \notin disturbed, IsCompanion(x) PROVE FALSE
      OBVIOUS
    <3>1. c.bot_type = "ai_companion" /\ Memberless(x)
      BY <1>8
    <3>2. <<s, x>> \notin memberOf
      BY <3>1 DEF Memberless
    <3> QED
      BY <1>9, <3>1, <3>2
  <2>2. bots' \in [BotIds -> Bot \cup {NoSite}]
    BY <1>4 DEF BotsIInv
  <2> QED
    BY <1>2, <1>4, <1>5, <1>6, <1>7, <1>9, <2>1, <2>2, BotStep, CalmFits
<1>10. CASE Goes(q, r) /\ <<s, x>> \notin memberOf /\ c.bot_type = "ai_companion"
  <2>1. breq'[q] = r
    BY <1>10 DEF Goes, BotsIInv
  <2>2. ASSUME x \notin disturbed PROVE IsCompanion(x) /\ Memberless(x)
    <3>1. bots[x] = c /\ c # NoSite
      BY <1>7, <2>2, BotsAssumption
    <3>2. IsCompanion(x)
      BY <1>10, <3>1 DEF IsCompanion, Exists
    <3> QED
      BY <1>8, <2>2, <3>2
  <2>3. x \in disturbed' \/ Invited(q, x)'
    BY <1>3, <1>4, <1>7, <2>1, <2>2 DEF Invited, Memberless
  <2>4. bots' \in [BotIds -> Bot \cup {NoSite}]
    BY <1>4 DEF BotsIInv
  <2> QED
    BY <1>2, <1>3, <1>4, <1>5, <1>6, <1>7, <1>10, <2>3, <2>4, BotStep
<1> QED
  BY <1>4, <1>9, <1>10

(* The server is written into a document that is there. *)
LEMMA ServerWritten ==
    ASSUME bots \in [BotIds -> Bot \cup {NoSite}], NEW x \in BotIds, NEW s \in BotServers,
           bots' = update_bot_joined_server(x, s)
    PROVE  /\ bots' \in [BotIds -> Bot \cup {NoSite}]
           /\ \A b \in BotIds \ {x} : bots'[b] = bots[b]
           /\ Exists(x) => bots'[x].joined_server_id = s
           /\ IsCompanion(x)' = IsCompanion(x)
<1>1. s # NoSite
  BY BotsAssumption
<1>2. CASE ~Exists(x)
  <2>1. bots' = bots
    BY <1>2 DEF update_bot_joined_server
  <2> QED
    BY <1>2, <2>1 DEF IsCompanion, Exists
<1>3. CASE Exists(x)
  <2>1. bots[x] \in Bot
    BY <1>3 DEF Exists
  <2> DEFINE d == [bots[x] EXCEPT !.joined_server_id = s]
  <2>2. d \in Bot /\ d.joined_server_id = s /\ d.bot_type = bots[x].bot_type
    BY <2>1 DEF Bot
  <2>3. bots' = [bots EXCEPT ![x] = d]
    BY <1>1, <1>3 DEF update_bot_joined_server
  <2> HIDE DEF d
  <2>4. bots'[x] = d /\ d # NoSite
    BY <2>2, <2>3, BotsAssumption
  <2>5. bots' \in [BotIds -> Bot \cup {NoSite}] /\ \A b \in BotIds \ {x} : bots'[b] = bots[b]
    BY <2>2, <2>3
  <2>6. IsCompanion(x)' = IsCompanion(x)
    BY <1>3, <2>2, <2>4 DEF IsCompanion, Exists
  <2> QED
    BY <2>2, <2>4, <2>5, <2>6
<1> QED
  BY <1>2, <1>3

LEMMA RecordServerKeeps ==
    ASSUME BotsIInv, NEW q \in BotRequests, RecordServer(q)
    PROVE  BotsIInv'
<1>1. breq[q].op = "record"
  BY DEF RecordServer
<1>0. PICK x \in BotIds, s \in BotServers, c \in Bot :
          breq[q] = [op |-> "record", of |-> x, server |-> s, copy |-> c]
  BY <1>1, InvitationIs
<1>2. /\ breq[q].of = x /\ breq[q].server = s /\ breq[q].copy = c
      /\ x \in given /\ breq[q] # Calm /\ (x \in disturbed \/ Invited(q, x))
  <2>1. breq[q].of = x /\ breq[q].server = s /\ breq[q].copy = c
    BY <1>0, SMT
  <2> QED
    BY <1>1, <2>1, InvitationIs
<1>3. /\ bots' = update_bot_joined_server(x, s) /\ Goes(q, Calm)
      /\ UNCHANGED <<memberOf, given, disturbed>>
  BY <1>2 DEF RecordServer
<1>4. \A p \in BotRequests \ {q} : breq[p] # Calm => breq[p].of \in disturbed' /\ x \in disturbed'
  BY <1>2, <1>3, UnderWay
<1>5. /\ bots' \in [BotIds -> Bot \cup {NoSite}]
      /\ \A b \in BotIds \ {x} : bots'[b] = bots[b]
      /\ Exists(x) => bots'[x].joined_server_id = s
      /\ IsCompanion(x)' = IsCompanion(x)
  BY <1>3, ServerWritten DEF BotsIInv
<1>6. x \in disturbed' \/ \A t \in BotServers : <<t, x>> \in memberOf' => t = s
  BY <1>1, <1>2, <1>3 DEF Invited
<1>7. x \in disturbed' \/ Exists(x)
  BY <1>2, <1>3, BotsAssumption DEF Invited, Exists
<1> QED
  BY <1>2, <1>3, <1>4, <1>5, <1>6, <1>7, BotStep, CalmFits

LEMMA RemoveMemberKeeps ==
    ASSUME BotsIInv, NEW q \in BotRequests, NEW b \in BotIds, NEW s \in BotServers, RemoveMember(q, s, b)
    PROVE  BotsIInv'
<1> DEFINE r == [op |-> "forget", of |-> b, server |-> s]
<1>1. r \in BotRequest /\ r.op = "forget" /\ r.of = b
  BY DEF BotRequest
<1>2. /\ breq[q] = Calm /\ <<s, b>> \in memberOf /\ Goes(q, r) /\ Overlaps(b)
      /\ memberOf' \subseteq memberOf /\ UNCHANGED <<bots, given>>
  BY DEF RemoveMember
<1>3. b \in given
  BY <1>2 DEF BotsIInv, Memberless
<1> HIDE DEF r
<1> QED
  BY <1>1, <1>2, <1>3, Begun, BotQuiet, CalmFits

LEMMA EndKeeps ==
    ASSUME BotsIInv, NEW q \in BotRequests, ForgetServer(q) \/ RequestFails(q)
    PROVE  BotsIInv'
<1>0. PICK x \in BotIds : x = breq[q].of
  BY BotRequestKinds DEF ForgetServer, RequestFails, BotsIInv
<1>1. /\ breq[q] # Calm /\ Goes(q, Calm) /\ bots' = bots /\ UNCHANGED <<memberOf, given>>
      /\ disturbed \subseteq disturbed' /\ (breq[q].op # "record" \/ x \in disturbed')
  <2>1. CASE ForgetServer(q)
    <3>1. breq[q].op = "forget" /\ Goes(q, Calm) /\ UNCHANGED <<memberOf, given, disturbed>>
      BY <2>1 DEF ForgetServer
    <3>2. bots' = bots
      BY <2>1, NothingWritten DEF ForgetServer
    <3>3. breq[q] # Calm /\ breq[q].op # "record"
      BY <3>1, SMT DEF Calm
    <3> QED
      BY <3>1, <3>2, <3>3
  <2>2. CASE RequestFails(q)
    BY <1>0, <2>2 DEF RequestFails
  <2> QED
    BY <2>1, <2>2
<1>2. \A p \in BotRequests \ {q} : breq[p] # Calm => breq[p].of \in disturbed' /\ x \in disturbed'
  BY <1>0, <1>1, UnderWay
<1>3. x \in given
  BY <1>0, <1>1 DEF BotsIInv
<1> QED
  BY <1>0, <1>1, <1>2, <1>3, BotQuiet, CalmFits

LEMMA BotsStutter == ASSUME BotsIInv, UNCHANGED botVars PROVE BotsIInv'
  BY DEF BotsIInv, botVars, Exists, IsCompanion, Memberless, NewBot, Invited

LEMMA BotsStepKeeps == BotsIInv /\ [BotsNext]_botVars => BotsIInv'
<1> SUFFICES ASSUME BotsIInv, [BotsNext]_botVars PROVE BotsIInv'
  OBVIOUS
<1>1. ASSUME NEW q \in BotRequests, NEW b \in BotIds, NEW t \in {"regular", "ai_companion"},
             NEW ok \in BOOLEAN, create_bot(q, b, t, ok)
      PROVE  BotsIInv'
  BY <1>1, CreateBotKeeps DEF create_bot
<1> QED
  BY <1>1, BotsStutter, CreateUserKeeps, InsertBotKeeps, DeleteBotKeeps, MarkDeletedKeeps,
     DeleteDocumentKeeps, InviteKeeps, CheckCompanionKeeps, JoinServerKeeps, RecordServerKeeps,
     RemoveMemberKeeps, EndKeeps DEF BotsNext

(* For any bots, servers and requests, an owner has one companion and a
   companion is in one server, unless requests about it overlapped or one
   failed half way (Bot::create, invite_bot, Member::create). *)
THEOREM AlwaysOneServerEach == BotsSpec => []OneServerEach
<1>1. BotsIInv => OneServerEach
  <2> SUFFICES ASSUME BotsIInv PROVE OneServerEach
    OBVIOUS
  <2>1. ASSUME NEW b \in BotIds \ disturbed, IsCompanion(b), NEW s \in BotServers, NEW t \in BotServers,
               <<s, b>> \in memberOf, <<t, b>> \in memberOf
        PROVE  s = t
    <3>1. CASE \E q \in BotRequests : breq[q].op = "record" /\ breq[q].of = b
      BY <2>1, <3>1 DEF BotsIInv, Invited
    <3>2. CASE \A v \in BotServers : <<v, b>> \in memberOf => bots[b].joined_server_id = v
      BY <2>1, <3>2
    <3> QED
      BY <2>1, <3>1, <3>2 DEF BotsIInv
  <2> QED
    BY <2>1 DEF OneServerEach, BotsIInv
<1> QED
  BY <1>1, BotsInitOK, BotsStepKeeps, PTL DEF BotsSpec

-----------------------------------------------------------------------------
(***************************************************************************)
(* Reports.  A request that files a report has marked all files but those  *)
(* it has left, and saved all snapshots but those it has left.  Of a report  *)
(* that is not cut one moderator at most is about to log what its status is. *)
(***************************************************************************)
FilingOK(r, f, marked, saved) ==
    /\ "at" \in DOMAIN f
    /\ f.at \in {"mark", "save"} =>
          /\ f = [at |-> f.at, content |-> f.content, files |-> f.files, left |-> f.left]
          /\ f.content \subseteq Contents
          /\ \A c \in f.content :
                /\ f.at = "mark" => FilesOf[c] \subseteq marked \cup f.files /\ c \in f.left
                /\ f.at = "save" => FilesOf[c] \subseteq marked /\ (<<r, c>> \in saved \/ c \in f.left)

Evident(r, d, marked, saved) ==
    \A c \in d.content : <<r, c>> \in saved /\ FilesOf[c] \subseteq marked

Closes(t, r) == t # NoTriage /\ t.id = r

TriageOK(t, docs) ==
    t # NoTriage =>
        /\ t.id \in ReportIds /\ docs[t.id] # NoReport
        /\ t.status \in {"Resolved", "Rejected"}

Logged(d, log) ==
    IF d.status = "Created" THEN log = <<>> ELSE log # <<>> /\ log[Len(log)] = d.status

Settled(r, d, tri, log) ==
    /\ \A m, n \in Moderators : Closes(tri[m], r) /\ Closes(tri[n], r) => m = n
    /\ \A m \in Moderators : Closes(tri[m], r) => tri[m].status = d.status
    /\ d # NoReport /\ (\A m \in Moderators : ~Closes(tri[m], r)) => Logged(d, log)

ReportsOK(own, marked, saved, docs, fil, tri, log, off) ==
    /\ own \subseteq Contents
    /\ DOMAIN fil = ReportIds /\ DOMAIN tri = Moderators
    /\ docs \in [ReportIds -> Report \cup {NoReport}]
    /\ log \in [ReportIds -> Seq({"Resolved", "Rejected"})]
    /\ \A r \in ReportIds : FilingOK(r, fil[r], marked, saved)
    /\ \A r \in ReportIds : fil[r].at # "over" => docs[r] = NoReport
    /\ \A r \in ReportIds : docs[r] = NoReport => log[r] = <<>>
    /\ \A r \in ReportIds : docs[r] # NoReport => Evident(r, docs[r], marked, saved)
    /\ \A m \in Moderators : TriageOK(tri[m], docs)
    /\ \A r \in ReportIds \ off : Settled(r, docs[r], tri, log[r])

ReportsIInv == ReportsOK(present, reported, snapshots, reports, filing, triage, audit, cut)

LEMMA ReportsPrimed ==
    ASSUME ReportsOK(present', reported', snapshots', reports', filing', triage', audit', cut')
    PROVE  ReportsIInv'
  BY DEF ReportsIInv, ReportsOK, FilingOK, Evident, Closes, TriageOK, Logged, Settled, NoTriage, Report

LEMMA FilingTo ==
    ASSUME ReportsIInv, NEW r \in ReportIds, NEW f, Filing(r, f)
    PROVE  /\ DOMAIN filing' = ReportIds /\ filing'[r] = f
           /\ \A x \in ReportIds : x # r => filing'[x] = filing[x]
  BY DEF ReportsIInv, ReportsOK, Filing

(* A request that files a report moves on, and nothing is lost meanwhile.  *)
LEMMA FilingMoves ==
    ASSUME ReportsIInv, NEW r \in ReportIds,
           DOMAIN filing' = ReportIds, \A x \in ReportIds : x # r => filing'[x] = filing[x],
           reported \subseteq reported', snapshots \subseteq snapshots',
           FilingOK(r, filing'[r], reported', snapshots'),
           filing'[r].at # "over" => reports[r] = NoReport,
           UNCHANGED <<present, reports, triage, audit, cut>>
    PROVE  ReportsIInv'
<1>1. \A x \in ReportIds : FilingOK(x, filing'[x], reported', snapshots')
  <2> SUFFICES ASSUME NEW x \in ReportIds, x # r PROVE FilingOK(x, filing'[x], reported', snapshots')
    OBVIOUS
  <2>1. FilingOK(x, filing[x], reported, snapshots) /\ filing'[x] = filing[x]
    BY DEF ReportsIInv, ReportsOK
  <2> QED
    BY <2>1 DEF FilingOK
<1>2. \A x \in ReportIds : reports[x] # NoReport => Evident(x, reports[x], reported', snapshots')
  BY DEF ReportsIInv, ReportsOK, Evident
<1>3. \A x \in ReportIds : filing'[x].at # "over" => reports[x] = NoReport
  BY DEF ReportsIInv, ReportsOK
<1>4. ReportsOK(present', reported', snapshots', reports', filing', triage', audit', cut')
  BY <1>1, <1>2, <1>3 DEF ReportsIInv, ReportsOK
<1> QED
  BY <1>4, ReportsPrimed

LEMMA ReportContentKeeps ==
    ASSUME ReportsIInv, NEW r \in ReportIds, NEW c \in Contents,
           NEW context \in SUBSET {"message"}, report_content(r, c, context)
    PROVE  ReportsIInv'
<1> DEFINE contents == {c} \cup (context \cap present)
           f == [at |-> "mark", content |-> contents, files |-> generate_from(contents),
                 left |-> contents]
<1>1. /\ filing[r] = NotBegun /\ Filing(r, f)
      /\ UNCHANGED <<present, reported, snapshots, reports, triage, audit, cut>>
  BY DEF report_content
<1>2. contents \subseteq Contents
  BY DEF ReportsIInv, ReportsOK
<1>3. \A d \in contents : FilesOf[d] \subseteq generate_from(contents)
  BY DEF generate_from
<1> HIDE DEF contents
<1>4. FilingOK(r, f, reported, snapshots) /\ f.at = "mark"
  BY <1>2, <1>3 DEF FilingOK
<1>5. reports[r] = NoReport
  <2>1. NotBegun.at # "over"
    BY DEF NotBegun
  <2>2. filing[r].at # "over"
    BY <1>1, <2>1
  <2> QED
    BY <2>2 DEF ReportsIInv, ReportsOK
<1> HIDE DEF f
<1> QED
  BY <1>1, <1>4, <1>5, FilingTo, FilingMoves

LEMMA MarkFileKeeps ==
    ASSUME ReportsIInv, NEW r \in ReportIds, mark_attachment_as_reported_by(r)
    PROVE  ReportsIInv'
<1> DEFINE f == filing[r]
<1>1. /\ FilingOK(r, f, reported, snapshots) /\ f.at = "mark" /\ reports[r] = NoReport
      /\ UNCHANGED <<present, snapshots, reports, triage, audit, cut>>
  BY DEF ReportsIInv, ReportsOK, mark_attachment_as_reported_by
<1>2. CASE f.files = {}
  <2> DEFINE g == [f EXCEPT !.at = "save"]
  <2>1. Filing(r, g) /\ reported' = reported
    BY <1>2 DEF mark_attachment_as_reported_by
  <2>2. FilingOK(r, g, reported', snapshots') /\ g.at = "save"
    BY <1>1, <1>2, <2>1, SMT DEF FilingOK
  <2> HIDE DEF g
  <2> QED
    BY <1>1, <2>1, <2>2, FilingTo, FilingMoves
<1>3. CASE f.files # {}
  <2>1. PICK x \in f.files : reported' = reported \cup {x} /\ Filing(r, [f EXCEPT !.files = @ \ {x}])
    BY <1>3 DEF mark_attachment_as_reported_by
  <2> DEFINE g == [f EXCEPT !.files = @ \ {x}]
  <2>2. FilingOK(r, g, reported', snapshots') /\ g.at = "mark"
    <3>1. /\ g = [at |-> "mark", content |-> f.content, files |-> f.files \ {x}, left |-> f.left]
          /\ f.content \subseteq Contents
          /\ \A c \in f.content : FilesOf[c] \subseteq reported \cup f.files /\ c \in f.left
      <4>1. /\ f = [at |-> f.at, content |-> f.content, files |-> f.files, left |-> f.left]
            /\ f.content \subseteq Contents
            /\ \A c \in f.content : FilesOf[c] \subseteq reported \cup f.files /\ c \in f.left
        BY <1>1 DEF FilingOK
      <4> HIDE DEF f
      <4> QED
        BY <1>1, <4>1, SMT
    <3> HIDE DEF f, g
    <3>2. /\ "at" \in DOMAIN g /\ g.at = "mark" /\ g.content = f.content
          /\ g.files = f.files \ {x} /\ g.left = f.left
          /\ g = [at |-> g.at, content |-> g.content, files |-> g.files, left |-> g.left]
      BY <3>1
    <3> QED
      BY <2>1, <3>1, <3>2 DEF FilingOK
  <2> HIDE DEF g
  <2> QED
    BY <1>1, <2>1, <2>2, FilingTo, FilingMoves DEF g
<1> QED
  BY <1>2, <1>3

LEMMA SnapshotKeeps ==
    ASSUME ReportsIInv, NEW r \in ReportIds, insert_snapshot(r)
    PROVE  ReportsIInv'
<1> DEFINE f == filing[r]
<1>1. /\ FilingOK(r, f, reported, snapshots) /\ f.at = "save" /\ reports[r] = NoReport
      /\ UNCHANGED <<present, reported, reports, triage, audit, cut>>
  BY DEF ReportsIInv, ReportsOK, insert_snapshot
<1>2. PICK c \in f.left : snapshots' = snapshots \cup {<<r, c>>} /\ Filing(r, [f EXCEPT !.left = @ \ {c}])
  BY DEF insert_snapshot
<1> DEFINE g == [f EXCEPT !.left = @ \ {c}]
<1>3. FilingOK(r, g, reported', snapshots') /\ g.at = "save"
  <2>1. /\ g = [at |-> "save", content |-> f.content, files |-> f.files, left |-> f.left \ {c}]
        /\ f.content \subseteq Contents
        /\ \A d \in f.content : FilesOf[d] \subseteq reported /\ (<<r, d>> \in snapshots \/ d \in f.left)
    BY <1>1, SMT DEF FilingOK
  <2> HIDE DEF f, g
  <2>2. /\ "at" \in DOMAIN g /\ g.at = "save" /\ g.content = f.content /\ g.left = f.left \ {c}
        /\ g = [at |-> g.at, content |-> g.content, files |-> g.files, left |-> g.left]
    BY <2>1
  <2>3. \A d \in g.content : FilesOf[d] \subseteq reported' /\ (<<r, d>> \in snapshots' \/ d \in g.left)
    BY <1>1, <1>2, <2>1, <2>2
  <2> QED
    BY <2>1, <2>2, <2>3 DEF FilingOK
<1>4. Filing(r, g)
  BY <1>2
<1> HIDE DEF g
<1> QED
  BY <1>1, <1>2, <1>3, <1>4, FilingTo, FilingMoves

LEMMA OverOK == \A r, marked, saved : FilingOK(r, Over, marked, saved) /\ Over.at = "over"
  BY DEF FilingOK, Over

LEMMA FilingFailsKeeps ==
    ASSUME ReportsIInv, NEW r \in ReportIds, FilingFails(r)
    PROVE  ReportsIInv'
  BY OverOK, FilingTo, FilingMoves DEF FilingFails

LEMMA ReportKeeps ==
    ASSUME ReportsIInv, NEW r \in ReportIds, insert_report(r)
    PROVE  ReportsIInv'
<1> DEFINE f == filing[r]
           d == [content |-> f.content, status |-> "Created"]
<1>1. /\ FilingOK(r, f, reported, snapshots) /\ f.at = "save" /\ f.left = {}
      /\ reports[r] = NoReport /\ audit[r] = <<>>
      /\ reports' = [reports EXCEPT ![r] = d] /\ Filing(r, Over)
      /\ UNCHANGED <<present, reported, snapshots, triage, audit, cut>>
  BY DEF ReportsIInv, ReportsOK, insert_report, Ready
<1>2. d \in Report /\ d.status = "Created" /\ Evident(r, d, reported, snapshots)
  BY <1>1 DEF FilingOK, Evident, Report
<1>3. d # NoReport
  BY <1>2, ReportsAssumption
<1> HIDE DEF f, d
<1>4. /\ reports'[r] = d /\ \A x \in ReportIds : x # r => reports'[x] = reports[x]
      /\ reports' \in [ReportIds -> Report \cup {NoReport}]
  BY <1>1, <1>2 DEF ReportsIInv, ReportsOK
<1>5. /\ DOMAIN filing' = ReportIds /\ filing'[r] = Over
      /\ \A x \in ReportIds : x # r => filing'[x] = filing[x]
  BY <1>1, FilingTo
<1>6. \A m \in Moderators : ~Closes(triage[m], r)
  BY <1>1 DEF ReportsIInv, ReportsOK, TriageOK, Closes
<1>7. \A m \in Moderators : TriageOK(triage[m], reports')
  BY <1>3, <1>4 DEF ReportsIInv, ReportsOK, TriageOK
<1>8. Settled(r, d, triage, audit[r])
  BY <1>1, <1>2, <1>6 DEF Settled, Logged
<1>9. /\ \A x \in ReportIds : FilingOK(x, filing'[x], reported, snapshots)
      /\ \A x \in ReportIds : filing'[x].at # "over" => reports'[x] = NoReport
  BY <1>4, <1>5, OverOK DEF ReportsIInv, ReportsOK
<1>10. ReportsOK(present', reported', snapshots', reports', filing', triage', audit', cut')
  BY <1>1, <1>2, <1>3, <1>4, <1>5, <1>7, <1>8, <1>9 DEF ReportsIInv, ReportsOK
<1> QED
  BY <1>10, ReportsPrimed

LEMMA TriageTo ==
    ASSUME ReportsIInv, NEW m \in Moderators, NEW t, triage' = [triage EXCEPT ![m] = t]
    PROVE  /\ DOMAIN triage' = Moderators /\ triage'[m] = t
           /\ \A n \in Moderators : n # m => triage'[n] = triage[n]
  BY DEF ReportsIInv, ReportsOK

LEMMA StatusKeeps ==
    ASSUME ReportsIInv, NEW m \in Moderators, NEW r \in ReportIds,
           NEW s \in {"Resolved", "Rejected"}, update_report_status(m, r, s)
    PROVE  ReportsIInv'
<1> DEFINE d == [reports[r] EXCEPT !.status = s]
           t == [at |-> "log", id |-> r, status |-> s]
<1>1. /\ triage[m] = NoTriage /\ reports[r] \in Report /\ reports[r] # NoReport
      /\ reports' = [reports EXCEPT ![r] = d] /\ triage' = [triage EXCEPT ![m] = t]
      /\ cut' = IF Closing(r) = {} THEN cut ELSE cut \cup {r}
      /\ UNCHANGED <<present, reported, snapshots, filing, audit>>
  BY DEF ReportsIInv, ReportsOK, update_report_status
<1>2. d \in Report /\ d.status = s /\ d.content = reports[r].content
  BY <1>1 DEF Report
<1>3. d # NoReport
  BY <1>2, ReportsAssumption
<1>4. t # NoTriage /\ t.id = r /\ t.status = s
  BY DEF NoTriage
<1> HIDE DEF d, t
<1>5. /\ reports'[r] = d /\ \A x \in ReportIds : x # r => reports'[x] = reports[x]
      /\ reports' \in [ReportIds -> Report \cup {NoReport}]
  BY <1>1, <1>2 DEF ReportsIInv, ReportsOK
<1>6. /\ DOMAIN triage' = Moderators /\ triage'[m] = t
      /\ \A n \in Moderators : n # m => triage'[n] = triage[n]
  BY <1>1, TriageTo
<1>7. \A n \in Moderators : TriageOK(triage'[n], reports')
  BY <1>3, <1>4, <1>5, <1>6 DEF ReportsIInv, ReportsOK, TriageOK
<1>8. \A x \in ReportIds : reports'[x] # NoReport => Evident(x, reports'[x], reported, snapshots)
  BY <1>1, <1>2, <1>5 DEF ReportsIInv, ReportsOK, Evident
<1>9. ASSUME NEW x \in ReportIds \ cut' PROVE Settled(x, reports'[x], triage', audit[x])
  <2>1. x \notin cut /\ Settled(x, reports[x], triage, audit[x])
    BY <1>1 DEF ReportsIInv, ReportsOK
  <2>2. CASE x # r
    <3>1. \A n \in Moderators : Closes(triage'[n], x) <=> Closes(triage[n], x)
      BY <1>1, <1>4, <1>6, <2>2 DEF Closes
    <3>2. \A n \in Moderators : Closes(triage'[n], x) => triage'[n] = triage[n]
      BY <1>4, <1>6, <2>2 DEF Closes
    <3> QED
      BY <1>5, <2>1, <2>2, <3>1, <3>2 DEF Settled
  <2>3. CASE x = r
    <3>1. Closing(r) = {}
      BY <1>1, <2>3
    <3>2. \A n \in Moderators : Closes(triage'[n], r) <=> n = m
      BY <1>4, <1>6, <3>1 DEF Closing, Closes
    <3> QED
      BY <1>2, <1>4, <1>5, <1>6, <2>3, <3>2 DEF Settled
  <2> QED
    BY <2>2, <2>3
<1>10. ReportsOK(present', reported', snapshots', reports', filing', triage', audit', cut')
  BY <1>1, <1>3, <1>5, <1>6, <1>7, <1>8, <1>9 DEF ReportsIInv, ReportsOK
<1> QED
  BY <1>10, ReportsPrimed

(* A moderator is done with a report, which is cut or whose log is right.  *)
LEMMA TriageEnds ==
    ASSUME ReportsIInv, NEW m \in Moderators, NEW r \in ReportIds, Closes(triage[m], r),
           triage' = [triage EXCEPT ![m] = NoTriage],
           audit' \in [ReportIds -> Seq({"Resolved", "Rejected"})],
           \A x \in ReportIds : x # r => audit'[x] = audit[x],
           cut \subseteq cut',
           r \in cut' \/ (r \notin cut => reports[r].status # "Created" /\ Logged(reports[r], audit'[r])),
           UNCHANGED <<present, reported, snapshots, reports, filing>>
    PROVE  ReportsIInv'
<1>1. /\ DOMAIN triage' = Moderators /\ triage'[m] = NoTriage
      /\ \A n \in Moderators : n # m => triage'[n] = triage[n]
  BY TriageTo
<1>2. \A n \in Moderators : TriageOK(triage'[n], reports)
  BY <1>1 DEF ReportsIInv, ReportsOK, TriageOK
<1>3. reports[r] # NoReport
  BY DEF ReportsIInv, ReportsOK, TriageOK, Closes
<1>4. \A x \in ReportIds : reports[x] = NoReport => audit'[x] = <<>>
  BY <1>3 DEF ReportsIInv, ReportsOK
<1>5. ASSUME NEW x \in ReportIds \ cut' PROVE Settled(x, reports[x], triage', audit'[x])
  <2>1. x \notin cut /\ Settled(x, reports[x], triage, audit[x])
    BY DEF ReportsIInv, ReportsOK
  <2>2. CASE x # r
    <3>1. \A n \in Moderators : /\ Closes(triage'[n], x) <=> Closes(triage[n], x)
                                /\ Closes(triage'[n], x) => triage'[n] = triage[n]
      BY <1>1, <2>2 DEF Closes
    <3> QED
      BY <2>1, <2>2, <3>1 DEF Settled
  <2>3. CASE x = r
    <3>1. \A n \in Moderators : ~Closes(triage'[n], r)
      BY <1>1, <2>1, <2>3 DEF Closes, Settled
    <3> QED
      BY <2>1, <2>3, <3>1 DEF Settled
  <2> QED
    BY <2>2, <2>3
<1>6. ReportsOK(present', reported', snapshots', reports', filing', triage', audit', cut')
  BY <1>1, <1>2, <1>4, <1>5 DEF ReportsIInv, ReportsOK
<1> QED
  BY <1>6, ReportsPrimed

LEMMA AuditKeeps ==
    ASSUME ReportsIInv, NEW m \in Moderators, insert_audit_log(m)
    PROVE  ReportsIInv'
<1>1. PICK r \in ReportIds : r = triage[m].id /\ Closes(triage[m], r)
  BY DEF insert_audit_log, ReportsIInv, ReportsOK, TriageOK, Closes
<1>2. PICK s \in {"Resolved", "Rejected"} : s = triage[m].status
  BY DEF insert_audit_log, ReportsIInv, ReportsOK, TriageOK
<1>3. /\ audit' = [audit EXCEPT ![r] = Append(@, s)] /\ triage' = [triage EXCEPT ![m] = NoTriage]
      /\ UNCHANGED <<present, reported, snapshots, reports, filing, cut>>
  BY <1>1, <1>2 DEF insert_audit_log, Entry
<1>4. audit \in [ReportIds -> Seq({"Resolved", "Rejected"})]
  BY DEF ReportsIInv, ReportsOK
<1>5. /\ audit' \in [ReportIds -> Seq({"Resolved", "Rejected"})]
      /\ \A x \in ReportIds : x # r => audit'[x] = audit[x]
      /\ audit'[r] = Append(audit[r], s)
  BY <1>3, <1>4, SMT
<1>6. audit'[r] # <<>> /\ audit'[r][Len(audit'[r])] = s
  BY <1>4, <1>5, SMT
<1>7. r \notin cut => reports[r].status = s
  BY <1>1, <1>2 DEF ReportsIInv, ReportsOK, Settled
<1>8. r \notin cut => reports[r].status # "Created" /\ Logged(reports[r], audit'[r])
  BY <1>6, <1>7 DEF Logged
<1> QED
  BY <1>1, <1>3, <1>5, <1>8, TriageEnds

LEMMA TriageFailsKeeps ==
    ASSUME ReportsIInv, NEW m \in Moderators, TriageFails(m)
    PROVE  ReportsIInv'
<1>1. PICK r \in ReportIds : r = triage[m].id /\ Closes(triage[m], r)
  BY DEF TriageFails, ReportsIInv, ReportsOK, TriageOK, Closes
<1>2. audit \in [ReportIds -> Seq({"Resolved", "Rejected"})]
  BY DEF ReportsIInv, ReportsOK
<1> QED
  BY <1>1, <1>2, TriageEnds DEF TriageFails

LEMMA ContentDeletedKeeps ==
    ASSUME ReportsIInv, NEW c \in Contents, ContentDeleted(c)
    PROVE  ReportsIInv'
<1>1. ReportsOK(present', reported', snapshots', reports', filing', triage', audit', cut')
  BY DEF ContentDeleted, ReportsIInv, ReportsOK
<1> QED
  BY <1>1, ReportsPrimed

LEMMA ReportsInitOK == ReportsInit => ReportsIInv
<1> SUFFICES ASSUME ReportsInit PROVE ReportsIInv
  OBVIOUS
<1>1. /\ \A r \in ReportIds : FilingOK(r, NotBegun, {}, {})
      /\ \A m \in Moderators : triage[m] = NoTriage
      /\ DOMAIN triage = Moderators /\ DOMAIN filing = ReportIds
      /\ \A r \in ReportIds : filing[r] = NotBegun /\ reports[r] = NoReport /\ audit[r] = <<>>
  BY DEF ReportsInit, FilingOK, NotBegun
<1>2. \A r \in ReportIds : Settled(r, NoReport, triage, <<>>)
  BY <1>1 DEF Settled, Closes
<1>3. /\ reports \in [ReportIds -> Report \cup {NoReport}]
      /\ audit \in [ReportIds -> Seq({"Resolved", "Rejected"})]
  BY SMT DEF ReportsInit
<1> QED
  BY <1>1, <1>2, <1>3 DEF ReportsInit, ReportsIInv, ReportsOK, TriageOK

LEMMA ReportsStepKeeps == ReportsIInv /\ [ReportsNext]_reportVars => ReportsIInv'
<1> SUFFICES ASSUME ReportsIInv, [ReportsNext]_reportVars PROVE ReportsIInv'
  OBVIOUS
<1>1. CASE UNCHANGED reportVars
  <2>1. ReportsOK(present', reported', snapshots', reports', filing', triage', audit', cut')
    BY <1>1 DEF reportVars, ReportsIInv
  <2> QED
    BY <2>1, ReportsPrimed
<1>2. CASE ReportsNext
  BY <1>2, ReportContentKeeps, MarkFileKeeps, SnapshotKeeps, ReportKeeps, FilingFailsKeeps,
     StatusKeeps, AuditKeeps, TriageFailsKeeps, ContentDeletedKeeps
  DEF ReportsNext, resolve_report, reject_report
<1> QED
  BY <1>1, <1>2

(* A report that moderators see has its snapshots and its files marked, and
   once closed by one of them its log says so, for any number of reports,
   contents and moderators (report_content, resolve_report, reject_report). *)
THEOREM ReportsAlwaysAccounted == ReportsSpec => []ReportsAccounted
<1>1. ReportsIInv => ReportsAccounted
  <2> SUFFICES ASSUME ReportsIInv, NEW r \in ReportIds, reports[r] # NoReport
               PROVE  /\ \A c \in reports[r].content : <<r, c>> \in snapshots /\ FilesOf[c] \subseteq reported
                      /\ (r \notin cut /\ Closing(r) = {}) => Logged(reports[r], audit[r])
    BY DEF ReportsAccounted, Logged
  <2> QED
    BY DEF ReportsIInv, ReportsOK, Evident, Settled, Closing, Closes
<1> QED
  BY <1>1, ReportsInitOK, ReportsStepKeeps, PTL DEF ReportsSpec

=============================================================================

---------------------------- MODULE VoiceProofs -----------------------------
(***************************************************************************)
(* Proofs about Voice and Presence, for every set of users, channels,      *)
(* connections, requests and sessions: a user is in one call at a time, a  *)
(* stream is reported live, in one session, exactly while somebody is      *)
(* there, and who may be listed online without a session.                  *)
(***************************************************************************)
EXTENDS Voice, Presence, FiniteSetTheorems, TLAPS

(* Leaves go to Zenon unless they name another prover. *)
USE Zenon

(***************************************************************************)
(* Sessions of a stream.  While no two handlers have overlapped, no call   *)
(* has failed and the cache has not expired, one handler works at a time:  *)
(* the session that is live is the cached one, or the one that handler is  *)
(* about to cache; nobody is listed who is not in the room; and the        *)
(* handler knows that somebody is in the room after a join, and that what  *)
(* it counted bounds who is listed and who is in the room.                 *)
(***************************************************************************)
StreamsShape ==
    /\ IsFiniteSet(present) /\ cached \in Ids \cup {NoSession}
    /\ session \in [Ids -> [state : {"absent", "live", "ended"}, current : Nat, peak : Nat]]
    /\ handler \in [Handlers -> {Ready} \cup Visit]
    /\ crossed \in BOOLEAN

VisitFine(v) ==
    v # Ready =>
      /\ v.event = "join" => room # {}
      /\ v.pc = "lookup" /\ v.event = "leave" => (present # {} => cached # NoSession)
      /\ v.pc = "cache" => v.event = "join" /\ cached = NoSession /\ v.id \in Ids
      /\ v.pc \in {"count", "write"} => v.id = cached /\ cached # NoSession
      /\ v.pc = "write" => (v.count = 0 => present = {}) /\ (v.count # 0 => room # {})

Caching(v, i) == v # Ready /\ v.pc = "cache" /\ v.id = i

(* which session is cached between webhooks *)
RestFine == (present # {} => cached # NoSession) /\ (room = {} => cached = NoSession)

StreamsFine ==
    /\ present \subseteq room
    /\ \A h, o \in Handlers : handler[h] # Ready /\ handler[o] # Ready => h = o
    /\ \A h \in Handlers : VisitFine(handler[h])
    /\ \A i \in Ids : session[i].state = "live" <=>
           cached = i \/ \E h \in Handlers : Caching(handler[h], i)
    /\ AtRest => RestFine

StreamsIInv == StreamsShape /\ (~crossed => StreamsFine)

(* The handler that works, and the others. *)
LEMMA OthersReady ==
    ASSUME StreamsIInv, ~crossed, NEW h \in Handlers, handler[h] # Ready
    PROVE  /\ \A o \in Handlers \ {h} : handler[o] = Ready
           /\ VisitFine(handler[h]) /\ present \subseteq room
           /\ \A i \in Ids : session[i].state = "live" <=> cached = i \/ Caching(handler[h], i)
<1>1. \A o \in Handlers \ {h} : handler[o] = Ready
  BY DEF StreamsIInv, StreamsFine
<1>2. VisitFine(handler[h]) /\ present \subseteq room
  BY DEF StreamsIInv, StreamsFine
<1>3. ASSUME NEW i \in Ids PROVE session[i].state = "live" <=> cached = i \/ Caching(handler[h], i)
  <2>1. (\E o \in Handlers : Caching(handler[o], i)) <=> Caching(handler[h], i)
    BY <1>1 DEF Caching
  <2> QED
    BY <2>1 DEF StreamsIInv, StreamsFine
<1> QED
  BY <1>1, <1>2, <1>3

(* A handler goes on to v. *)
LEMMA VisitMoves ==
    ASSUME StreamsIInv, NEW h \in Handlers, handler[h] # Ready, NEW v \in {Ready} \cup Visit,
           handler' = [handler EXCEPT ![h] = v], UNCHANGED <<room, present, crossed>>,
           cached' \in Ids \cup {NoSession},
           session' \in [Ids -> [state : {"absent", "live", "ended"}, current : Nat, peak : Nat]],
           ~crossed => VisitFine(v)',
           ~crossed => \A i \in Ids : session'[i].state = "live" <=> cached' = i \/ Caching(v, i),
           ~crossed /\ v = Ready => RestFine'
    PROVE  StreamsIInv'
<1>1. handler' \in [Handlers -> {Ready} \cup Visit] /\ handler'[h] = v
      /\ \A o \in Handlers \ {h} : handler'[o] = handler[o]
  BY DEF StreamsIInv, StreamsShape
<1>2. StreamsShape'
  BY <1>1 DEF StreamsIInv, StreamsShape
<1>3. ASSUME ~crossed' PROVE StreamsFine'
  <2>1. \A o \in Handlers \ {h} : handler'[o] = Ready
    BY <1>1, <1>3, OthersReady
  <2>2. \A g, o \in Handlers : handler'[g] # Ready /\ handler'[o] # Ready => g = o
    BY <2>1
  <2>3. \A o \in Handlers : VisitFine(handler[o])'
    BY <1>1, <1>3, <2>1 DEF VisitFine
  <2>4. ASSUME NEW i \in Ids
        PROVE  session'[i].state = "live" <=> cached' = i \/ \E o \in Handlers : Caching(handler'[o], i)
    <3>1. (\E o \in Handlers : Caching(handler'[o], i)) <=> Caching(v, i)
      BY <1>1, <2>1 DEF Caching
    <3> QED
      BY <1>3, <3>1
  <2>5. AtRest' => RestFine'
    BY <1>1, <1>3 DEF AtRest
  <2>6. present' \subseteq room'
    BY <1>3, OthersReady
  <2> QED
    BY <2>6, <2>2, <2>3, <2>4, <2>5 DEF StreamsFine
<1> QED
  BY <1>2, <1>3 DEF StreamsIInv

LEMMA VisitAt ==
    ASSUME StreamsIInv, NEW h \in Handlers, NEW at, At(h, at)
    PROVE  handler[h] # Ready /\ handler[h] \in Visit /\ handler[h].pc = at
  BY DEF StreamsIInv, StreamsShape, At

(* Somebody comes or goes. *)
LEMMA WebhookKeeps ==
    ASSUME StreamsIInv, NEW h \in Handlers, NEW event \in {"join", "leave"}, Webhook(h, event),
           IsFiniteSet(present'), present \subseteq room => present' \subseteq room',
           event = "join" => room' # {}, event = "leave" => present' \subseteq present
    PROVE  StreamsIInv'
<1>1. PICK v : v = [pc |-> "lookup", event |-> event, id |-> NoSession, count |-> 0]
  OBVIOUS
<1>2. v \in Visit /\ v.pc = "lookup" /\ v.event = event
  BY <1>1 DEF Visit
<1>3. handler[h] = Ready /\ handler' = [handler EXCEPT ![h] = v] /\ UNCHANGED <<cached, session>>
      /\ crossed' = (crossed \/ \E o \in Handlers : handler[o] # Ready)
  BY <1>1 DEF Webhook
<1>4. handler' \in [Handlers -> {Ready} \cup Visit] /\ handler'[h] = v
      /\ \A o \in Handlers \ {h} : handler'[o] = handler[o]
  BY <1>2, <1>3 DEF StreamsIInv, StreamsShape
<1>5. crossed' \in BOOLEAN
  BY <1>3 DEF StreamsIInv, StreamsShape
<1>6. StreamsShape'
  BY <1>3, <1>4, <1>5 DEF StreamsIInv, StreamsShape
<1>7. ASSUME ~crossed' PROVE StreamsFine'
  <2>1. ~crossed /\ \A o \in Handlers : handler[o] = Ready
    BY <1>3, <1>7
  <2>2. (present # {} => cached # NoSession) /\ present' \subseteq room'
    BY <2>1 DEF StreamsIInv, StreamsFine, AtRest, RestFine
  <2>3. \A o \in Handlers \ {h} : handler'[o] = Ready
    BY <1>4, <2>1
  <2>4. \A g, o \in Handlers : handler'[g] # Ready /\ handler'[o] # Ready => g = o
    BY <2>3
  <2>5. VisitFine(v)'
    BY <1>2, <1>3, <2>2 DEF VisitFine
  <2>6. \A o \in Handlers : VisitFine(handler[o])'
    BY <1>4, <2>3, <2>5 DEF VisitFine
  <2>7. "lookup" # "cache"
    OBVIOUS
  <2>8. ASSUME NEW i \in Ids
        PROVE  session'[i].state = "live" <=> cached' = i \/ \E o \in Handlers : Caching(handler'[o], i)
    <3>1. ~\E o \in Handlers : Caching(handler'[o], i)
      BY <1>2, <1>4, <2>3, <2>7 DEF Caching
    <3>2. ~\E o \in Handlers : Caching(handler[o], i)
      BY <2>1 DEF Caching
    <3> QED
      BY <1>3, <2>1, <3>1, <3>2 DEF StreamsIInv, StreamsFine
  <2>9. ~AtRest' \/ handler'[h] = Ready
    BY DEF AtRest
  <2>10. AtRest' => RestFine'
    BY <1>2, <1>4, <2>9, StreamsAssumption
  <2> QED
    BY <2>2, <2>4, <2>6, <2>8, <2>10 DEF StreamsFine
<1> QED
  BY <1>6, <1>7 DEF StreamsIInv
LEMMA ComesOrGoes ==
    ASSUME StreamsIInv, NEW h \in Handlers, NEW x, Arrives(h, x) \/ Departs(h, x)
    PROVE  StreamsIInv'
<1>1. IsFiniteSet(present)
  BY DEF StreamsIInv, StreamsShape
<1>2. CASE Arrives(h, x)
  <2>1. IsFiniteSet(present') /\ room' # {} /\ (present \subseteq room => present' \subseteq room')
    BY <1>1, <1>2, FS_AddElement DEF Arrives
  <2>2. "join" # "leave"
    OBVIOUS
  <2> QED
    BY <1>2, <2>1, <2>2, WebhookKeeps DEF Arrives
<1>3. CASE Departs(h, x)
  <2>1. /\ IsFiniteSet(present') /\ present' \subseteq present
        /\ present \subseteq room => present' \subseteq room'
    BY <1>1, <1>3, FS_RemoveElement DEF Departs
  <2>2. "join" # "leave"
    OBVIOUS
  <2> QED
    BY <1>3, <2>1, <2>2, WebhookKeeps DEF Departs
<1> QED
  BY <1>2, <1>3

LEMMA get_cached_session_idKeeps ==
    ASSUME StreamsIInv, NEW h \in Handlers, get_cached_session_id(h)
    PROVE  StreamsIInv'
<1>1. handler[h] # Ready /\ handler[h] \in Visit /\ handler[h].pc = "lookup"
  BY VisitAt DEF get_cached_session_id
<1>2. UNCHANGED <<room, present, crossed, cached, session>>
  BY DEF get_cached_session_id, people
<1>3. /\ cached' \in Ids \cup {NoSession}
      /\ session' \in [Ids -> [state : {"absent", "live", "ended"}, current : Nat, peak : Nat]]
  BY <1>2 DEF StreamsIInv, StreamsShape
<1>4. ~crossed => /\ VisitFine(handler[h])
                  /\ \A i \in Ids : session[i].state = "live" <=> cached = i
  <2>1. \A i : ~Caching(handler[h], i)
    BY <1>1 DEF Caching
  <2> QED
    BY <1>1, <2>1, OthersReady
<1>5. CASE cached # NoSession /\ handler' = [handler EXCEPT ![h].pc = "count", ![h].id = cached]
  <2>1. PICK v : v = [handler[h] EXCEPT !.pc = "count", !.id = cached]
    OBVIOUS
  <2>2. handler' = [handler EXCEPT ![h] = v]
    BY <1>5, <2>1 DEF StreamsIInv, StreamsShape
  <2>3. v \in Visit /\ v.pc = "count" /\ v.id = cached /\ v.event = handler[h].event
    BY <1>1, <1>2, <1>3, <2>1 DEF Visit
  <2>4. ~crossed => VisitFine(v)'
    BY <1>1, <1>2, <1>4, <1>5, <2>3 DEF VisitFine
  <2>5. \A i : ~Caching(v, i)
    BY <2>3 DEF Caching
  <2> QED
    BY <1>1, <1>2, <1>3, <1>4, <2>2, <2>3, <2>4, <2>5, VisitMoves, StreamsAssumption
<1>6. CASE cached = NoSession /\ handler[h].event = "leave" /\ handler' = [handler EXCEPT ![h] = Ready]
  <2>1. ~crossed => RestFine'
    BY <1>1, <1>2, <1>4, <1>6 DEF VisitFine, RestFine
  <2>2. VisitFine(Ready)' /\ \A i : ~Caching(Ready, i)
    BY DEF VisitFine, Caching
  <2> QED
    BY <1>1, <1>2, <1>3, <1>4, <1>6, <2>1, <2>2, VisitMoves
<1> QED
  BY <1>5, <1>6 DEF get_cached_session_id

LEMMA create_stream_sessionKeeps ==
    ASSUME StreamsIInv, NEW h \in Handlers, create_stream_session(h)
    PROVE  StreamsIInv'
<1>1. handler[h] # Ready /\ handler[h] \in Visit /\ handler[h].pc = "lookup"
  BY VisitAt DEF create_stream_session
<1>2. UNCHANGED <<room, present, crossed, cached>> /\ cached = NoSession /\ handler[h].event = "join"
  BY DEF create_stream_session, people
<1>3. PICK i \in Ids :
          /\ session[i] = Absent
          /\ session' = [session EXCEPT ![i].state = "live"]
          /\ handler' = [handler EXCEPT ![h].pc = "cache", ![h].id = i]
  BY DEF create_stream_session
<1>4. PICK v : v = [handler[h] EXCEPT !.pc = "cache", !.id = i]
  OBVIOUS
<1>5. handler' = [handler EXCEPT ![h] = v]
  BY <1>3, <1>4 DEF StreamsIInv, StreamsShape
<1>6. v \in Visit /\ v.pc = "cache" /\ v.id = i /\ v.event = "join"
  BY <1>1, <1>2, <1>4 DEF Visit
<1>7. /\ cached' \in Ids \cup {NoSession}
      /\ session' \in [Ids -> [state : {"absent", "live", "ended"}, current : Nat, peak : Nat]]
      /\ \A j \in Ids : session'[j].state = IF j = i THEN "live" ELSE session[j].state
  BY <1>2, <1>3 DEF StreamsIInv, StreamsShape
<1>8. ~crossed => /\ VisitFine(handler[h])
                  /\ \A j \in Ids : session[j].state = "live" <=> cached = j
  <2>1. \A j : ~Caching(handler[h], j)
    BY <1>1 DEF Caching
  <2> QED
    BY <1>1, <2>1, OthersReady
<1>9. ~crossed => VisitFine(v)'
  BY <1>1, <1>2, <1>6, <1>8 DEF VisitFine
<1>10. v # Ready
  BY <1>6, StreamsAssumption
<1>11. ~crossed => \A j \in Ids : session'[j].state = "live" <=> cached' = j \/ Caching(v, j)
  BY <1>2, <1>6, <1>7, <1>8, <1>10, StreamsAssumption DEF Caching
<1> QED
  BY <1>1, <1>2, <1>5, <1>6, <1>7, <1>9, <1>10, <1>11, VisitMoves

LEMMA cache_session_idKeeps ==
    ASSUME StreamsIInv, NEW h \in Handlers, cache_session_id(h)
    PROVE  StreamsIInv'
<1>1. handler[h] # Ready /\ handler[h] \in Visit /\ handler[h].pc = "cache"
  BY VisitAt DEF cache_session_id
<1>2. PICK v : v = [handler[h] EXCEPT !.pc = "count"]
  OBVIOUS
<1>3. /\ handler' = [handler EXCEPT ![h] = v] /\ UNCHANGED <<room, present, session, crossed>>
      /\ cached' = handler[h].id
  BY <1>2 DEF cache_session_id, people
<1>4. v \in Visit /\ v.pc = "count" /\ v.id = handler[h].id /\ v.event = handler[h].event
  BY <1>1, <1>2 DEF Visit
<1>5. cached' \in Ids \cup {NoSession}
  BY <1>1, <1>3 DEF Visit
<1>6. session' \in [Ids -> [state : {"absent", "live", "ended"}, current : Nat, peak : Nat]]
  BY <1>3 DEF StreamsIInv, StreamsShape
<1>7. ~crossed => /\ VisitFine(handler[h])
                  /\ \A i \in Ids : session[i].state = "live" <=> cached = i \/ Caching(handler[h], i)
  BY <1>1, OthersReady
<1>8. ~crossed => VisitFine(v)'
  BY <1>1, <1>3, <1>4, <1>7, StreamsAssumption DEF VisitFine
<1>9. ~Caching(v, NoSession) /\ \A i : ~Caching(v, i)
  BY <1>4 DEF Caching
<1>10. ~crossed => \A i \in Ids : session'[i].state = "live" <=> cached' = i
  BY <1>1, <1>3, <1>7, StreamsAssumption DEF Caching, VisitFine
<1> QED
  BY <1>1, <1>3, <1>4, <1>5, <1>6, <1>8, <1>9, <1>10, VisitMoves, StreamsAssumption
LEMMA get_countsKeeps ==
    ASSUME StreamsIInv, NEW h \in Handlers, get_counts(h)
    PROVE  StreamsIInv'
<1>1. handler[h] # Ready /\ handler[h] \in Visit /\ handler[h].pc = "count"
  BY VisitAt DEF get_counts
<1>2. PICK n \in Nat : n = Cardinality(present)
  BY FS_CardinalityType DEF StreamsIInv, StreamsShape
<1>3. PICK v : v = [handler[h] EXCEPT !.pc = "write", !.count = n]
  OBVIOUS
<1>4. UNCHANGED <<room, present, cached, session, crossed>>
  BY DEF get_counts, people
<1>5. handler' = [handler EXCEPT ![h] = v]
  BY <1>2, <1>3 DEF get_counts, StreamsIInv, StreamsShape
<1>6. v \in Visit /\ v.pc = "write" /\ v.id = handler[h].id /\ v.event = handler[h].event /\ v.count = n
  BY <1>1, <1>3 DEF Visit
<1>7. /\ cached' \in Ids \cup {NoSession}
      /\ session' \in [Ids -> [state : {"absent", "live", "ended"}, current : Nat, peak : Nat]]
  BY <1>4 DEF StreamsIInv, StreamsShape
<1>8. \A i : ~Caching(v, i) /\ ~Caching(handler[h], i)
  BY <1>1, <1>6 DEF Caching
<1>9. ~crossed => /\ VisitFine(handler[h]) /\ present \subseteq room
                  /\ \A i \in Ids : session[i].state = "live" <=> cached = i
  BY <1>1, <1>8, OthersReady
<1>0. n = 0 <=> present = {}
  BY <1>2, FS_EmptySet DEF StreamsIInv, StreamsShape
<1>10. ~crossed => VisitFine(v)'
  BY <1>0, <1>1, <1>4, <1>6, <1>9 DEF VisitFine
<1> QED
  BY <1>1, <1>4, <1>5, <1>6, <1>7, <1>8, <1>9, <1>10, VisitMoves, StreamsAssumption

(* What a handler knows when it writes the counts. *)
LEMMA WriteAt ==
    ASSUME StreamsIInv, NEW h \in Handlers, At(h, "write")
    PROVE  /\ handler[h] # Ready /\ handler[h].event \in {"join", "leave"} /\ handler[h].count \in Nat
           /\ ~crossed => /\ handler[h].id = cached /\ cached \in Ids
                          /\ handler[h].event = "join" \/ handler[h].count # 0 => room # {}
                          /\ handler[h].count = 0 => present = {}
                          /\ \A i \in Ids : session[i].state = "live" <=> cached = i
           /\ \A i : ~Caching(Ready, i)
           /\ VisitFine(Ready)'
<1>1. handler[h] # Ready /\ handler[h] \in Visit /\ handler[h].pc = "write"
  BY VisitAt
<1>2. \A i : ~Caching(handler[h], i)
  BY <1>1 DEF Caching
<1>3. handler[h].event \in {"join", "leave"} /\ handler[h].count \in Nat
  BY <1>1 DEF Visit
<1>4. ~crossed => /\ VisitFine(handler[h])
                  /\ \A i \in Ids : session[i].state = "live" <=> cached = i
  BY <1>1, <1>2, OthersReady
<1>6. cached # NoSession => cached \in Ids
  BY DEF StreamsIInv, StreamsShape
<1>7. ~crossed => /\ handler[h].id = cached /\ cached # NoSession
                  /\ handler[h].event = "join" \/ handler[h].count # 0 => room # {}
                  /\ handler[h].count = 0 => present = {}
  BY <1>1, <1>4 DEF VisitFine
<1>8. (\A i : ~Caching(Ready, i)) /\ VisitFine(Ready)'
  BY DEF Caching, VisitFine
<1> QED
  BY <1>1, <1>3, <1>4, <1>6, <1>7, <1>8

LEMMA update_stream_countsKeeps ==
    ASSUME StreamsIInv, NEW h \in Handlers, update_stream_counts(h)
    PROVE  StreamsIInv'
<1>1. /\ handler[h] # Ready /\ handler[h].event \in {"join", "leave"} /\ handler[h].count \in Nat
      /\ ~crossed => /\ handler[h].id = cached /\ cached \in Ids
                     /\ handler[h].event = "join" \/ handler[h].count # 0 => room # {}
                     /\ handler[h].count = 0 => present = {}
                     /\ \A i \in Ids : session[i].state = "live" <=> cached = i
      /\ \A i : ~Caching(Ready, i)
      /\ VisitFine(Ready)'
  BY WriteAt DEF update_stream_counts
<1>2. /\ handler' = [handler EXCEPT ![h] = Ready] /\ UNCHANGED <<room, present, cached, crossed>>
      /\ handler[h].event = "join" \/ handler[h].count > 0
  BY DEF update_stream_counts, people
<1>i. PICK i : i = handler[h].id
  OBVIOUS
<1>3. PICK n \in Nat : n = handler[h].count
  BY <1>1
<1>4. session' = [session EXCEPT ![i].current = n, ![i].peak = Higher(@, n)]
  BY <1>i, <1>3 DEF update_stream_counts
<1>5. /\ session' \in [Ids -> [state : {"absent", "live", "ended"}, current : Nat, peak : Nat]]
      /\ \A j \in Ids : session'[j].state = session[j].state
  BY <1>4 DEF Higher, StreamsIInv, StreamsShape
<1>6. handler[h].count > 0 => handler[h].count # 0
  BY <1>1, SMT
<1>7. ~crossed => room # {}
  BY <1>1, <1>2, <1>6
<1>8. cached' \in Ids \cup {NoSession}
  BY <1>2 DEF StreamsIInv, StreamsShape
<1>9. ~crossed => \A j \in Ids : session'[j].state = "live" <=> cached' = j \/ Caching(Ready, j)
  BY <1>1, <1>2, <1>5
<1>10. ~crossed => RestFine'
  BY <1>1, <1>2, <1>7, StreamsAssumption DEF RestFine
<1> QED
  BY <1>1, <1>2, <1>5, <1>8, <1>9, <1>10, VisitMoves

LEMMA end_stream_sessionKeeps ==
    ASSUME StreamsIInv, NEW h \in Handlers, end_stream_session(h)
    PROVE  StreamsIInv'
<1>1. /\ handler[h] # Ready /\ handler[h].event \in {"join", "leave"} /\ handler[h].count \in Nat
      /\ ~crossed => /\ handler[h].id = cached /\ cached \in Ids
                     /\ handler[h].event = "join" \/ handler[h].count # 0 => room # {}
                     /\ handler[h].count = 0 => present = {}
                     /\ \A i \in Ids : session[i].state = "live" <=> cached = i
      /\ \A i : ~Caching(Ready, i)
      /\ VisitFine(Ready)'
  BY WriteAt DEF end_stream_session
<1>2. /\ handler' = [handler EXCEPT ![h] = Ready] /\ UNCHANGED <<room, present, crossed>>
      /\ handler[h].count = 0 /\ cached' = NoSession
  BY DEF end_stream_session, people
<1>3. PICK i : i = handler[h].id
  OBVIOUS
<1>4. session' = [session EXCEPT ![i].state = "ended", ![i].current = 0]
  BY <1>3 DEF end_stream_session
<1>5. /\ session' \in [Ids -> [state : {"absent", "live", "ended"}, current : Nat, peak : Nat]]
      /\ \A j \in Ids : session'[j].state = IF j = i THEN "ended" ELSE session[j].state
  BY <1>4 DEF StreamsIInv, StreamsShape
<1>6. "ended" # "live"
  OBVIOUS
<1>7. cached' \in Ids \cup {NoSession} /\ \A j \in Ids : cached' # j
  BY <1>2, StreamsAssumption
<1>8. ~crossed => \A j \in Ids : session'[j].state # "live"
  BY <1>1, <1>3, <1>5, <1>6
<1>9. ~crossed => RestFine'
  BY <1>1, <1>2 DEF RestFine
<1> QED
  BY <1>1, <1>2, <1>5, <1>7, <1>8, <1>9, VisitMoves

(* Taking somebody off the lists leaves all of it true. *)
LEMMA TakenOffKeeps ==
    ASSUME StreamsIInv, NEW x, TakenOff(x)
    PROVE  StreamsIInv'
<1>1. present' \subseteq present /\ UNCHANGED <<room, cached, session, handler, crossed>>
  BY DEF TakenOff
<1>2. IsFiniteSet(present')
  BY FS_RemoveElement DEF TakenOff, StreamsIInv, StreamsShape
<1>3. StreamsShape'
  BY <1>1, <1>2 DEF StreamsIInv, StreamsShape
<1>4. ASSUME ~crossed' PROVE StreamsFine'
  <2>1. StreamsFine
    BY <1>1, <1>4 DEF StreamsIInv
  <2>2. \A h \in Handlers : VisitFine(handler[h]) => VisitFine(handler[h])'
    BY <1>1 DEF VisitFine
  <2>3. (AtRest' => AtRest) /\ (RestFine => RestFine')
    BY <1>1 DEF AtRest, RestFine
  <2>4. present' \subseteq room' /\ \A h \in Handlers : VisitFine(handler[h])'
    BY <1>1, <2>1, <2>2 DEF StreamsFine
  <2>5. \A i \in Ids : session'[i].state = "live" <=>
           cached' = i \/ \E h \in Handlers : Caching(handler'[h], i)
    BY <1>1, <2>1 DEF StreamsFine
  <2>6. \A h, o \in Handlers : handler'[h] # Ready /\ handler'[o] # Ready => h = o
    BY <1>1, <2>1 DEF StreamsFine
  <2>7. AtRest' => RestFine'
    BY <2>1, <2>3 DEF StreamsFine
  <2> QED
    BY <2>4, <2>5, <2>6, <2>7 DEF StreamsFine
<1> QED
  BY <1>3, <1>4 DEF StreamsIInv

(* A call that fails, and an expired cache, are what the history records. *)
LEMMA CallFailsKeeps ==
    ASSUME StreamsIInv, NEW h \in Handlers, CallFails(h)
    PROVE  StreamsIInv'
<1>1. crossed' = TRUE /\ UNCHANGED <<room, present, cached>>
  BY DEF CallFails, Undisturbed, people
<1>2. handler[h] # Ready => handler[h] \in Visit
  BY DEF StreamsIInv, StreamsShape
<1>3. \A i \in Ids : [session[i] EXCEPT !.state = "live"] \in
                       [state : {"absent", "live", "ended"}, current : Nat, peak : Nat]
  BY DEF StreamsIInv, StreamsShape
<1>4. CASE handler' = [handler EXCEPT ![h] = Ready] /\ UNCHANGED session
  BY <1>1, <1>4 DEF StreamsIInv, StreamsShape
<1>5. CASE /\ At(h, "lookup")
           /\ \E i \in Ids : /\ session' = [session EXCEPT ![i].state = "live"]
                             /\ handler' = [handler EXCEPT ![h].pc = "cache", ![h].id = i]
  <2>1. PICK i \in Ids : /\ session' = [session EXCEPT ![i].state = "live"]
                        /\ handler' = [handler EXCEPT ![h].pc = "cache", ![h].id = i]
    BY <1>5
  <2>2. session' \in [Ids -> [state : {"absent", "live", "ended"}, current : Nat, peak : Nat]]
    BY <2>1 DEF StreamsIInv, StreamsShape
  <2>3. handler' \in [Handlers -> {Ready} \cup Visit]
    BY <1>2, <1>5, <2>1 DEF StreamsIInv, StreamsShape, At, Visit
  <2> QED
    BY <1>1, <2>2, <2>3 DEF StreamsIInv, StreamsShape
<1>6. CASE /\ At(h, "cache") /\ UNCHANGED session
           /\ handler' = [handler EXCEPT ![h].pc = "count"]
  <2>1. handler' \in [Handlers -> {Ready} \cup Visit]
    BY <1>2, <1>6 DEF StreamsIInv, StreamsShape, At, Visit
  <2> QED
    BY <1>1, <1>6, <2>1 DEF StreamsIInv, StreamsShape
<1>7. CASE /\ At(h, "count") /\ UNCHANGED session
           /\ \E n \in 0..Cardinality(present) :
                handler' = [handler EXCEPT ![h].pc = "write", ![h].count = n]
  <2>1. PICK n \in 0..Cardinality(present) :
            handler' = [handler EXCEPT ![h].pc = "write", ![h].count = n]
    BY <1>7
  <2>2. n \in Nat
    BY SMT, <2>1, FS_CardinalityType DEF StreamsIInv, StreamsShape
  <2>3. handler' \in [Handlers -> {Ready} \cup Visit]
    BY <1>2, <1>7, <2>1, <2>2 DEF StreamsIInv, StreamsShape, At, Visit
  <2> QED
    BY <1>1, <1>7, <2>3 DEF StreamsIInv, StreamsShape
<1>8. CASE /\ handler' = [handler EXCEPT ![h] = Ready]
           /\ session' = [session EXCEPT ![handler[h].id].state = "ended", ![handler[h].id].current = 0]
  <2>1. PICK i : i = handler[h].id
    OBVIOUS
  <2>2. session' = [session EXCEPT ![i].state = "ended", ![i].current = 0]
    BY <1>8, <2>1
  <2>3. session' \in [Ids -> [state : {"absent", "live", "ended"}, current : Nat, peak : Nat]]
    BY <2>2 DEF StreamsIInv, StreamsShape
  <2> QED
    BY <1>1, <1>8, <2>3 DEF StreamsIInv, StreamsShape
<1> QED
  BY <1>4, <1>5, <1>6, <1>7, <1>8 DEF CallFails

LEMMA StreamsQuiet ==
    ASSUME StreamsIInv, (\E x \in People : WebhookFails(x)) \/ cache_expires \/ UNCHANGED svars
    PROVE  StreamsIInv'
<1>1. CASE cache_expires
  <2>1. StreamsShape' /\ crossed'
    BY <1>1 DEF cache_expires, Undisturbed, people, StreamsIInv, StreamsShape
  <2> QED
    BY <2>1 DEF StreamsIInv
<1>2. ASSUME NEW x \in People, WebhookFails(x) PROVE StreamsIInv'
  <2>1. present' \in {present, present \cup {x}, present \ {x}} /\ crossed' = TRUE
        /\ UNCHANGED <<cached, session, handler>>
    BY <1>2 DEF WebhookFails, Undisturbed
  <2>2. IsFiniteSet(present)
    BY DEF StreamsIInv, StreamsShape
  <2>3. IsFiniteSet(present \cup {x}) /\ IsFiniteSet(present \ {x})
    BY <2>2, FS_AddElement, FS_RemoveElement
  <2>4. IsFiniteSet(present')
    BY <2>1, <2>2, <2>3
  <2> QED
    BY <2>1, <2>4 DEF StreamsIInv, StreamsShape
<1>3. CASE UNCHANGED svars
  BY ZenonT(60), <1>3
     DEF svars, people, StreamsIInv, StreamsShape, StreamsFine, VisitFine, Caching, AtRest, RestFine
<1> QED
  BY <1>1, <1>2, <1>3

LEMMA StreamsInitOK ==
    ASSUME StreamsInit
    PROVE  StreamsIInv
<1>1. \A h \in Handlers : handler[h] = Ready
  BY DEF StreamsInit
<1>2. StreamsShape
  BY FS_EmptySet DEF StreamsInit, StreamsShape, Absent
<1>3. \A i \in Ids : session[i].state # "live" /\ cached # i
  BY StreamsAssumption DEF StreamsInit, Absent
<1>4. StreamsFine
  BY <1>1, <1>3 DEF StreamsFine, VisitFine, Caching, AtRest, RestFine, StreamsInit
<1> QED
  BY <1>2, <1>4 DEF StreamsIInv

(* A stream is reported live in the cached session and no other, in one    *)
(* while Redis lists anybody and in none once the room is empty: of any    *)
(* audience, with any number of handlers and sessions and whoever is taken *)
(* off the lists, as long as no two webhooks have overlapped, no call of   *)
(* them has failed and the cached id has not expired.                      *)
THEOREM StreamAlwaysLive == StreamsSpec => []StreamIsLive
<1>1. StreamsInit => StreamsIInv
  BY StreamsInitOK
<1>2. StreamsIInv /\ [StreamsNext]_svars => StreamsIInv'
  BY ComesOrGoes, get_cached_session_idKeeps, create_stream_sessionKeeps, cache_session_idKeeps,
     get_countsKeeps, update_stream_countsKeeps, end_stream_sessionKeeps, CallFailsKeeps,
     TakenOffKeeps, StreamsQuiet
     DEF StreamsNext
<1>3. StreamsIInv => StreamIsLive
  <2>1. ASSUME StreamsIInv, AtRest, ~crossed
        PROVE  RestFine /\ \A i \in Ids : session[i].state = "live" <=> cached = i
    BY <2>1 DEF StreamsIInv, StreamsFine, AtRest, Caching
  <2> QED
    BY <2>1 DEF StreamIsLive, RestFine
<1> QED
  BY <1>1, <1>2, <1>3, PTL DEF StreamsSpec

-----------------------------------------------------------------------------
(***************************************************************************)
(* Calls.  An admission that is outstanding is firm when nothing more is   *)
(* asked before the user is put into the call (a token, a webhook, a       *)
(* request about to create the voice state, a forced join that has left the *)
(* old call) and soft while a forced join has the old call still to leave. *)
(* A user whose admissions never overlapped has one of them at a time; a   *)
(* firm one is for the call they are in, a soft one may be for another.    *)
(***************************************************************************)
Job ==
    [pc : {"create", "delete", "finish"}, kind : Kinds, user : Callers,
     channel : Channels, rest : SUBSET Channels, to : Channels, viewer : BOOLEAN]

FirmJob(v, u, c) ==
    /\ v # Idle /\ v.user = u /\ v.to = c
    /\ v.pc = "create" \/ (v.kind = "force" /\ v.pc # "delete")

SoftJob(v, u, c) == v # Idle /\ v.user = u /\ v.to = c /\ v.kind = "force" /\ v.pc = "delete"

JobFine(v) ==
    v # Idle => /\ v.pc = "create" => v.kind = "join" /\ v.to = v.channel
                /\ v.kind = "force" => /\ v.pc \in {"delete", "finish"}
                                       /\ v.user \notin overlap => v.rest = {}

Held(u, c) == <<u, c>> \in tokens \/ Hook("participant_joined", u, c) \in hooks
Firm(u, c) == Held(u, c) \/ \E r \in Requests : FirmJob(req[r], u, c)
Admitting(u, c) == Firm(u, c) \/ \E r \in Requests : SoftJob(req[r], u, c)

CallsShape ==
    /\ vc \in [Callers -> SUBSET Channels]
    /\ req \in [Requests -> {Idle} \cup Job]
    /\ tokens \subseteq Callers \X Channels /\ hooks \subseteq Events

CallerFine(u) ==
    /\ \A c, d \in vc[u] : c = d
    /\ \A c, d \in Channels : Admitting(u, c) /\ Admitting(u, d) => c = d
    /\ \A c \in Channels, d \in vc[u] : Firm(u, c) => c = d
    /\ \A r \in Requests, c \in Channels, d \in vc[u] :
          SoftJob(req[r], u, c) => c = d \/ req[r].channel = d

CallsIInv ==
    /\ CallsShape
    /\ \A r \in Requests : JobFine(req[r])
    /\ \A u \in Callers \ overlap : CallerFine(u)

(* A caller who leaves calls and gets no admission. *)
LEMMA CallerQuiet ==
    ASSUME NEW u \in Callers, CallerFine(u), vc'[u] \subseteq vc[u],
           \A c \in Channels : Firm(u, c)' => Firm(u, c),
           \A r \in Requests, c \in Channels : SoftJob(req'[r], u, c) =>
               SoftJob(req[r], u, c) /\ req'[r].channel = req[r].channel
    PROVE  CallerFine(u)'
<1>1. \A c \in Channels : Admitting(u, c)' => Admitting(u, c)
  BY DEF Admitting
<1>2. \A c, d \in Channels : Admitting(u, c)' /\ Admitting(u, d)' => c = d
  BY <1>1 DEF CallerFine
<1>3. \A c \in Channels, d \in vc'[u] : Firm(u, c)' => c = d
  BY DEF CallerFine
<1>4. \A r \in Requests, c \in Channels, d \in vc'[u] :
          SoftJob(req'[r], u, c) => c = d \/ req'[r].channel = d
  BY DEF CallerFine
<1> QED
  BY <1>2, <1>3, <1>4 DEF CallerFine

(* Steps of the tokens, webhooks and calls alone. *)
LEMMA CallsQuiet ==
    ASSUME CallsIInv, CallsShape', req' = req, overlap' = overlap,
           \A u \in Callers : vc'[u] \subseteq vc[u],
           \A u \in Callers, c \in Channels : Held(u, c)' => Held(u, c)
    PROVE  CallsIInv'
<1>1. ASSUME NEW u \in Callers \ overlap PROVE CallerFine(u)'
  <2>1. CallerFine(u) /\ vc'[u] \subseteq vc[u]
    BY DEF CallsIInv
  <2>2. \A c \in Channels : Firm(u, c)' => Firm(u, c)
    BY DEF Firm
  <2> QED
    BY <2>1, <2>2, CallerQuiet
<1>2. \A r \in Requests : JobFine(req[r])'
  BY DEF CallsIInv, JobFine
<1> QED
  BY <1>1, <1>2 DEF CallsIInv

(* A request goes on to v: nothing changes for callers that are admitted   *)
(* nowhere new; what is left to show is what holds of the others.          *)
LEMMA JobStep ==
    ASSUME CallsIInv, NEW r \in Requests, NEW v \in {Idle} \cup Job, req' = [req EXCEPT ![r] = v],
           JobFine(v)', overlap \subseteq overlap',
           vc' \in [Callers -> SUBSET Channels], tokens' \subseteq Callers \X Channels, hooks' \subseteq Events,
           NEW X \in SUBSET Callers, \A u \in X \ overlap' : CallerFine(u)',
           \A u \in Callers \ X : vc'[u] \subseteq vc[u],
           \A u \in Callers \ X : \A c \in Channels : Held(u, c)' => Held(u, c),
           \A u \in Callers \ X : \A c \in Channels : FirmJob(v, u, c) => Firm(u, c),
           \A u \in Callers \ X : \A c \in Channels : SoftJob(v, u, c) =>
               SoftJob(req[r], u, c) /\ v.channel = req[r].channel
    PROVE  CallsIInv'
<1>1. /\ req' \in [Requests -> {Idle} \cup Job] /\ req'[r] = v
      /\ \A s \in Requests \ {r} : req'[s] = req[s]
  BY DEF CallsIInv, CallsShape
<1>2. CallsShape'
  BY <1>1 DEF CallsShape
<1>3. \A s \in Requests : JobFine(req[s])'
  BY <1>1 DEF CallsIInv, JobFine
<1>4. ASSUME NEW u \in Callers \ X, u \notin overlap' PROVE CallerFine(u)'
  <2>1. CallerFine(u) /\ vc'[u] \subseteq vc[u]
    BY <1>4 DEF CallsIInv
  <2>2. \A c \in Channels : Firm(u, c)' => Firm(u, c)
    BY <1>1 DEF Firm
  <2>3. \A s \in Requests, c \in Channels : SoftJob(req'[s], u, c) =>
            SoftJob(req[s], u, c) /\ req'[s].channel = req[s].channel
    BY <1>1
  <2> QED
    BY <2>1, <2>2, <2>3, CallerQuiet
<1> QED
  BY <1>2, <1>3, <1>4 DEF CallsIInv

LEMMA JobMoves ==
    ASSUME CallsIInv, NEW r \in Requests, NEW v \in {Idle} \cup Job, req' = [req EXCEPT ![r] = v],
           JobFine(v)', overlap \subseteq overlap',
           vc' \in [Callers -> SUBSET Channels], tokens' \subseteq Callers \X Channels, hooks' \subseteq Events,
           \A u \in Callers : vc'[u] \subseteq vc[u],
           \A u \in Callers, c \in Channels : Held(u, c)' => Held(u, c),
           \A u \in Callers, c \in Channels : FirmJob(v, u, c) => Firm(u, c),
           \A u \in Callers, c \in Channels : SoftJob(v, u, c) =>
               SoftJob(req[r], u, c) /\ v.channel = req[r].channel
    PROVE  CallsIInv'
<1>1. PICK X \in SUBSET Callers : X = {}
  OBVIOUS
<1>2. \A u \in X \ overlap' : CallerFine(u)'
  BY <1>1
<1> QED
  BY <1>2, JobStep

LEMMA JobAdmits ==
    ASSUME CallsIInv, NEW r \in Requests, NEW v \in {Idle} \cup Job, req' = [req EXCEPT ![r] = v],
           JobFine(v)', overlap \subseteq overlap',
           vc' \in [Callers -> SUBSET Channels], tokens' \subseteq Callers \X Channels, hooks' \subseteq Events,
           NEW x \in Callers, x \notin overlap' => CallerFine(x)',
           \A u \in Callers \ {x} : vc'[u] \subseteq vc[u],
           \A u \in Callers \ {x} : \A c \in Channels : Held(u, c)' => Held(u, c),
           \A u \in Callers \ {x} : \A c \in Channels : ~FirmJob(v, u, c) /\ ~SoftJob(v, u, c)
    PROVE  CallsIInv'
<1>1. PICK X \in SUBSET Callers : X = {x}
  OBVIOUS
<1>2. \A u \in X \ overlap' : CallerFine(u)'
  BY <1>1
<1> QED
  BY <1>1, <1>2, JobStep

(* Whoever is admitted and not noted had no other admission outstanding.   *)
LEMMA Admitted ==
    ASSUME CallsShape, NEW u \in Callers, NEW c \in Channels, Admit(u, c)
    PROVE  /\ overlap \subseteq overlap'
           /\ \A w \in Callers \ {u} : w \in overlap' => w \in overlap
           /\ u \notin overlap' => \A d \in Channels : Admitting(u, d) => d = c
<1>1. overlap \subseteq overlap' /\ \A w \in Callers \ {u} : w \in overlap' => w \in overlap
  BY DEF Admit
<1>2. ASSUME u \notin overlap', NEW d \in Channels, Admitting(u, d) PROVE d \in Outstanding(u)
  <2>1. CASE <<u, d>> \in tokens
    BY <2>1 DEF Outstanding
  <2>2. CASE Hook("participant_joined", u, d) \in hooks
    <3> DEFINE h == Hook("participant_joined", u, d)
    <3>1. h.user = u /\ h.event = "participant_joined" /\ h.channel = d /\ h \in hooks
      BY <2>2 DEF Hook
    <3> HIDE DEF h
    <3> QED
      BY <3>1 DEF Outstanding
  <2>3. CASE \E r \in Requests : FirmJob(req[r], u, d) \/ SoftJob(req[r], u, d)
    BY <2>3 DEF Outstanding, FirmJob, SoftJob
  <2> QED
    BY <1>2, <2>1, <2>2, <2>3 DEF Admitting, Firm, Held
<1>3. ASSUME u \notin overlap' PROVE Outstanding(u) \ {c} = {}
  BY <1>3 DEF Admit
<1> QED
  BY <1>1, <1>2, <1>3
(* Pieces of a step: a request that is not idle is a job. *)
LEMMA JobAt ==
    ASSUME CallsIInv, NEW r \in Requests, NEW at, Busy(r, at)
    PROVE  req[r] \in Job /\ req[r] # Idle /\ req[r].pc = at /\ JobFine(req[r])
  BY DEF CallsIInv, CallsShape, Busy

LEMMA create_voice_stateKeeps ==
    ASSUME CallsIInv, NEW r \in Requests, create_voice_state(r)
    PROVE  CallsIInv'
<1>1. req[r] \in Job /\ req[r] # Idle /\ req[r].pc = "create" /\ JobFine(req[r])
  BY JobAt DEF create_voice_state
<1>2. PICK u \in Callers, c \in Channels : u = req[r].user /\ c = req[r].channel /\ c = req[r].to
  BY <1>1 DEF Job, JobFine
<1>v. PICK v : v = Idle
  OBVIOUS
<1>3. /\ req' = [req EXCEPT ![r] = v] /\ vc' = [vc EXCEPT ![u] = vc[u] \cup {c}]
      /\ UNCHANGED <<tokens, hooks, overlap>>
  BY <1>v, <1>2 DEF create_voice_state, livekit
<1>4. v \in {Idle} \cup Job
  BY <1>v
<1>5. JobFine(v)' /\ \A w, d : ~FirmJob(v, w, d) /\ ~SoftJob(v, w, d)
  BY <1>v DEF JobFine, FirmJob, SoftJob
<1>6. /\ vc' \in [Callers -> SUBSET Channels] /\ vc'[u] = vc[u] \cup {c}
      /\ \A w \in Callers \ {u} : vc'[w] = vc[w]
      /\ tokens' \subseteq Callers \X Channels /\ hooks' \subseteq Events
  BY <1>3 DEF CallsIInv, CallsShape
<1>7. Firm(u, c)
  BY <1>1, <1>2 DEF Firm, FirmJob
<1>8. req'[r] = v /\ \A s \in Requests \ {r} : req'[s] = req[s]
  BY <1>3 DEF CallsIInv, CallsShape
<1>9. \A w, d : Held(w, d)' <=> Held(w, d)
  BY <1>3 DEF Held
<1>10. /\ \A d \in Channels : Firm(u, d)' => Firm(u, d)
       /\ \A s \in Requests, d \in Channels : SoftJob(req'[s], u, d) =>
              SoftJob(req[s], u, d) /\ req'[s].channel = req[s].channel
  BY <1>5, <1>8, <1>9 DEF Firm
<1>11. ASSUME u \notin overlap PROVE CallerFine(u)'
  <2>1. CallerFine(u) /\ \A d \in vc[u] : d = c
    BY <1>7, <1>11 DEF CallsIInv, CallerFine
  <2>2. \A d \in vc'[u] : d = c
    BY <1>6, <2>1
  <2>3. \A d \in Channels : Admitting(u, d)' => d = c
    BY <1>7, <1>10, <2>1 DEF CallerFine, Admitting
  <2>4. \A s \in Requests, d \in Channels : SoftJob(req'[s], u, d) => d = c
    BY <2>3 DEF Admitting
  <2>5. \A d \in Channels : Firm(u, d)' => d = c
    BY <2>3 DEF Admitting
  <2> QED
    BY <2>2, <2>3, <2>4, <2>5 DEF CallerFine
<1>12. \A w \in Callers \ {u} : vc'[w] \subseteq vc[w]
  BY <1>6
<1> QED
  BY <1>3, <1>4, <1>5, <1>6, <1>9, <1>11, <1>12, JobAdmits

(* A request that goes on, or starts, without admitting anybody. *)
LEMMA JobEnds ==
    ASSUME CallsIInv, NEW r \in Requests, NEW v \in {Idle} \cup Job, req' = [req EXCEPT ![r] = v],
           v # Idle => v.kind # "force" /\ v.pc # "create", overlap' = overlap,
           vc' = vc, tokens' \subseteq tokens, hooks' \subseteq Events,
           \A u \in Callers, c \in Channels : Held(u, c)' => Held(u, c)
    PROVE  CallsIInv'
<1>1. JobFine(v)' /\ \A w, d : ~FirmJob(v, w, d) /\ ~SoftJob(v, w, d)
  BY DEF JobFine, FirmJob, SoftJob
<1>2. vc' \in [Callers -> SUBSET Channels] /\ tokens' \subseteq Callers \X Channels
  BY DEF CallsIInv, CallsShape
<1> QED
  BY <1>1, <1>2, JobMoves

(* The next of the channels that a cleanup or a forced join has listed. *)
LEMMA NextJob ==
    ASSUME CallsIInv, NEW r \in Requests, req[r] # Idle, NextChannel(r)
    PROVE  \E v \in Job : /\ req' = [req EXCEPT ![r] = v] /\ req[r].rest # {}
                          /\ v.pc = "delete" /\ v.kind = req[r].kind /\ v.user = req[r].user
<1>1. req[r] \in Job
  BY DEF CallsIInv, CallsShape
<1>2. PICK next \in req[r].rest :
          req' = [req EXCEPT ![r] = [req[r] EXCEPT !.pc = "delete", !.channel = next,
                                                   !.rest = req[r].rest \ {next}]]
  BY DEF NextChannel
<1>3. PICK left \in SUBSET Channels : left = req[r].rest \ {next} /\ next \in Channels
  BY <1>1 DEF Job
<1>4. PICK v : v = [req[r] EXCEPT !.pc = "delete", !.channel = next, !.rest = left]
  OBVIOUS
<1>5. req' = [req EXCEPT ![r] = v] /\ req[r].rest # {}
  BY <1>2, <1>3, <1>4
<1>6. v \in Job /\ v.pc = "delete" /\ v.kind = req[r].kind /\ v.user = req[r].user
  BY <1>1, <1>3, <1>4 DEF Job
<1> QED
  BY <1>5, <1>6

(* What fails admits nobody. *)
LEMMA request_failsKeeps ==
    ASSUME CallsIInv, NEW r \in Requests, request_fails(r) \/ force_fails(r)
    PROVE  CallsIInv'
<1>1. UNCHANGED <<vc, tokens, hooks, overlap>>
  BY DEF request_fails, force_fails, voiceKeys, livekit
<1>2. hooks' \subseteq Events /\ \A u, c : Held(u, c)' <=> Held(u, c)
  BY <1>1 DEF CallsIInv, CallsShape, Held
<1>3. CASE req' = [req EXCEPT ![r] = Idle]
  BY <1>1, <1>2, <1>3, JobEnds
<1>4. CASE req[r] # Idle /\ req[r].kind = "cleanup" /\ NextChannel(r)
  <2>1. PICK v \in Job : req' = [req EXCEPT ![r] = v] /\ v.pc = "delete" /\ v.kind = "cleanup"
    BY <1>4, NextJob
  <2>2. "delete" # "create" /\ "cleanup" # "force"
    OBVIOUS
  <2> QED
    BY <1>1, <1>2, <2>1, <2>2, JobEnds
<1> QED
  BY <1>3, <1>4 DEF request_fails, force_fails

(* The old call is left: a forced join is firm from here. *)
LEMMA delete_voice_stateKeeps ==
    ASSUME CallsIInv, NEW r \in Requests, delete_voice_state(r)
    PROVE  CallsIInv'
<1>1. req[r] \in Job /\ req[r] # Idle /\ req[r].pc = "delete" /\ JobFine(req[r])
  BY JobAt DEF delete_voice_state
<1>2. PICK u \in Callers, c \in Channels, to \in Channels :
          u = req[r].user /\ c = req[r].channel /\ to = req[r].to
  BY <1>1 DEF Job
<1>v. PICK v : v = IF req[r].kind = "quiet" THEN Idle ELSE [req[r] EXCEPT !.pc = "finish"]
  OBVIOUS
<1>3. /\ req' = [req EXCEPT ![r] = v] /\ vc' = [vc EXCEPT ![u] = vc[u] \ {c}]
      /\ UNCHANGED <<tokens, hooks, overlap>>
  BY <1>v, <1>2 DEF delete_voice_state, livekit
<1>4. /\ v \in {Idle} \cup Job
      /\ v # Idle => /\ v.pc = "finish" /\ v.kind = req[r].kind /\ v.user = u /\ v.to = to
                     /\ v.rest = req[r].rest
  BY <1>v, <1>1, <1>2 DEF Job
<1>5. JobFine(v)' /\ \A w, d : ~SoftJob(v, w, d) /\ (w # u => ~FirmJob(v, w, d))
  BY <1>1, <1>2, <1>3, <1>4 DEF JobFine, FirmJob, SoftJob
<1>6. /\ vc' \in [Callers -> SUBSET Channels] /\ vc'[u] = vc[u] \ {c}
      /\ \A w \in Callers \ {u} : vc'[w] = vc[w]
      /\ tokens' \subseteq Callers \X Channels /\ hooks' \subseteq Events
  BY <1>3 DEF CallsIInv, CallsShape
<1>7. req'[r] = v /\ \A s \in Requests \ {r} : req'[s] = req[s]
  BY <1>3 DEF CallsIInv, CallsShape
<1>8. \A w, d : Held(w, d)' <=> Held(w, d)
  BY <1>3 DEF Held
<1>9. \A d \in Channels : FirmJob(v, u, d) => d = to /\ SoftJob(req[r], u, to)
  BY <1>1, <1>2, <1>4 DEF FirmJob, SoftJob
<1>10. /\ \A d \in Channels : Firm(u, d)' => Firm(u, d) \/ (d = to /\ SoftJob(req[r], u, to))
       /\ \A s \in Requests, d \in Channels : SoftJob(req'[s], u, d) =>
              SoftJob(req[s], u, d) /\ req'[s].channel = req[s].channel
  BY <1>5, <1>7, <1>8, <1>9 DEF Firm
<1>11. ASSUME u \notin overlap PROVE CallerFine(u)'
  <2>1. CallerFine(u) /\ vc'[u] \subseteq vc[u]
    BY <1>6, <1>11 DEF CallsIInv
  <2>2. \A d \in Channels : Admitting(u, d)' => Admitting(u, d)
    BY <1>10 DEF Admitting
  <2>3. \A d \in Channels, e \in vc'[u] : Firm(u, d)' => d = e
    <3> SUFFICES ASSUME NEW d \in Channels, NEW e \in vc'[u], Firm(u, d)' PROVE d = e
      OBVIOUS
    <3>1. e \in vc[u] /\ e # c
      BY <1>6
    <3>2. CASE Firm(u, d)
      BY <2>1, <3>1, <3>2 DEF CallerFine
    <3>3. CASE d = to /\ SoftJob(req[r], u, to)
      BY <1>2, <2>1, <3>1, <3>3 DEF CallerFine
    <3> QED
      BY <1>10, <3>2, <3>3
  <2> QED
    BY <1>10, <2>1, <2>2, <2>3 DEF CallerFine
<1>12. \A w \in Callers \ {u} : vc'[w] \subseteq vc[w]
  BY <1>6
<1> QED
  BY <1>3, <1>4, <1>5, <1>6, <1>8, <1>11, <1>12, JobAdmits

(* One call, and no admission to another. *)
LEMMA OnlyCall ==
    ASSUME NEW u, NEW c, \A d \in vc'[u] : d = c, \A d \in Channels : Admitting(u, d)' => d = c
    PROVE  CallerFine(u)'
<1>1. \A d \in Channels : Firm(u, d)' => d = c
  BY DEF Admitting
<1>2. \A s \in Requests, d \in Channels : SoftJob(req'[s], u, d) => d = c
  BY DEF Admitting
<1> QED
  BY <1>1, <1>2 DEF CallerFine

(* A token or a webhook for the caller x. *)
LEMMA HeldBy ==
    ASSUME CallsIInv, req' = req, vc' = vc, overlap \subseteq overlap',
           tokens' \subseteq Callers \X Channels, hooks' \subseteq Events,
           NEW x \in Callers, x \notin overlap' => CallerFine(x)',
           \A u \in Callers \ {x} : \A c \in Channels : Held(u, c)' => Held(u, c)
    PROVE  CallsIInv'
<1>1. CallsShape' /\ \A s \in Requests : JobFine(req[s])'
  BY DEF CallsIInv, CallsShape, JobFine
<1>2. ASSUME NEW u \in Callers \ {x}, u \notin overlap' PROVE CallerFine(u)'
  <2>1. CallerFine(u) /\ vc'[u] \subseteq vc[u]
    BY <1>2 DEF CallsIInv
  <2>2. \A c \in Channels : Firm(u, c)' => Firm(u, c)
    BY DEF Firm
  <2> QED
    BY <2>1, <2>2, CallerQuiet
<1> QED
  BY <1>1, <1>2 DEF CallsIInv

(* What issue_token changes of what is held. *)
LEMMA TokenHeld ==
    ASSUME CallsIInv, NEW u \in Callers, NEW c \in Channels, NEW viewer, issue_token(u, c, viewer)
    PROVE  /\ tokens' \subseteq Callers \X Channels /\ hooks' \subseteq Events
           /\ \A w \in Callers, d \in Channels : Held(w, d)' => Held(w, d) \/ (w = u /\ d = c)
<1>1. tokens' \in {tokens, tokens \cup {<<u, c>>}} /\ hooks' = hooks
  BY DEF issue_token
<1> QED
  BY <1>1, SMT DEF CallsIInv, CallsShape, Held

LEMMA finish_removalKeeps ==
    ASSUME CallsIInv, NEW r \in Requests, finish_removal(r)
    PROVE  CallsIInv'
<1>1. req[r] \in Job /\ req[r] # Idle /\ req[r].pc = "finish" /\ JobFine(req[r])
  BY JobAt DEF finish_removal
<1>2. PICK u \in Callers, c \in Channels : u = req[r].user /\ c = req[r].to
  BY <1>1 DEF Job
<1>3. /\ UNCHANGED vc
      /\ vc' \in [Callers -> SUBSET Channels]
  BY DEF finish_removal, CallsIInv, CallsShape
<1>4. CASE req[r].kind = "force" /\ req[r].rest = {}
  <2>1. issue_token(u, c, req[r].viewer) /\ Admit(u, c) /\ req' = [req EXCEPT ![r] = Idle]
    BY <1>2, <1>4 DEF finish_removal, NextChannel
  <2>2. /\ tokens' \subseteq Callers \X Channels /\ hooks' \subseteq Events
        /\ \A w \in Callers, d \in Channels : Held(w, d)' => Held(w, d) \/ (w = u /\ d = c)
    BY <2>1, TokenHeld
  <2>3. /\ overlap \subseteq overlap'
        /\ u \notin overlap' => \A d \in Channels : Admitting(u, d) => d = c
    BY <2>1, Admitted DEF CallsIInv
  <2>4. req'[r] = Idle /\ \A s \in Requests \ {r} : req'[s] = req[s]
    BY <2>1 DEF CallsIInv, CallsShape
  <2>5. JobFine(Idle)' /\ \A w, d : ~FirmJob(Idle, w, d) /\ ~SoftJob(Idle, w, d)
    BY DEF JobFine, FirmJob, SoftJob
  <2>6. Firm(u, c)
    BY <1>1, <1>2, <1>4 DEF Firm, FirmJob
  <2>7. ASSUME u \notin overlap' PROVE CallerFine(u)'
    <3>1. \A d \in vc'[u] : d = c
      BY <1>3, <2>3, <2>6, <2>7 DEF CallsIInv, CallerFine
    <3>2. \A d \in Channels : Admitting(u, d)' => Admitting(u, d) \/ d = c
      BY <2>2, <2>4, <2>5 DEF Admitting, Firm
    <3> QED
      BY <2>3, <2>7, <3>1, <3>2, OnlyCall
  <2> QED
    BY <1>3, <2>1, <2>2, <2>3, <2>5, <2>7, JobAdmits
<1>5. CASE ~(req[r].kind = "force" /\ req[r].rest = {})
  <2>1. UNCHANGED <<tokens, hooks, overlap>>
    BY <1>5 DEF finish_removal, livekit
  <2>2. /\ tokens' \subseteq Callers \X Channels /\ hooks' \subseteq Events
        /\ \A w, d : Held(w, d)' <=> Held(w, d)
    BY <2>1 DEF CallsIInv, CallsShape, Held
  <2>3. CASE req[r].rest = {}
    <3>1. req' = [req EXCEPT ![r] = Idle]
      BY <2>3 DEF finish_removal, NextChannel
    <3> QED
      BY <1>3, <2>1, <2>2, <3>1, JobEnds
  <2>4. CASE req[r].rest # {}
    <3>1. NextChannel(r)
      BY <2>4 DEF finish_removal
    <3>2. PICK v \in Job : /\ req' = [req EXCEPT ![r] = v]
                          /\ v.pc = "delete" /\ v.kind = req[r].kind /\ v.user = req[r].user
      BY <1>1, <3>1, NextJob
    <3>3. "delete" # "create"
      OBVIOUS
    <3>6. CASE req[r].kind # "force"
      BY <1>3, <2>1, <2>2, <3>2, <3>3, <3>6, JobEnds
    <3>7. CASE req[r].kind = "force"
      <4>1. u \in overlap /\ u \in overlap'
        BY <1>1, <1>2, <2>1, <2>4, <3>7 DEF JobFine
      <4>2. JobFine(v)' /\ \A w \in Callers \ {u} : \A d \in Channels : ~FirmJob(v, w, d) /\ ~SoftJob(v, w, d)
        BY <1>2, <3>2, <3>3, <4>1 DEF JobFine, FirmJob, SoftJob
      <4> QED
        BY <1>3, <2>1, <2>2, <3>2, <4>1, <4>2, JobAdmits
    <3> QED
      BY <3>6, <3>7
  <2> QED
    BY <2>3, <2>4
<1> QED
  BY <1>4, <1>5
(* A token for a caller who is in no call. *)
LEMMA TokenKeeps ==
    ASSUME CallsIInv, NEW u \in Callers, NEW c \in Channels, NEW viewer, vc[u] = {},
           issue_token(u, c, viewer), Admit(u, c), UNCHANGED <<req, vc>>
    PROVE  CallsIInv'
<1>1. /\ tokens' \subseteq Callers \X Channels /\ hooks' \subseteq Events
      /\ \A w \in Callers, d \in Channels : Held(w, d)' => Held(w, d) \/ (w = u /\ d = c)
  BY TokenHeld
<1>2. /\ overlap \subseteq overlap'
      /\ u \notin overlap' => \A d \in Channels : Admitting(u, d) => d = c
  BY Admitted DEF CallsIInv
<1>3. \A d \in Channels : Admitting(u, d)' => Admitting(u, d) \/ d = c
  BY <1>1 DEF Admitting, Firm
<1>4. u \notin overlap' => CallerFine(u)'
  BY <1>2, <1>3, OnlyCall
<1> QED
  BY <1>1, <1>2, <1>4, HeldBy

LEMMA join_p2pKeeps ==
    ASSUME CallsIInv, NEW r \in Requests, NEW u \in Callers, NEW c \in Channels, NEW viewer,
           join_p2p(r, u, c, viewer), UNCHANGED vc
    PROVE  CallsIInv'
<1>1. tokens' = tokens /\ hooks' = hooks
  BY DEF join_p2p, livekit
<1>2. /\ vc' \in [Callers -> SUBSET Channels] /\ tokens' \subseteq Callers \X Channels /\ hooks' \subseteq Events
      /\ \A w, d : Held(w, d)' <=> Held(w, d)
  BY <1>1 DEF CallsIInv, CallsShape, Held
<1>3. CASE viewer \/ raise_if_in_voice(u, c)
  <2>1. UNCHANGED <<req, overlap>>
    BY <1>3 DEF join_p2p
  <2>2. CallsShape'
    BY <1>2, <2>1 DEF CallsIInv, CallsShape
  <2> QED
    BY <1>2, <2>1, <2>2, CallsQuiet
<1>4. CASE ~(viewer \/ raise_if_in_voice(u, c))
  <2>1. vc[u] = {} /\ Start(r, Work("create", "join", u, c)) /\ Admit(u, c)
    BY <1>4 DEF join_p2p, raise_if_in_voice
  <2>2. PICK v : v = Work("create", "join", u, c)
    OBVIOUS
  <2>3. "join" \in Kinds /\ "create" \in {"create", "delete"}
    BY DEF Kinds
  <2>4. v \in Job /\ v.pc = "create" /\ v.kind = "join" /\ v.user = u /\ v.to = c /\ v.channel = c
    BY <2>2, <2>3 DEF Work, Job
  <2>5. req' = [req EXCEPT ![r] = v] /\ req'[r] = v /\ \A s \in Requests \ {r} : req'[s] = req[s]
    BY <2>1, <2>2 DEF Start, CallsIInv, CallsShape
  <2>6. JobFine(v)' /\ \A w, d : ~SoftJob(v, w, d) /\ (FirmJob(v, w, d) => w = u /\ d = c)
    BY <2>4 DEF JobFine, FirmJob, SoftJob
  <2>7. /\ overlap \subseteq overlap'
        /\ u \notin overlap' => \A d \in Channels : Admitting(u, d) => d = c
    BY <2>1, Admitted DEF CallsIInv
  <2>8. \A d \in Channels : Admitting(u, d)' => Admitting(u, d) \/ d = c
    <3>1. \A d \in Channels : Firm(u, d)' => Firm(u, d) \/ d = c
      <4>1. ASSUME NEW d \in Channels, NEW s \in Requests, FirmJob(req'[s], u, d) PROVE Firm(u, d) \/ d = c
        BY <2>5, <2>6, <4>1 DEF Firm
      <4> QED
        BY <1>2, <4>1 DEF Firm
    <3> QED
      BY <2>5, <2>6, <3>1 DEF Admitting
  <2>9. u \notin overlap' => CallerFine(u)'
    BY <2>1, <2>7, <2>8, OnlyCall
  <2> QED
    BY <1>2, <2>4, <2>5, <2>6, <2>7, <2>9, JobAdmits
<1> QED
  BY <1>3, <1>4

(* A forced join that has a call to leave first. *)
LEMMA ForcedKeeps ==
    ASSUME CallsIInv, NEW r \in Requests, NEW u \in Callers, NEW c \in Channels, NEW viewer \in BOOLEAN,
           NEW first \in vc[u],
           Start(r, [Work("delete", "force", u, first) EXCEPT
                       !.rest = vc[u] \ {first}, !.to = c, !.viewer = viewer]),
           Admit(u, c), UNCHANGED <<vc, tokens, hooks>>
    PROVE  CallsIInv'
<1>1. /\ vc' \in [Callers -> SUBSET Channels] /\ tokens' \subseteq Callers \X Channels /\ hooks' \subseteq Events
      /\ \A w, d : Held(w, d)' <=> Held(w, d)
  BY DEF CallsIInv, CallsShape, Held
<1>2. PICK rest \in SUBSET Channels : rest = vc[u] \ {first} /\ first \in Channels
  BY DEF CallsIInv, CallsShape
<1>3. PICK v : v = [Work("delete", "force", u, first) EXCEPT !.rest = rest, !.to = c, !.viewer = viewer]
  OBVIOUS
<1>4. v \in Job /\ v.pc = "delete" /\ v.kind = "force" /\ v.user = u /\ v.to = c /\ v.channel = first
      /\ v.rest = rest
  BY <1>2, <1>3 DEF Work, Job, Kinds
<1>5. req' = [req EXCEPT ![r] = v]
  BY <1>2, <1>3 DEF Start
<1>6. req'[r] = v /\ \A s \in Requests \ {r} : req'[s] = req[s]
  BY <1>5 DEF CallsIInv, CallsShape
<1>7. /\ overlap \subseteq overlap'
      /\ u \notin overlap' => \A d \in Channels : Admitting(u, d) => d = c
  BY Admitted DEF CallsIInv
<1>8. u \notin overlap' => CallerFine(u)
  BY <1>7 DEF CallsIInv
<1>9. u \notin overlap' => \A d \in vc[u] : d = first
  BY <1>8 DEF CallerFine
<1>10. u \notin overlap' => rest = {}
  BY <1>2, <1>9
<1>11. JobFine(v)'
  BY <1>4, <1>10 DEF JobFine
<1>12. \A w, d : ~FirmJob(v, w, d) /\ (SoftJob(v, w, d) => w = u /\ d = c)
  BY <1>4 DEF FirmJob, SoftJob
<1>13. ASSUME u \notin overlap' PROVE CallerFine(u)'
  <2>1. \A d \in Channels : Firm(u, d)' => Firm(u, d)
    BY <1>1, <1>6, <1>12 DEF Firm
  <2>2. \A d \in Channels : Admitting(u, d)' => Admitting(u, d) \/ d = c
    BY <2>1, <1>6, <1>12 DEF Admitting
  <2>3. \A d, e \in Channels : Admitting(u, d)' /\ Admitting(u, e)' => d = e
    BY <1>7, <1>13, <2>2
  <2>4. \A d \in Channels, e \in vc'[u] : Firm(u, d)' => d = e
    BY <1>8, <1>13, <2>1 DEF CallerFine
  <2>5. \A d, e \in vc'[u] : d = e
    BY <1>9, <1>13
  <2>6. \A s \in Requests, d \in Channels, e \in vc'[u] :
            SoftJob(req'[s], u, d) => d = e \/ req'[s].channel = e
    BY <1>4, <1>6, <1>8, <1>9, <1>13 DEF CallerFine
  <2> QED
    BY <2>3, <2>4, <2>5, <2>6 DEF CallerFine
<1> QED
  BY <1>1, <1>4, <1>5, <1>7, <1>11, <1>12, <1>13, JobAdmits

LEMMA join_callKeeps ==
    ASSUME CallsIInv, NEW r \in Requests, NEW u \in Callers, NEW c \in Channels,
           NEW may \in BOOLEAN, NEW force \in BOOLEAN, join_call(r, u, c, may, force)
    PROVE  CallsIInv'
<1>1. UNCHANGED vc
  BY DEF join_call
<1>2. PICK viewer \in BOOLEAN : viewer = ~may
  OBVIOUS
<1>3. CASE c \notin UsesLiveKit
  BY <1>1, <1>3, join_p2pKeeps DEF join_call
<1>4. CASE c \in UsesLiveKit
  <2>1. join_livekit(r, u, c, viewer, force)
    BY <1>2, <1>4 DEF join_call
  <2>2. CASE vc[u] = {} /\ issue_token(u, c, viewer) /\ Admit(u, c) /\ UNCHANGED req
    BY <1>1, <2>2, TokenKeeps
  <2>3. CASE /\ \E first \in vc[u] :
                  Start(r, [Work("delete", "force", u, first) EXCEPT
                              !.rest = vc[u] \ {first}, !.to = c, !.viewer = viewer])
             /\ Admit(u, c) /\ UNCHANGED <<conn_type, livekit>>
    <3>1. UNCHANGED <<vc, tokens, hooks>>
      BY <1>1, <2>3 DEF livekit
    <3> QED
      BY <2>3, <3>1, ForcedKeeps
  <2> QED
    BY <2>1, <2>2, <2>3 DEF join_livekit, raise_if_in_voice
<1> QED
  BY <1>3, <1>4
(* A new request that only leaves a call, with no other admission. *)
LEMMA LeaveKeeps ==
    ASSUME CallsIInv, NEW r \in Requests, NEW why \in {"leave", "quiet"}, NEW u \in Callers, NEW c \in Channels,
           Start(r, Work("delete", why, u, c)), UNCHANGED <<vc, tokens, overlap>>, hooks' \subseteq Events,
           \A w \in Callers, d \in Channels : Held(w, d)' => Held(w, d)
    PROVE  CallsIInv'
<1>1. why \in Kinds /\ why # "force" /\ "delete" \in {"create", "delete"} /\ "delete" # "create"
  BY DEF Kinds
<1>2. PICK v : v = Work("delete", why, u, c)
  OBVIOUS
<1>3. v \in Job /\ v.kind # "force" /\ v.pc # "create"
  BY <1>1, <1>2 DEF Work, Job
<1>4. req' = [req EXCEPT ![r] = v]
  BY <1>2 DEF Start
<1> QED
  BY <1>3, <1>4, JobEnds

(* Webhooks of other kinds admit nobody. *)
LEMMA HooksKept ==
    ASSUME CallsIInv, tokens' \subseteq tokens,
           NEW H, \A h \in H : h \in Events /\ h.event # "participant_joined", hooks' \subseteq hooks \cup H
    PROVE  /\ hooks' \subseteq Events
           /\ \A w \in Callers, d \in Channels : Held(w, d)' => Held(w, d)
<1>1. \A w, d : Hook("participant_joined", w, d).event = "participant_joined"
  BY DEF Hook
<1> QED
  BY <1>1 DEF CallsIInv, CallsShape, Held

LEMMA HookIs ==
    ASSUME NEW event \in {"participant_joined", "participant_left", "track_published"},
           NEW u \in Callers, NEW c \in Channels
    PROVE  Hook(event, u, c) \in Events /\ Hook(event, u, c).event = event
  BY DEF Hook, Events

LEMMA HookAt ==
    ASSUME CallsIInv, NEW h \in hooks
    PROVE  h.user \in Callers /\ h.channel \in Channels
           /\ h = Hook(h.event, h.user, h.channel)
  BY DEF CallsIInv, CallsShape, Events, Hook

LEMMA leave_callKeeps ==
    ASSUME CallsIInv, NEW r \in Requests, NEW u \in Callers, NEW c \in Channels, leave_call(r, u, c)
    PROVE  CallsIInv'
<1>1. UNCHANGED <<vc, tokens, hooks, overlap>>
  BY DEF leave_call, livekit
<1>2. hooks' \subseteq Events /\ \A w, d : Held(w, d)' <=> Held(w, d)
  BY <1>1 DEF CallsIInv, CallsShape, Held
<1>3. CASE UNCHANGED req
  <2>1. CallsShape'
    BY <1>1, <1>3 DEF CallsIInv, CallsShape
  <2> QED
    BY <1>1, <1>2, <1>3, <2>1, CallsQuiet
<1>4. CASE Start(r, Work("delete", "leave", u, c))
  BY <1>1, <1>2, <1>4, LeaveKeeps
<1> QED
  BY <1>3, <1>4 DEF leave_call

(* LiveKit. *)
LEMMA LiveKitKeeps ==
    ASSUME CallsIInv, NEW u \in Callers, NEW c \in Channels,
           connect(u, c) \/ publish_track(u, c) \/ disconnect(u, c) \/ expire(u, c)
    PROVE  CallsIInv'
<1>1. UNCHANGED <<vc, req, overlap>>
  BY DEF connect, publish_track, disconnect, expire, voiceKeys
<1>2. /\ tokens' \subseteq tokens /\ hooks' \subseteq Events
      /\ \A w \in Callers, d \in Channels : Held(w, d)' => Held(w, d)
  <2>1. CASE connect(u, c)
    <3>1. /\ <<u, c>> \in tokens /\ tokens' = tokens
          /\ hooks' = hooks \cup {Hook("participant_joined", u, c)}
      BY <2>1 DEF connect
    <3>2. \A w, d : Hook("participant_joined", w, d) = Hook("participant_joined", u, c) => w = u /\ d = c
      BY DEF Hook
    <3>3. Hook("participant_joined", u, c) \in Events
      BY HookIs
    <3> QED
      BY <3>1, <3>2, <3>3 DEF CallsIInv, CallsShape, Held
  <2>2. CASE publish_track(u, c) \/ disconnect(u, c)
    <3>1. PICK H : H = {Hook("track_published", u, c), Hook("participant_left", u, c)}
      OBVIOUS
    <3>2. \A h \in H : h \in Events /\ h.event # "participant_joined"
      BY <3>1, HookIs
    <3>3. tokens' \subseteq tokens /\ hooks' \subseteq hooks \cup H
      BY <2>2, <3>1 DEF publish_track, disconnect
    <3> QED
      BY <3>2, <3>3, HooksKept
  <2>3. CASE expire(u, c)
    BY <2>3 DEF expire, CallsIInv, CallsShape, Held
  <2> QED
    BY <2>1, <2>2, <2>3
<1>3. CallsShape'
  BY <1>1, <1>2 DEF CallsIInv, CallsShape
<1> QED
  BY <1>1, <1>2, <1>3, CallsQuiet

(* Webhooks that change no request. *)
LEMMA IngressQuiet ==
    ASSUME CallsIInv, UNCHANGED <<vc, req, overlap, tokens>>, hooks' \subseteq Events,
           \A w \in Callers, d \in Channels : Held(w, d)' => Held(w, d)
    PROVE  CallsIInv'
<1>1. CallsShape'
  BY DEF CallsIInv, CallsShape
<1> QED
  BY <1>1, CallsQuiet

LEMMA participant_joinedKeeps ==
    ASSUME CallsIInv, NEW r \in Requests, NEW h \in hooks, participant_joined(r, h)
    PROVE  CallsIInv'
<1>1. UNCHANGED <<vc, tokens, overlap>> /\ hooks' = hooks \ {h} /\ h.event = "participant_joined"
  BY DEF participant_joined
<1>2. /\ hooks' \subseteq Events /\ vc' \in [Callers -> SUBSET Channels] /\ tokens' \subseteq Callers \X Channels
      /\ \A w \in Callers, d \in Channels : Held(w, d)' => Held(w, d)
  BY <1>1 DEF CallsIInv, CallsShape, Held
<1>3. CASE UNCHANGED req
  BY <1>1, <1>2, <1>3, IngressQuiet
<1>4. CASE Start(r, Work("create", "join", h.user, h.channel))
  <2>1. PICK u \in Callers, c \in Channels : u = h.user /\ c = h.channel /\ h = Hook(h.event, u, c)
    BY HookAt
  <2>2. Held(u, c)
    BY <1>1, <2>1 DEF Held
  <2>3. PICK v : v = Work("create", "join", u, c)
    OBVIOUS
  <2>4. "join" \in Kinds /\ "create" \in {"create", "delete"}
    BY DEF Kinds
  <2>5. v \in Job /\ v.pc = "create" /\ v.kind = "join" /\ v.user = u /\ v.to = c /\ v.channel = c
    BY <2>3, <2>4 DEF Work, Job
  <2>6. req' = [req EXCEPT ![r] = v]
    BY <1>4, <2>1, <2>3 DEF Start
  <2>7. JobFine(v)' /\ \A w, d : ~SoftJob(v, w, d) /\ (FirmJob(v, w, d) => w = u /\ d = c)
    BY <2>5 DEF JobFine, FirmJob, SoftJob
  <2>8. \A w \in Callers, d \in Channels : FirmJob(v, w, d) => Firm(w, d)
    BY <2>2, <2>7 DEF Firm
  <2> QED
    BY <1>1, <1>2, <2>5, <2>6, <2>7, <2>8, JobMoves
<1> QED
  BY <1>3, <1>4 DEF participant_joined
(* The other webhooks. *)
LEMMA IngressKeeps ==
    ASSUME CallsIInv, NEW h \in hooks, NEW r \in Requests, NEW forbidden \in BOOLEAN,
           participant_left(r, h) \/ track_of_participant(r, h, forbidden)
    PROVE  CallsIInv'
<1>1. PICK u \in Callers, c \in Channels : u = h.user /\ c = h.channel
  BY HookAt
<1>2. UNCHANGED <<vc, tokens, overlap>>
  BY DEF participant_left, track_of_participant, evict_from_room, voiceKeys
<1>3. PICK H : H = {Hook("participant_left", u, c)}
  OBVIOUS
<1>4. \A x \in H : x \in Events /\ x.event # "participant_joined"
  BY <1>3, HookIs
<1>5. evict_from_room(u, c, h) => hooks' \subseteq hooks \cup H
  BY <1>3, SMT DEF evict_from_room
<1>6. hooks' \subseteq hooks \cup H
  BY <1>1, <1>5 DEF participant_left, track_of_participant
<1>7. /\ hooks' \subseteq Events
      /\ \A w \in Callers, d \in Channels : Held(w, d)' => Held(w, d)
  BY <1>2, <1>4, <1>6, HooksKept
<1>8. CASE UNCHANGED req
  BY <1>2, <1>7, <1>8, IngressQuiet
<1>9. CASE Start(r, Work("delete", "leave", u, c))
  BY <1>2, <1>7, <1>9, LeaveKeeps
<1>10. CASE Start(r, Work("delete", "quiet", u, c))
  BY <1>2, <1>7, <1>10, LeaveKeeps
<1> QED
  BY <1>1, <1>8, <1>9, <1>10 DEF participant_left, track_of_participant

(* Removal by others. *)
LEMMA RemovalKeeps ==
    ASSUME CallsIInv, NEW r \in Requests, NEW u \in Callers, NEW c \in Channels,
           Start(r, Work("delete", "quiet", u, c)), UNCHANGED <<voiceKeys, livekit, overlap>>
    PROVE  CallsIInv'
<1>1. UNCHANGED <<vc, tokens, hooks, overlap>>
  BY DEF voiceKeys, livekit
<1>2. hooks' \subseteq Events /\ \A w, d : Held(w, d)' <=> Held(w, d)
  BY <1>1 DEF CallsIInv, CallsShape, Held
<1> QED
  BY <1>1, <1>2, LeaveKeeps

LEMMA cleanupKeeps ==
    ASSUME CallsIInv, NEW r \in Requests, NEW u \in Callers, cleanup_user_voice_on_disconnect(r, u)
    PROVE  CallsIInv'
<1>1. UNCHANGED <<vc, tokens, hooks, overlap>>
  BY DEF cleanup_user_voice_on_disconnect, voiceKeys, livekit
<1>2. hooks' \subseteq Events /\ \A w, d : Held(w, d)' <=> Held(w, d)
  BY <1>1 DEF CallsIInv, CallsShape, Held
<1>3. PICK first \in vc[u] :
          Start(r, [Work("delete", "cleanup", u, first) EXCEPT !.rest = vc[u] \ {first}])
  BY DEF cleanup_user_voice_on_disconnect
<1>4. PICK rest \in SUBSET Channels : rest = vc[u] \ {first} /\ first \in Channels
  BY DEF CallsIInv, CallsShape
<1>5. PICK v : v = [Work("delete", "cleanup", u, first) EXCEPT !.rest = rest]
  OBVIOUS
<1>6. v \in Job /\ v.pc # "create" /\ v.kind # "force"
  BY <1>4, <1>5 DEF Work, Job, Kinds
<1>7. req' = [req EXCEPT ![r] = v]
  BY <1>3, <1>4, <1>5 DEF Start
<1> QED
  BY <1>1, <1>2, <1>6, <1>7, JobEnds

LEMMA CallsInitOK ==
    ASSUME VoiceInit
    PROVE  CallsIInv
<1>1. CallsShape /\ tokens = {} /\ hooks = {} /\ \A r \in Requests : req[r] = Idle
  BY DEF VoiceInit, CallsShape
<1>2. \A u \in Callers : vc[u] = {}
  BY DEF VoiceInit
<1>3. \A u, c : ~Admitting(u, c)
  BY <1>1 DEF Admitting, Firm, Held, FirmJob, SoftJob
<1>4. \A r \in Requests : JobFine(req[r])
  BY <1>1 DEF JobFine
<1>5. \A u \in Callers : CallerFine(u)
  BY <1>2, <1>3 DEF CallerFine, Admitting
<1> QED
  BY <1>1, <1>4, <1>5 DEF CallsIInv

(* The rooms that requests and readers name. *)
RoomsShape == docs \subseteq Channels /\ vc_members \in [Channels -> SUBSET Callers]

LEMMA RoomsKept ==
    ASSUME CallsIInv, RoomsShape, [VoiceNext]_vvars
    PROVE  RoomsShape'
<1>1. CASE \E r \in Requests : create_voice_state(r) \/ delete_voice_state(r)
  <2>1. PICK r \in Requests : create_voice_state(r) \/ delete_voice_state(r)
    BY <1>1
  <2>2. req[r] \in Job
    BY <2>1, JobAt DEF create_voice_state, delete_voice_state
  <2>3. PICK u \in Callers, c \in Channels : u = req[r].user /\ c = req[r].channel
    BY <2>2 DEF Job
  <2>4. PICK more \in SUBSET Callers : more = vc_members[c] \cup {u}
    BY DEF RoomsShape
  <2>5. PICK fewer \in SUBSET Callers : fewer = vc_members[c] \ {u}
    BY DEF RoomsShape
  <2>6. /\ docs' = docs
        /\ \/ vc_members' = [vc_members EXCEPT ![c] = more]
           \/ vc_members' = [vc_members EXCEPT ![c] = fewer]
    BY <2>1, <2>3, <2>4, <2>5 DEF create_voice_state, delete_voice_state
  <2> QED
    BY <2>6 DEF RoomsShape
<1>2. CASE UNCHANGED vvars
  BY <1>2 DEF vvars, voiceKeys, RoomsShape
<1>3. CASE VoiceNext /\ ~\E r \in Requests : create_voice_state(r) \/ delete_voice_state(r)
  <2> DEFINE Fewer == docs' \subseteq docs /\ vc_members' = vc_members
  <2>1. \A r \in Requests :
            request_fails(r) \/ force_fails(r) \/ finish_removal(r)
              => Fewer
    BY DEF request_fails, force_fails, finish_removal, voiceKeys
  <2>2. \A r \in Requests, u \in Callers :
            remove_from_server(r, u) \/ cleanup_user_voice_on_disconnect(r, u) => Fewer
    BY DEF remove_from_server, cleanup_user_voice_on_disconnect, voiceKeys
  <2>3. \A r \in Requests, u \in Callers, c \in Channels :
            /\ \A may, force \in BOOLEAN : join_call(r, u, c, may, force) => Fewer
            /\ leave_call(r, u, c) \/ remove_from_group(r, u, c) => Fewer
    <3>1. ASSUME NEW r \in Requests, NEW u \in Callers, NEW c \in Channels, NEW may \in BOOLEAN,
                 NEW force \in BOOLEAN, join_call(r, u, c, may, force)
          PROVE  Fewer
      BY <3>1 DEF join_call
    <3>2. ASSUME NEW r \in Requests, NEW u \in Callers, NEW c \in Channels,
                 leave_call(r, u, c) \/ remove_from_group(r, u, c)
          PROVE  Fewer
      BY <3>2 DEF leave_call, remove_from_group, voiceKeys
    <3> QED
      BY <3>1, <3>2
  <2>4. \A r \in Requests, h \in hooks, forbidden \in BOOLEAN :
            participant_joined(r, h) \/ participant_left(r, h) \/ track_of_participant(r, h, forbidden)
              => Fewer
    BY DEF participant_joined, participant_left, track_of_participant, voiceKeys
  <2>5. \A r \in Requests, c \in Channels : get_channel_voice_state(r, c) => Fewer
    BY DEF get_channel_voice_state, voiceKeys
  <2>6. \A h \in hooks : ingress_unknown(h) \/ track_of_viewer(h) => Fewer
    BY DEF ingress_unknown, track_of_viewer, voiceKeys
  <2>7. \A u \in Callers, c \in Channels :
            connect(u, c) \/ publish_track(u, c) \/ disconnect(u, c) \/ expire(u, c)
              => Fewer
    BY DEF connect, publish_track, disconnect, expire, voiceKeys
  <2>8. \A c \in Channels : delete_voice_channel(c) => Fewer
    BY DEF delete_voice_channel
  <2> HIDE DEF Fewer
  <2>9. Fewer
    BY <1>3, <2>1, <2>2, <2>3, <2>4, <2>5, <2>6, <2>7, <2>8 DEF VoiceNext
  <2> QED
    BY <2>9 DEF Fewer, RoomsShape
<1> QED
  BY <1>1, <1>2, <1>3

LEMMA CallsStepKeeps ==
    ASSUME CallsIInv, RoomsShape, [VoiceNext]_vvars
    PROVE  CallsIInv'
<1>1. ASSUME UNCHANGED <<vc, req, tokens, hooks, overlap>> PROVE CallsIInv'
  <2>1. hooks' \subseteq Events /\ \A w, d : Held(w, d)' <=> Held(w, d)
    BY <1>1 DEF CallsIInv, CallsShape, Held
  <2> QED
    BY <1>1, <2>1, IngressQuiet
<1>2. CASE UNCHANGED vvars
  BY <1>1, <1>2 DEF vvars, voiceKeys, livekit
<1>3. ASSUME NEW c \in Channels, delete_voice_channel(c) PROVE CallsIInv'
  BY <1>1, <1>3 DEF delete_voice_channel, livekit
<1>4. ASSUME NEW r \in Requests, NEW u \in Callers, remove_from_server(r, u) PROVE CallsIInv'
  <2>1. PICK c \in Channels : c = unique_key[<<u, Server>>]
    BY <1>4 DEF remove_from_server, RoomsShape
  <2> QED
    BY <1>4, <2>1, RemovalKeeps DEF remove_from_server
<1>5. ASSUME NEW r \in Requests, NEW u \in Callers, NEW c \in Channels, remove_from_group(r, u, c)
      PROVE  CallsIInv'
  BY <1>5, RemovalKeeps DEF remove_from_group
<1>6. ASSUME NEW r \in Requests, NEW c \in Channels, get_channel_voice_state(r, c) PROVE CallsIInv'
  <2>1. PICK u \in vc_members[c] : Start(r, Work("delete", "quiet", u, c))
    BY <1>6 DEF get_channel_voice_state
  <2>2. u \in Callers
    BY <2>1 DEF RoomsShape
  <2>3. UNCHANGED <<voiceKeys, livekit, overlap>>
    BY <1>6 DEF get_channel_voice_state
  <2> QED
    BY <2>1, <2>2, <2>3, RemovalKeeps
<1>7. ASSUME NEW r \in Requests,
             \/ create_voice_state(r) \/ request_fails(r)
             \/ delete_voice_state(r) \/ force_fails(r) \/ finish_removal(r)
      PROVE  CallsIInv'
  BY <1>7, create_voice_stateKeeps, request_failsKeeps, delete_voice_stateKeeps,
     finish_removalKeeps
<1>8. ASSUME NEW h \in hooks, ingress_unknown(h) \/ track_of_viewer(h) PROVE CallsIInv'
  <2>1. UNCHANGED <<vc, req, overlap, tokens>>
    BY <1>8 DEF ingress_unknown, track_of_viewer, evict_from_room, voiceKeys
  <2>2. PICK u \in Callers, c \in Channels : u = h.user /\ c = h.channel
    BY HookAt
  <2>3. PICK H : H = {Hook("participant_left", u, c)}
    OBVIOUS
  <2>4. \A x \in H : x \in Events /\ x.event # "participant_joined"
    BY <2>3, HookIs
  <2>5. evict_from_room(u, c, h) => hooks' \subseteq hooks \cup H
    BY <2>3, SMT DEF evict_from_room
  <2>6. hooks' \subseteq hooks \cup H
    BY <1>8, <2>2, <2>5 DEF ingress_unknown, track_of_viewer
  <2> QED
    BY <2>1, <2>4, <2>6, HooksKept, IngressQuiet
<1>9. ASSUME NEW r \in Requests, NEW h \in hooks, NEW forbidden \in BOOLEAN,
             \/ participant_joined(r, h) \/ participant_left(r, h) \/ track_of_participant(r, h, forbidden)
      PROVE  CallsIInv'
  BY <1>9, participant_joinedKeeps, IngressKeeps
<1> QED
  BY ZenonT(60), <1>2, <1>3, <1>4, <1>5, <1>6, <1>7, <1>8, <1>9, cleanupKeeps, join_callKeeps, leave_callKeeps,
     LiveKitKeeps DEF VoiceNext

(* A caller is in one call at a time, in every behaviour of the routes, the *)
(* webhooks and the clean-ups, whichever of their calls fail, unless two   *)
(* of their own joins overlapped: raise_if_in_voice, and the calls a       *)
(* forced join leaves before its token is issued, are enough for any       *)
(* number of callers, channels and requests.                               *)
THEOREM AlwaysOneCall == VoiceSpec => []OneCallAtATime
<1>1. VoiceInit => CallsIInv /\ RoomsShape
  BY CallsInitOK DEF VoiceInit, RoomsShape
<1>2. CallsIInv /\ RoomsShape /\ [VoiceNext]_vvars => (CallsIInv /\ RoomsShape)'
  BY CallsStepKeeps, RoomsKept
<1>3. CallsIInv => OneCallAtATime
  BY DEF CallsIInv, CallerFine, OneCallAtATime
<1> QED
  BY <1>1, <1>2, <1>3, PTL DEF VoiceSpec

-----------------------------------------------------------------------------
(* Where a connection's task stands fixes which of the sets its session is
   in; clear_region only ever runs with every task ended, one session at a
   time. *)
TasksAndSets ==
    /\ node # "up" => \A c \in Conns : pc[c] \notin {"new", "gone"} => c \in dead
    /\ node = "clearing" => todo \subseteq region
    /\ \A c \in current : c \notin sessions[UserOf(c)]
    /\ \A c, d \in current : c = d
    /\ \A c \in Conns :
        /\ c \notin dead /\ pc[c] \in {"c_online", "c_region"} => c \in sessions[UserOf(c)]
        /\ pc[c] \in {"new", "c_session"} \cup Deleting => c \notin sessions[UserOf(c)]
        /\ node = "up" /\ c \notin dead /\ pc[c] \in {"c_notify", "up"}
              /\ c \in sessions[UserOf(c)] => c \in region

(* A stale session is in the window, was skipped, or clear_region will still
   come across it. *)
StaleSessions ==
    \A c \in Conns : Stale(c) =>
        \/ pc[c] \in {"c_online", "c_region"}
        \/ c \in skipped
        \/ node # "clearing" /\ c \in region
        \/ node = "clearing" /\ c \in todo

(* A connection belongs to one of the users. *)
LEMMA UserOfType == \A c \in Conns : UserOf(c) \in Users
  BY DEF Conns, UserOf

-----------------------------------------------------------------------------
(* The variables keep their types: sets of the declared users and
   connections, task positions, counters within their bounds. *)
THEOREM TypeCorrect == Spec => []TypeOK
<1>1. Init => TypeOK
  BY PresenceBounds, SMT DEF Init, TypeOK
<1>2. TypeOK /\ [Next]_vars => TypeOK'
  <2> SUFFICES ASSUME TypeOK, [Next]_vars PROVE TypeOK'
    OBVIOUS
  <2> USE UserOfType, PresenceBounds DEF TypeOK
  <2>1. ASSUME NEW k \in Conns, CreateCount(k) PROVE TypeOK'
    BY <2>1 DEF CreateCount, Task, clearing, Creating, Deleting
  <2>2. ASSUME NEW k \in Conns, CreateSession(k) PROVE TypeOK'
    BY <2>2 DEF CreateSession, Task, clearing, Creating, Deleting, AddSession
  <2>3. ASSUME NEW k \in Conns, CreateOnline(k) PROVE TypeOK'
    BY <2>3 DEF CreateOnline, Task, clearing, Creating, Deleting
  <2>4. ASSUME NEW k \in Conns, CreateRegion(k) PROVE TypeOK'
    BY <2>4 DEF CreateRegion, Task, clearing, Creating, Deleting
  <2>5. ASSUME NEW k \in Conns, CreateRefused(k) PROVE TypeOK'
    BY <2>5, SMT DEF CreateRefused, Task, clearing, Creating, Deleting
  <2>6. ASSUME NEW k \in Conns, NotifyOnline(k) PROVE TypeOK'
    BY <2>6 DEF NotifyOnline, Task, clearing, Creating, Deleting
  <2>7. ASSUME NEW k \in Conns, DeleteSession(k) PROVE TypeOK'
    BY <2>7 DEF DeleteSession, Task, clearing, Creating, Deleting, RemoveSession
  <2>8. ASSUME NEW k \in Conns, DeleteRegion(k) PROVE TypeOK'
    BY <2>8 DEF DeleteRegion, Task, clearing, Creating, Deleting
  <2>9. ASSUME NEW k \in Conns, DeleteCount(k) PROVE TypeOK'
    BY <2>9 DEF DeleteCount, Task, clearing, Creating, Deleting
  <2>10. ASSUME NEW k \in Conns, DeleteOnline(k) PROVE TypeOK'
    BY <2>10 DEF DeleteOnline, Task, clearing, Creating, Deleting
  <2>11. ASSUME NEW k \in Conns, DeleteRefused(k) PROVE TypeOK'
    BY <2>11, SMT DEF DeleteRefused, Task, clearing, Creating, Deleting
  <2>12. ASSUME NEW k \in Conns, NotifyOffline(k) PROVE TypeOK'
    BY <2>12 DEF NotifyOffline, Task, clearing, Creating, Deleting
  <2>13. ASSUME NEW k \in Conns, ClearSession(k) PROVE TypeOK'
    BY <2>13 DEF ClearSession, Clear, redis, RemoveSession
  <2>14. ASSUME NEW k \in Conns, ClearOnline(k) PROVE TypeOK'
    BY <2>14 DEF ClearOnline, Clear, redis
  <2>15. CASE Crash
    BY <2>15, SMT DEF Crash, redis
  <2>16. CASE ClearList
    BY <2>16 DEF ClearList, Clear, redis
  <2>17. CASE ClearDone
    BY <2>17 DEF ClearDone, Clear, redis
  <2>18. CASE UNCHANGED vars
    BY <2>18 DEF vars
  <2>19. ASSUME NEW k \in Conns, ClearRefused(k) PROVE TypeOK'
    BY <2>19, SMT DEF ClearRefused, redis
  <2> QED
    BY <2>1, <2>2, <2>3, <2>4, <2>5, <2>6, <2>7, <2>8, <2>9, <2>10, <2>11, <2>12, <2>13, <2>14, <2>15, <2>16, <2>17, <2>18, <2>19 DEF Next, Step
<1> QED
  BY <1>1, <1>2, PTL DEF Spec

-----------------------------------------------------------------------------
(* Every step keeps tasks and sets in line. *)
LEMMA TasksAndSetsStep ==
  TypeOK /\ TasksAndSets /\ StaleSessions /\ [Next]_vars => TasksAndSets'
<1> SUFFICES ASSUME TypeOK /\ TasksAndSets /\ StaleSessions, [Next]_vars PROVE TasksAndSets'
  OBVIOUS
<1> USE UserOfType DEF TypeOK, TasksAndSets, StaleSessions, Stale, Creating, Deleting
<1>1. ASSUME NEW k \in Conns, CreateCount(k) PROVE TasksAndSets'
  BY <1>1 DEF CreateCount, Task, clearing
<1>2. ASSUME NEW k \in Conns, CreateSession(k) PROVE TasksAndSets'
  BY <1>2, SMT DEF CreateSession, Task, clearing, AddSession
<1>3. ASSUME NEW k \in Conns, CreateOnline(k) PROVE TasksAndSets'
  BY <1>3, SMT DEF CreateOnline, Task, clearing
<1>4. ASSUME NEW k \in Conns, CreateRegion(k) PROVE TasksAndSets'
  BY <1>4, SMT DEF CreateRegion, Task, clearing
<1>5. ASSUME NEW k \in Conns, CreateRefused(k) PROVE TasksAndSets'
  BY <1>5, SMT DEF CreateRefused, Task, clearing
<1>6. ASSUME NEW k \in Conns, NotifyOnline(k) PROVE TasksAndSets'
  BY <1>6 DEF NotifyOnline, Task, clearing
<1>7. ASSUME NEW k \in Conns, DeleteSession(k) PROVE TasksAndSets'
  BY <1>7, SMT DEF DeleteSession, Task, clearing, RemoveSession
<1>8. ASSUME NEW k \in Conns, DeleteRegion(k) PROVE TasksAndSets'
  BY <1>8 DEF DeleteRegion, Task, clearing
<1>9. ASSUME NEW k \in Conns, DeleteCount(k) PROVE TasksAndSets'
  BY <1>9 DEF DeleteCount, Task, clearing
<1>10. ASSUME NEW k \in Conns, DeleteOnline(k) PROVE TasksAndSets'
  BY <1>10 DEF DeleteOnline, Task, clearing
<1>11. ASSUME NEW k \in Conns, DeleteRefused(k) PROVE TasksAndSets'
  BY <1>11 DEF DeleteRefused, Task, clearing
<1>12. ASSUME NEW k \in Conns, NotifyOffline(k) PROVE TasksAndSets'
  BY <1>12, SMT DEF NotifyOffline, Task, clearing
<1>13. ASSUME NEW k \in Conns, ClearSession(k) PROVE TasksAndSets'
  BY <1>13 DEF ClearSession, Clear, redis, RemoveSession
<1>14. ASSUME NEW k \in Conns, ClearOnline(k) PROVE TasksAndSets'
  BY <1>14 DEF ClearOnline, Clear, redis
<1>15. CASE Crash
  BY <1>15 DEF Crash, redis
<1>16. CASE ClearList
  BY <1>16 DEF ClearList, Clear, redis
<1>17. CASE ClearDone
  BY <1>17 DEF ClearDone, Clear, redis
<1>18. CASE UNCHANGED vars
  BY <1>18 DEF vars
<1>19. ASSUME NEW k \in Conns, ClearRefused(k) PROVE TasksAndSets'
  BY <1>19 DEF ClearRefused, redis
<1> QED
  BY <1>1, <1>2, <1>3, <1>4, <1>5, <1>6, <1>7, <1>8, <1>9, <1>10, <1>11, <1>12, <1>13, <1>14, <1>15, <1>16, <1>17, <1>18, <1>19 DEF Next, Step

(* Every step keeps the stale sessions accounted for. *)
LEMMA StaleSessionsStep ==
  TypeOK /\ TasksAndSets /\ StaleSessions /\ [Next]_vars => StaleSessions'
<1> SUFFICES ASSUME TypeOK /\ TasksAndSets /\ StaleSessions, [Next]_vars PROVE StaleSessions'
  OBVIOUS
<1> USE UserOfType DEF TypeOK, TasksAndSets, StaleSessions, Stale, Creating, Deleting
<1>1. ASSUME NEW k \in Conns, CreateCount(k) PROVE StaleSessions'
  BY <1>1, SMT DEF CreateCount, Task, clearing
<1>2. ASSUME NEW k \in Conns, CreateSession(k) PROVE StaleSessions'
  BY <1>2 DEF CreateSession, Task, clearing, AddSession
<1>3. ASSUME NEW k \in Conns, CreateOnline(k) PROVE StaleSessions'
  BY <1>3, SMT DEF CreateOnline, Task, clearing
<1>4. ASSUME NEW k \in Conns, CreateRegion(k) PROVE StaleSessions'
  BY <1>4, SMT DEF CreateRegion, Task, clearing
<1>5. ASSUME NEW k \in Conns, CreateRefused(k) PROVE StaleSessions'
  BY <1>5, SMT DEF CreateRefused, Task, clearing
<1>6. ASSUME NEW k \in Conns, NotifyOnline(k) PROVE StaleSessions'
  BY <1>6, SMT DEF NotifyOnline, Task, clearing
<1>7. ASSUME NEW k \in Conns, DeleteSession(k) PROVE StaleSessions'
  BY <1>7 DEF DeleteSession, Task, clearing, RemoveSession
<1>8. ASSUME NEW k \in Conns, DeleteRegion(k) PROVE StaleSessions'
  BY <1>8, SMT DEF DeleteRegion, Task, clearing
<1>9. ASSUME NEW k \in Conns, DeleteCount(k) PROVE StaleSessions'
  BY <1>9 DEF DeleteCount, Task, clearing
<1>10. ASSUME NEW k \in Conns, DeleteOnline(k) PROVE StaleSessions'
  BY <1>10, SMT DEF DeleteOnline, Task, clearing
<1>11. ASSUME NEW k \in Conns, DeleteRefused(k) PROVE StaleSessions'
  BY <1>11, SMT DEF DeleteRefused, Task, clearing
<1>12. ASSUME NEW k \in Conns, NotifyOffline(k) PROVE StaleSessions'
  BY <1>12, SMT DEF NotifyOffline, Task, clearing
<1>13. ASSUME NEW k \in Conns, ClearSession(k) PROVE StaleSessions'
  BY <1>13 DEF ClearSession, Clear, redis, RemoveSession
<1>14. ASSUME NEW k \in Conns, ClearOnline(k) PROVE StaleSessions'
  BY <1>14, SMT DEF ClearOnline, Clear, redis
<1>15. CASE Crash
  BY <1>15 DEF Crash, redis
<1>16. CASE ClearList
  BY <1>16 DEF ClearList, Clear, redis
<1>17. CASE ClearDone
  BY <1>17 DEF ClearDone, Clear, redis
<1>18. CASE UNCHANGED vars
  BY <1>18 DEF vars
<1>19. ASSUME NEW k \in Conns, ClearRefused(k) PROVE StaleSessions'
  BY <1>19 DEF ClearRefused, redis
<1> QED
  BY <1>1, <1>2, <1>3, <1>4, <1>5, <1>6, <1>7, <1>8, <1>9, <1>10, <1>11, <1>12, <1>13, <1>14, <1>15, <1>16, <1>17, <1>18, <1>19 DEF Next, Step

(* Every step keeps the users of ONLINE_SET accounted for. *)
LEMMA OnlineBackedStep ==
  TypeOK /\ TasksAndSets /\ OnlineBacked /\ [Next]_vars => OnlineBacked'
<1> SUFFICES ASSUME TypeOK /\ TasksAndSets /\ OnlineBacked, [Next]_vars PROVE OnlineBacked'
  OBVIOUS
<1> USE UserOfType DEF TypeOK, TasksAndSets, OnlineBacked, IsOnline, MidDelete, Deleting
<1>1. ASSUME NEW k \in Conns, CreateCount(k) PROVE OnlineBacked'
  BY <1>1 DEF CreateCount, Task, clearing
<1>2. ASSUME NEW k \in Conns, CreateSession(k) PROVE OnlineBacked'
  BY <1>2, SMT DEF CreateSession, Task, clearing, AddSession
<1>3. ASSUME NEW k \in Conns, CreateOnline(k) PROVE OnlineBacked'
  BY <1>3 DEF CreateOnline, Task, clearing
<1>4. ASSUME NEW k \in Conns, CreateRegion(k) PROVE OnlineBacked'
  BY <1>4 DEF CreateRegion, Task, clearing
<1>5. ASSUME NEW k \in Conns, CreateRefused(k) PROVE OnlineBacked'
  BY <1>5 DEF CreateRefused, Task, clearing
<1>6. ASSUME NEW k \in Conns, NotifyOnline(k) PROVE OnlineBacked'
  BY <1>6 DEF NotifyOnline, Task, clearing
<1>7. ASSUME NEW k \in Conns, DeleteSession(k) PROVE OnlineBacked'
  BY <1>7, SMT DEF DeleteSession, Task, clearing, RemoveSession
<1>8. ASSUME NEW k \in Conns, DeleteRegion(k) PROVE OnlineBacked'
  BY <1>8 DEF DeleteRegion, Task, clearing
<1>9. ASSUME NEW k \in Conns, DeleteCount(k) PROVE OnlineBacked'
  BY <1>9, SMT DEF DeleteCount, Task, clearing
<1>10. ASSUME NEW k \in Conns, DeleteOnline(k) PROVE OnlineBacked'
  BY <1>10 DEF DeleteOnline, Task, clearing
<1>11. ASSUME NEW k \in Conns, DeleteRefused(k) PROVE OnlineBacked'
  BY <1>11 DEF DeleteRefused, Task, clearing
<1>12. ASSUME NEW k \in Conns, NotifyOffline(k) PROVE OnlineBacked'
  BY <1>12 DEF NotifyOffline, Task, clearing
<1>13. ASSUME NEW k \in Conns, ClearSession(k) PROVE OnlineBacked'
  BY <1>13 DEF ClearSession, Clear, redis, RemoveSession
<1>14. ASSUME NEW k \in Conns, ClearOnline(k) PROVE OnlineBacked'
  BY <1>14 DEF ClearOnline, Clear, redis
<1>15. CASE Crash
  BY <1>15 DEF Crash, redis
<1>16. CASE ClearList
  BY <1>16 DEF ClearList, Clear, redis
<1>17. CASE ClearDone
  BY <1>17 DEF ClearDone, Clear, redis
<1>18. CASE UNCHANGED vars
  BY <1>18 DEF vars
<1>19. ASSUME NEW k \in Conns, ClearRefused(k) PROVE OnlineBacked'
  BY <1>19 DEF ClearRefused, redis
<1> QED
  BY <1>1, <1>2, <1>3, <1>4, <1>5, <1>6, <1>7, <1>8, <1>9, <1>10, <1>11, <1>12, <1>13, <1>14, <1>15, <1>16, <1>17, <1>18, <1>19 DEF Next, Step

-----------------------------------------------------------------------------
PresenceInv == TasksAndSets /\ StaleSessions /\ OnlineBacked

(* The strengthened invariant holds throughout. *)
LEMMA PresenceInvariant == Spec => []PresenceInv
<1>1. Init => PresenceInv
  BY UserOfType DEF Init, PresenceInv, TasksAndSets, StaleSessions, Stale, OnlineBacked
<1>2. TypeOK /\ PresenceInv /\ [Next]_vars => PresenceInv'
  BY TasksAndSetsStep, StaleSessionsStep, OnlineBackedStep DEF PresenceInv
<1> QED
  BY <1>1, <1>2, TypeCorrect, PTL DEF Spec

(* A user that filter_online reports without a session is one whose
   delete_session is under way, was cut short by a crash, or was refused a
   connection inside clear_region. *)
THEOREM OnlineIsBacked == Spec => []OnlineBacked
<1>1. PresenceInv => OnlineBacked
  BY DEF PresenceInv
<1> QED
  BY <1>1, PresenceInvariant, PTL

(* For any users, connections, crashes and refusals: the stale sessions that
   the region does not list are those that clear_region was refused a
   connection for and those whose create_session a crash cut short between its
   first and last SADD. *)
THEOREM StaleAlwaysListed == Spec => []StaleSessionsListed
<1>1. PresenceInv => StaleSessionsListed
  BY DEF PresenceInv, StaleSessions, StaleSessionsListed
<1> QED
  BY <1>1, PresenceInvariant, PTL

=============================================================================

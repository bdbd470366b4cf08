---------------------------- MODULE BrokerProofs ----------------------------
(***************************************************************************)
(* For any pushes, drains, queues, counters and codes: the rate budgets    *)
(* hold, a queue outgrows its depth by no more than the pushes in          *)
(* progress, an envelope that the relay drops is of an epoch that has      *)
(* passed, a relay reaches every device that it takes for offline, and a   *)
(* code of the signer wins once.                                           *)
(***************************************************************************)
EXTENDS BrokerQueue, DmRelay, Ratelimits, Signer, FiniteSetTheorems, TLAPS

(* Leaves go to Zenon unless they name another prover. *)
USE Zenon

(* A list that was appended to is not empty. *)
LEMMA AppendNonEmpty ==
  ASSUME NEW s \in Seq(Pushes), NEW p \in Pushes
  PROVE  Append(s, p) # <<>>
<1>1. Len(Append(s, p)) = Len(s) + 1 /\ Len(s) \in Nat
  BY SMT
<1>2. Len(<<>>) = 0
  OBVIOUS
<1> QED
  BY <1>1, <1>2, SMT

(* Every step keeps the types. *)
LEMMA TypeStep == TypeOK /\ [QueueNext]_brokerQueueVars => TypeOK'
<1> SUFFICES ASSUME TypeOK, [QueueNext]_brokerQueueVars PROVE TypeOK'
  OBVIOUS
<1> USE QueueAssumptions DEF TypeOK
<1>1. ASSUME NEW x \in Pushes, PushTooLarge(x) PROVE TypeOK'
  BY <1>1 DEF PushTooLarge, PushStep, queueVars, pushVars, drainVars
<1>2. ASSUME NEW x \in Pushes, PushCount(x) PROVE TypeOK'
  <2> DEFINE c == [k \in Counters |-> IF k \in CountersOf[x] THEN count[k] + 1 ELSE count[k]]
  <2>1. c \in [Counters -> Nat]
    BY SMT
  <2>2. /\ count' = c
        /\ over' \in [Pushes -> BOOLEAN]
        /\ first' \in [Pushes -> SUBSET Counters]
        /\ push' \in [Pushes -> {"idle", "counted", "granted", "appended", "ok", "err"}]
    BY <1>2 DEF PushCount, PushStep, OverLimit
  <2>3. accepted' \in [Counters -> Nat]
    BY <1>2, SMT DEF PushCount
  <2>4. \A k \in windowed : count'[k] > 0
    BY <2>1, <2>2, SMT
  <2> HIDE DEF c
  <2> QED
    BY <1>2, <2>1, <2>2, <2>3, <2>4 DEF PushCount, PushStep, queueVars, drainVars
<1>3. ASSUME NEW x \in Pushes, PushDepth(x) PROVE TypeOK'
  BY <1>3 DEF PushDepth, PushStep, queueVars, pushVars, drainVars, Full
<1>4. ASSUME NEW x \in Pushes, PushAppend(x) PROVE TypeOK'
  <2>1. queue' \in [Queues -> Seq(Pushes)]
    BY <1>4, SMT DEF PushAppend
  <2>2. ASSUME NEW q \in lasting PROVE queue'[q] # <<>>
    <3>1. CASE q = TargetOf[x]
      <4>1. queue'[q] = Append(queue[q], x)
        BY <1>4, <3>1 DEF PushAppend
      <4>2. queue[q] \in Seq(Pushes)
        OBVIOUS
      <4>3. Append(queue[q], x) # <<>>
        BY <4>2, AppendNonEmpty
      <4> QED
        BY <4>1, <4>3
    <3>2. CASE q # TargetOf[x]
      BY <1>4, <3>2 DEF PushAppend
    <3> QED
      BY <3>1, <3>2
  <2>3. windowed' \subseteq Counters /\ \A k \in windowed' : count[k] > 0
    BY <1>4 DEF PushAppend
  <2> QED
    BY <1>4, <2>1, <2>2, <2>3 DEF PushAppend, PushStep, drainVars
<1>5. ASSUME NEW x \in Pushes, PushExpire(x) PROVE TypeOK'
  BY <1>5 DEF PushExpire, PushStep, queueVars, pushVars, drainVars
<1>6. ASSUME NEW x \in Pushes, PushLost(x) PROVE TypeOK'
  BY <1>6 DEF PushLost, PushStep, queueVars, pushVars, drainVars
<1>7. ASSUME NEW x \in Drains, DrainRead(x) PROVE TypeOK'
  BY <1>7 DEF DrainRead, PushStep, queueVars, pushVars, drainVars
<1>8. ASSUME NEW x \in Drains, DrainDelete(x) PROVE TypeOK'
  BY <1>8, SMT DEF DrainDelete, PushStep, queueVars, pushVars, drainVars
<1>9. ASSUME NEW x \in Queues, ExpireQueue(x) PROVE TypeOK'
  BY <1>9, SMT DEF ExpireQueue, PushStep, queueVars, pushVars, drainVars, DropQueue, Content
<1>10. ASSUME NEW x \in Counters, ExpireCounter(x) PROVE TypeOK'
  BY <1>10 DEF ExpireCounter, PushStep, queueVars, pushVars, drainVars
<1>11. CASE UNCHANGED brokerQueueVars
  BY <1>11 DEF brokerQueueVars, queueVars, pushVars, drainVars
<1> QED
  BY <1>1, <1>2, <1>3, <1>4, <1>5, <1>6, <1>7, <1>8, <1>9, <1>10, <1>11 DEF QueueNext

(* Lists, counters and call states keep their types; a time to live is set on
   existing keys only. *)
THEOREM TypeCorrect == QueueSpec => []TypeOK
<1>1. QueueInit => TypeOK
  BY QueueAssumptions, SMT DEF QueueInit, TypeOK
<1> QED
  BY <1>1, TypeStep, PTL DEF QueueSpec

-----------------------------------------------------------------------------
(* What was let through is part of what was counted, so a counter that has
   reached its limit lets nothing more through. *)
Charged == \A k \in Counters : accepted[k] <= count[k] /\ accepted[k] <= Limit[k]

(* Every step keeps the charges. *)
LEMMA ChargedStep == TypeOK /\ Charged /\ [QueueNext]_brokerQueueVars => Charged'
<1> SUFFICES ASSUME TypeOK, Charged, [QueueNext]_brokerQueueVars PROVE Charged'
  OBVIOUS
<1> USE QueueAssumptions DEF TypeOK, Charged
<1>1. ASSUME NEW x \in Pushes, PushTooLarge(x) PROVE Charged'
  BY <1>1 DEF PushTooLarge, PushStep, queueVars, pushVars, drainVars
<1>2. ASSUME NEW x \in Pushes, PushCount(x) PROVE Charged'
  <2> DEFINE c == [k \in Counters |-> IF k \in CountersOf[x] THEN count[k] + 1 ELSE count[k]]
  <2>1. /\ count' = c
        /\ accepted' = [k \in Counters |->
              IF k \in CountersOf[x] /\ ~OverLimit(x, c) THEN accepted[k] + 1 ELSE accepted[k]]
    BY <1>2 DEF PushCount
  <2>2. ASSUME NEW k \in Counters PROVE accepted'[k] <= count'[k] /\ accepted'[k] <= Limit[k]
    <3>1. CASE k \in CountersOf[x] /\ ~OverLimit(x, c)
      <4>1. c[k] = count[k] + 1 /\ c[k] <= Limit[k]
        BY <3>1, SMT DEF OverLimit
      <4>2. accepted'[k] = accepted[k] + 1
        BY <2>1, <3>1
      <4> QED
        BY <2>1, <4>1, <4>2, SMT
    <3>2. CASE ~(k \in CountersOf[x] /\ ~OverLimit(x, c))
      <4>1. accepted'[k] = accepted[k]
        BY <2>1, <3>2
      <4> QED
        BY <2>1, <4>1, SMT
    <3> QED
      BY <3>1, <3>2
  <2> QED
    BY <2>2
<1>3. ASSUME NEW x \in Pushes, PushDepth(x) PROVE Charged'
  BY <1>3 DEF PushDepth, PushStep, queueVars, pushVars, drainVars, Full
<1>4. ASSUME NEW x \in Pushes, PushAppend(x) PROVE Charged'
  BY <1>4 DEF PushAppend, PushStep, queueVars, pushVars, drainVars
<1>5. ASSUME NEW x \in Pushes, PushExpire(x) PROVE Charged'
  BY <1>5 DEF PushExpire, PushStep, queueVars, pushVars, drainVars
<1>6. ASSUME NEW x \in Pushes, PushLost(x) PROVE Charged'
  BY <1>6 DEF PushLost, PushStep, queueVars, pushVars, drainVars
<1>7. ASSUME NEW x \in Drains, DrainRead(x) PROVE Charged'
  BY <1>7 DEF DrainRead, PushStep, queueVars, pushVars, drainVars
<1>8. ASSUME NEW x \in Drains, DrainDelete(x) PROVE Charged'
  BY <1>8 DEF DrainDelete, PushStep, queueVars, pushVars, drainVars
<1>9. ASSUME NEW x \in Queues, ExpireQueue(x) PROVE Charged'
  BY <1>9 DEF ExpireQueue, PushStep, queueVars, pushVars, drainVars, DropQueue, Content
<1>10. ASSUME NEW x \in Counters, ExpireCounter(x) PROVE Charged'
  BY <1>10, SMT DEF ExpireCounter, PushStep, queueVars, pushVars, drainVars
<1>11. CASE UNCHANGED brokerQueueVars
  BY <1>11 DEF brokerQueueVars, queueVars, pushVars, drainVars
<1> QED
  BY <1>1, <1>2, <1>3, <1>4, <1>5, <1>6, <1>7, <1>8, <1>9, <1>10, <1>11 DEF QueueNext

(* The INCRs admit at most the limit of pushes before the counter expires. *)
THEOREM BudgetsHold == QueueSpec => []RateRespected
<1>1. QueueInit => Charged
  BY QueueAssumptions, SMT DEF QueueInit, Charged
<1>2. Charged => RateRespected
  BY DEF Charged, RateRespected
<1> QED
  BY <1>1, <1>2, ChargedStep, TypeCorrect, PTL DEF QueueSpec

-----------------------------------------------------------------------------
(* At most MaxConcurrent pushes are in progress. *)
FewInFlight == Cardinality(InFlight) <= MaxConcurrent

(* Sets of pushes are finite, and a part is no larger than the whole. *)
LEMMA PushSets ==
  ASSUME NEW S \in SUBSET Pushes, NEW T \in SUBSET S
  PROVE  /\ IsFiniteSet(S) /\ Cardinality(S) \in Nat
         /\ IsFiniteSet(T) /\ Cardinality(T) \in Nat
         /\ Cardinality(T) <= Cardinality(S)
<1>1. IsFiniteSet(S)
  BY QueueAssumptions, FS_Subset
<1>2. IsFiniteSet(T) /\ Cardinality(T) <= Cardinality(S)
  BY <1>1, FS_Subset
<1> QED
  BY <1>1, <1>2, FS_CardinalityType

(* Every step keeps the number of pushes in progress within the bound. *)
LEMMA FewInFlightStep ==
  TypeOK /\ FewInFlight /\ [QueueNext]_brokerQueueVars => FewInFlight'
<1> SUFFICES ASSUME TypeOK, FewInFlight, [QueueNext]_brokerQueueVars PROVE FewInFlight'
  OBVIOUS
<1>1. ASSUME NEW x \in Pushes, PushCount(x) PROVE FewInFlight'
  <2>1. InFlight' = InFlight \cup {x}
    BY <1>1, SMT DEF PushCount, PushStep, InFlight, TypeOK
  <2>2. InFlight \in SUBSET Pushes
    BY DEF InFlight
  <2>3. Cardinality(InFlight) \in Nat /\ Cardinality(InFlight) < MaxConcurrent
    BY <1>1, <2>2, PushSets DEF PushCount
  <2>4. Cardinality(InFlight \cup {x}) <= Cardinality(InFlight) + 1
    BY <2>2, <2>3, PushSets, FS_AddElement, SMT
  <2>5. Cardinality(InFlight \cup {x}) \in Nat
    BY <2>2, PushSets
  <2> QED
    BY <2>1, <2>3, <2>4, <2>5, QueueAssumptions, SMT DEF FewInFlight
<1>2. ASSUME InFlight' \subseteq InFlight PROVE FewInFlight'
  <2>1. InFlight \in SUBSET Pushes
    BY DEF InFlight
  <2>2. Cardinality(InFlight') <= Cardinality(InFlight)
        /\ Cardinality(InFlight) \in Nat /\ Cardinality(InFlight') \in Nat
    BY <1>2, <2>1, PushSets
  <2> QED
    BY <2>2, QueueAssumptions, SMT DEF FewInFlight
<1>3. ASSUME ~\E p \in Pushes : PushCount(p) PROVE InFlight' \subseteq InFlight
  <2>1. ASSUME NEW x \in Pushes,
               PushTooLarge(x) \/ PushDepth(x) \/ PushAppend(x) \/ PushExpire(x) \/ PushLost(x)
        PROVE InFlight' \subseteq InFlight
    BY <2>1 DEF TypeOK, InFlight, PushTooLarge, PushDepth, PushAppend, PushExpire, PushLost, PushStep
  <2>2. ASSUME UNCHANGED push PROVE InFlight' \subseteq InFlight
    BY <2>2 DEF InFlight
  <2> QED
    BY <1>3, <2>1, <2>2 DEF QueueNext, DrainRead, DrainDelete, ExpireQueue, ExpireCounter,
       pushVars, brokerQueueVars
<1> QED
  BY <1>1, <1>2, <1>3

(* Every step keeps the overshoot bounded: a push is granted at a depth below
   the maximum, and appending turns a granted push into a queued message. *)
LEMMA OvershootStep ==
  TypeOK /\ FewInFlight /\ FewInFlight' /\ OvershootBounded /\ [QueueNext]_brokerQueueVars
  => OvershootBounded'
<1> SUFFICES ASSUME TypeOK, FewInFlight, FewInFlight', OvershootBounded,
                    [QueueNext]_brokerQueueVars,
                    NEW q \in Queues
             PROVE  (Len(queue[q]) + Cardinality(GrantedTo(q)) <= MaxDepth + MaxConcurrent - 1)'
  BY DEF OvershootBounded
<1> DEFINE Bound == (Len(queue[q]) + Cardinality(GrantedTo(q)) <= MaxDepth + MaxConcurrent - 1)'
<1> USE QueueAssumptions
<1>0. Len(queue[q]) \in Nat /\ Len(queue[q]) + Cardinality(GrantedTo(q)) <= MaxDepth + MaxConcurrent - 1
  BY SMT DEF OvershootBounded, TypeOK
<1>a. GrantedTo(q) \in SUBSET Pushes
  BY DEF GrantedTo
<1>b. Cardinality(GrantedTo(q)) \in Nat /\ IsFiniteSet(GrantedTo(q))
  BY <1>a, PushSets
<1>1. ASSUME NEW x \in Pushes, PushDepth(x) PROVE Bound
  <2>1. CASE push'[x] = "granted" /\ TargetOf[x] = q
    <3>1. Len(queue[q]) < MaxDepth /\ queue' = queue
      BY <1>1, <2>1, <1>0, SMT DEF PushDepth, PushStep, Full, TypeOK, queueVars
    <3> QED
      <4>1. InFlight' \in SUBSET Pushes /\ GrantedTo(q)' \in SUBSET InFlight'
        BY DEF InFlight, GrantedTo
      <4>2. /\ Cardinality(GrantedTo(q)') \in Nat /\ Cardinality(InFlight') \in Nat
            /\ Cardinality(GrantedTo(q)') <= Cardinality(InFlight')
        BY <4>1, PushSets
      <4> QED
        BY <1>0, <3>1, <4>2, SMT DEF FewInFlight
  <2>2. CASE ~(push'[x] = "granted" /\ TargetOf[x] = q)
    <3>1. GrantedTo(q)' = GrantedTo(q) /\ queue' = queue
      BY <1>1, <2>2 DEF PushDepth, PushStep, GrantedTo, TypeOK, queueVars
    <3> QED
      BY <1>0, <3>1
  <2> QED
    BY <2>1, <2>2
<1>2. ASSUME NEW x \in Pushes, PushAppend(x) PROVE Bound
  <2>1. CASE TargetOf[x] = q
    <3>1. Len(queue'[q]) = Len(queue[q]) + 1
      BY <1>2, <2>1, SMT DEF PushAppend, TypeOK
    <3>2. GrantedTo(q)' = GrantedTo(q) \ {x} /\ x \in GrantedTo(q)
      BY <1>2, <2>1 DEF PushAppend, PushStep, GrantedTo, TypeOK
    <3> QED
      <4>1. Cardinality(GrantedTo(q) \ {x}) = Cardinality(GrantedTo(q)) - 1
        BY <1>b, <3>2, FS_RemoveElement
      <4> QED
        BY <1>0, <1>b, <3>1, <3>2, <4>1, SMT
  <2>2. CASE TargetOf[x] # q
    <3>1. queue'[q] = queue[q] /\ GrantedTo(q)' = GrantedTo(q)
      BY <1>2, <2>2 DEF PushAppend, PushStep, GrantedTo, TypeOK
    <3> QED
      BY <1>0, <3>1
  <2> QED
    BY <2>1, <2>2
<1>3. ASSUME GrantedTo(q)' \subseteq GrantedTo(q), Len(queue'[q]) \in Nat, Len(queue'[q]) <= Len(queue[q])
      PROVE Bound
  <2>1. Cardinality(GrantedTo(q)') \in Nat
        /\ Cardinality(GrantedTo(q)') <= Cardinality(GrantedTo(q))
    BY <1>a, <1>3, PushSets
  <2> QED
    BY <1>0, <1>b, <1>3, <2>1, SMT
<1>4. ASSUME NEW x \in Pushes, PushTooLarge(x) \/ PushCount(x) \/ PushExpire(x) \/ PushLost(x)
      PROVE Bound
  <2>1. GrantedTo(q)' \subseteq GrantedTo(q) /\ queue' = queue
    BY <1>4 DEF TypeOK, GrantedTo, PushTooLarge, PushCount, PushExpire, PushLost, PushStep, queueVars
  <2> QED
    BY <1>0, <1>3, <2>1, SMT
<1>5. ASSUME NEW d \in Drains, DrainRead(d) \/ DrainDelete(d) PROVE Bound
  <2>1. GrantedTo(q)' = GrantedTo(q) /\ (queue'[q] = queue[q] \/ queue'[q] = <<>>)
    BY <1>5, SMT DEF TypeOK, GrantedTo, DrainRead, DrainDelete, queueVars, pushVars
  <2> QED
    BY <1>0, <1>3, <2>1, SMT
<1>6. ASSUME NEW r \in Queues, ExpireQueue(r) PROVE Bound
  <2>1. GrantedTo(q)' = GrantedTo(q) /\ (queue'[q] = queue[q] \/ queue'[q] = <<>>)
    BY <1>6 DEF TypeOK, GrantedTo, ExpireQueue, DropQueue, pushVars
  <2> QED
    BY <1>0, <1>3, <2>1, SMT
<1>7. ASSUME NEW k \in Counters, ExpireCounter(k) PROVE Bound
  <2>1. GrantedTo(q)' = GrantedTo(q) /\ queue' = queue
    BY <1>7 DEF GrantedTo, ExpireCounter, queueVars
  <2> QED
    BY <1>0, <1>3, <2>1
<1>8. CASE UNCHANGED brokerQueueVars
  <2>1. GrantedTo(q)' = GrantedTo(q) /\ queue' = queue
    BY <1>8 DEF GrantedTo, brokerQueueVars, queueVars, pushVars
  <2> QED
    BY <1>0, <1>3, <2>1
<1> QED
  BY <1>1, <1>2, <1>4, <1>5, <1>6, <1>7, <1>8 DEF QueueNext

(* A queue holds at most MaxDepth messages and one less than the pushes that
   may be in progress. *)
THEOREM DepthNearlyHolds == QueueSpec => []OvershootBounded
<1>1. QueueInit => FewInFlight /\ OvershootBounded
  <2> SUFFICES ASSUME QueueInit PROVE FewInFlight /\ OvershootBounded
    OBVIOUS
  <2>1. InFlight = {} /\ \A q \in Queues : GrantedTo(q) = {} /\ Len(queue[q]) = 0
    BY DEF QueueInit, InFlight, GrantedTo
  <2> QED
    <3>1. Cardinality({}) = 0
      BY FS_EmptySet
    <3>2. FewInFlight
      BY <2>1, <3>1, QueueAssumptions, SMT DEF FewInFlight
    <3>3. ASSUME NEW q \in Queues
          PROVE  Len(queue[q]) + Cardinality(GrantedTo(q)) <= MaxDepth + MaxConcurrent - 1
      <4>1. GrantedTo(q) = {} /\ Len(queue[q]) = 0
        BY <2>1
      <4>2. 0 <= MaxDepth + MaxConcurrent - 1
        BY QueueAssumptions, SMT
      <4> QED
        BY <3>1, <4>1, <4>2, SMT
    <3> QED
      BY <3>2, <3>3 DEF OvershootBounded
<1>2. TypeOK /\ FewInFlight /\ OvershootBounded /\ [QueueNext]_brokerQueueVars
      => FewInFlight' /\ OvershootBounded'
  BY FewInFlightStep, OvershootStep
<1> QED
  BY <1>1, <1>2, TypeCorrect, PTL DEF QueueSpec

(***************************************************************************)
(* Rate limits.  As long as requests do not overlap, the one inside the    *)
(* guard holds what is saved, or has begun a window later than all before  *)
(* it; and the saved count is never less than the admissions of its window. *)
(***************************************************************************)
Entries == [used : Nat, reset : Nat]
Guards == [at : {"outside", "remaining", "deduct", "save", "admitted", "refused", "answered"},
           entry : Entries]

WithinLimit(g) ==
    /\ g.at \in {"remaining", "save"} => g.entry.used <= limit
    /\ g.at = "deduct" => g.entry.used < limit \/ wall_clock > g.entry.reset

UpToDate(g, saved, entered) ==
    /\ g.at \in {"remaining", "deduct"} => g.entry = saved \/ (g.entry.used = 0 /\ entered = {})
    /\ g.at = "save" => \/ g.entry.reset = saved.reset /\ g.entry.used = saved.used + 1
                        \/ \A x \in entered : x[2] < g.entry.reset

RateTypes ==
    /\ wall_clock \in Nat /\ set_back \in Nat /\ bucket \in Entries
    /\ guard \in [Guarded -> Guards]
    /\ let_in \subseteq Guarded \X Nat
    /\ \A t \in Nat : IsFiniteSet(AdmittedUntil(t))
    /\ \A r \in Guarded : guard[r].at = "save" => guard[r].entry.used >= 1
    /\ bucket = NoBucket => let_in = {}

InLimit ==
    set_back = 0 => bucket.used <= limit /\ \A r \in Guarded : WithinLimit(guard[r])

OneByOne ==
    /\ \A r, s \in Guarded : Inside(r) /\ Inside(s) => r = s
    /\ \A r \in Guarded : UpToDate(guard[r], bucket, let_in)
    /\ \A x \in let_in : x[2] <= bucket.reset
    /\ Cardinality(AdmittedUntil(bucket.reset)) <= bucket.used
    /\ set_back = 0 => \A t \in Nat : Cardinality(AdmittedUntil(t)) <= limit

RateIInv == RateTypes /\ InLimit /\ (~overlapped => OneByOne)

LEMMA GuardTo ==
    ASSUME RateTypes, NEW r \in Guarded, NEW g \in Guards,
           guard' = [guard EXCEPT ![r] = g]
    PROVE  /\ guard' \in [Guarded -> Guards]
           /\ guard'[r] = g
           /\ \A s \in Guarded : s # r => guard'[s] = guard[s]
  BY DEF RateTypes

LEMMA ClockKeeps ==
    ASSUME RateIInv, TimePasses \/ SetBack
    PROVE  RateIInv'
<1>1. /\ wall_clock' \in Nat /\ set_back' \in Nat /\ UNCHANGED <<bucket, guard, let_in, overlapped>>
      /\ set_back' = 0 => set_back = 0 /\ wall_clock' >= wall_clock
  BY SMT DEF RateIInv, RateTypes, TimePasses, SetBack
<1>2. \A t : AdmittedUntil(t)' = AdmittedUntil(t)
  BY <1>1 DEF AdmittedUntil
<1>3. RateTypes'
  BY <1>1, <1>2 DEF RateIInv, RateTypes
<1>4. InLimit'
  <2> SUFFICES ASSUME set_back' = 0, NEW r \in Guarded
               PROVE  WithinLimit(guard[r])'
    BY <1>1 DEF RateIInv, InLimit
  <2>1. WithinLimit(guard[r]) /\ guard[r].entry.reset \in Nat
    BY <1>1 DEF RateIInv, InLimit, RateTypes, Entries, Guards
  <2>2. wall_clock > guard[r].entry.reset => wall_clock' > guard[r].entry.reset
    BY <1>1, <2>1, SMT DEF RateIInv, RateTypes
  <2> QED
    BY <1>1, <2>1, <2>2 DEF WithinLimit
<1>5. ~overlapped' => OneByOne'
  BY <1>1, <1>2 DEF RateIInv, OneByOne, Inside
<1> QED
  BY <1>3, <1>4, <1>5 DEF RateIInv

(* A request that moves on inside the guard, or leaves it without saving.  *)
LEMMA InsideStep ==
    ASSUME RateIInv, NEW r \in Guarded, NEW g \in Guards,
           guard' = [guard EXCEPT ![r] = g], UNCHANGED <<wall_clock, bucket, let_in, set_back>>,
           g.at = "save" => g.entry.used >= 1,
           set_back = 0 => WithinLimit(g),
           ~overlapped' => /\ ~overlapped
                           /\ UpToDate(g, bucket, let_in)
                           /\ g.at \in {"remaining", "deduct", "save"}
                                => \A s \in Guarded : s # r => ~Inside(s)
    PROVE  RateIInv'
<1>1. /\ guard' \in [Guarded -> Guards] /\ guard'[r] = g
      /\ \A s \in Guarded : s # r => guard'[s] = guard[s]
  BY GuardTo DEF RateIInv
<1>2. \A t : AdmittedUntil(t)' = AdmittedUntil(t)
  BY DEF AdmittedUntil
<1>3. RateTypes'
  BY <1>1, <1>2 DEF RateIInv, RateTypes
<1>4. \A s \in Guarded : set_back' = 0 => WithinLimit(guard[s])'
  BY <1>1 DEF RateIInv, InLimit, WithinLimit
<1>5. InLimit'
  BY <1>4 DEF RateIInv, InLimit
<1>6. ASSUME ~overlapped' PROVE OneByOne'
  <2>1. \A s \in Guarded : UpToDate(guard'[s], bucket', let_in')
    BY <1>1, <1>6 DEF RateIInv, OneByOne
  <2>2. \A s, t \in Guarded : Inside(s)' /\ Inside(t)' => s = t
    BY <1>1, <1>6 DEF RateIInv, OneByOne, Inside
  <2> QED
    BY <1>2, <1>6, <2>1, <2>2 DEF RateIInv, OneByOne
<1> QED
  BY <1>3, <1>5, <1>6 DEF RateIInv

LEMMA EnterKeeps ==
    ASSUME RateIInv, NEW r \in Guarded, enter_guard(r)
    PROVE  RateIInv'
<1> DEFINE g == [at |-> "remaining", entry |-> EntryFrom(bucket)]
<1>1. EntryFrom(bucket) \in Entries /\ (EntryFrom(bucket).used = bucket.used)
  BY RatelimitsAssumption, SMT DEF RateIInv, RateTypes, EntryFrom, Entries, NoBucket
<1>2. g \in Guards /\ g.at = "remaining" /\ g.entry = EntryFrom(bucket)
  BY <1>1 DEF Guards
<1>3. /\ guard' = [guard EXCEPT ![r] = g] /\ UNCHANGED <<wall_clock, bucket, let_in, set_back>>
      /\ overlapped' = (overlapped \/ \E s \in Guarded : Inside(s))
  BY DEF enter_guard
<1> HIDE DEF g
<1>4. UpToDate(g, bucket, let_in)
  BY <1>2, SMT DEF UpToDate, EntryFrom, RateIInv, RateTypes
<1>5. set_back = 0 => WithinLimit(g)
  BY <1>1, <1>2 DEF WithinLimit, RateIInv, InLimit
<1> QED
  BY <1>2, <1>3, <1>4, <1>5, InsideStep

LEMMA RemainingKeeps ==
    ASSUME RateIInv, NEW r \in Guarded, CheckRemaining(r)
    PROVE  RateIInv'
<1> DEFINE e == guard[r].entry
           g == [at |-> IF get_remaining(e) = 0 THEN "refused" ELSE "deduct", entry |-> e]
<1>1. guard[r].at = "remaining" /\ guard[r] \in Guards /\ e \in Entries
  BY DEF CheckRemaining, RateIInv, RateTypes, Guards
<1>2. guard' = [guard EXCEPT ![r] = g] /\ UNCHANGED <<wall_clock, bucket, let_in, overlapped, set_back>>
  <2>1. [guard[r] EXCEPT !.at = IF get_remaining(e) = 0 THEN "refused" ELSE "deduct"] = g
    BY <1>1, SMT DEF Guards
  <2> QED
    BY <2>1 DEF CheckRemaining
<1>3. /\ g \in Guards /\ g.entry = e /\ g.at \in {"refused", "deduct"}
      /\ g.at = "deduct" => get_remaining(e) # 0
  BY <1>1 DEF Guards
<1> HIDE DEF g
<1>4. set_back = 0 => WithinLimit(g)
  <2> SUFFICES ASSUME set_back = 0, get_remaining(e) # 0 PROVE e.used < limit \/ wall_clock > e.reset
    BY <1>3 DEF WithinLimit
  <2>1. e.used <= limit
    BY <1>1 DEF RateIInv, InLimit, WithinLimit
  <2> QED
    BY <1>1, <2>1, RatelimitsAssumption, SMT DEF get_remaining, Entries
<1>5. ~overlapped => /\ UpToDate(g, bucket, let_in)
                     /\ \A s \in Guarded : s # r => ~Inside(s)
  BY <1>1, <1>3 DEF RateIInv, OneByOne, UpToDate, Inside
<1> QED
  BY <1>2, <1>3, <1>4, <1>5, InsideStep

LEMMA DeductKeeps ==
    ASSUME RateIInv, NEW r \in Guarded, deduct(r)
    PROVE  RateIInv'
<1> DEFINE e == guard[r].entry
           g == [at |-> "save",
                 entry |-> IF wall_clock > e.reset THEN [used |-> 1, reset |-> wall_clock + window]
                           ELSE [e EXCEPT !.used = @ + 1]]
<1>1. /\ guard[r].at = "deduct" /\ e \in Entries
      /\ wall_clock \in Nat /\ bucket \in Entries /\ let_in \subseteq Guarded \X Nat
  BY DEF deduct, RateIInv, RateTypes, Guards
<1>2. guard' = [guard EXCEPT ![r] = g] /\ UNCHANGED <<wall_clock, bucket, let_in, overlapped, set_back>>
  BY DEF deduct
<1>3. /\ g.at = "save" /\ g.entry \in Entries
      /\ IF wall_clock > e.reset THEN g.entry.used = 1 /\ g.entry.reset = wall_clock + window
         ELSE g.entry.used = e.used + 1 /\ g.entry.reset = e.reset
  BY <1>1, RatelimitsAssumption, SMT DEF Entries
<1>4. g \in Guards
  BY <1>1, <1>3 DEF Guards
<1> HIDE DEF g
<1>5. g.entry.used >= 1
  BY <1>1, <1>3, SMT DEF Entries
<1>6. set_back = 0 => WithinLimit(g)
  <2> SUFFICES ASSUME set_back = 0 PROVE g.entry.used <= limit
    BY <1>3 DEF WithinLimit
  <2>1. e.used < limit \/ wall_clock > e.reset
    BY <1>1 DEF RateIInv, InLimit, WithinLimit
  <2> QED
    BY <1>1, <1>3, <2>1, RatelimitsAssumption, SMT DEF Entries
<1>7. ASSUME ~overlapped PROVE UpToDate(g, bucket, let_in)
  <2>1. e = bucket \/ (e.used = 0 /\ let_in = {})
    BY <1>1, <1>7 DEF RateIInv, OneByOne, UpToDate
  <2>2. CASE e = bucket /\ wall_clock > e.reset
    <3> SUFFICES ASSUME NEW x \in let_in PROVE x[2] < g.entry.reset
      BY <1>3 DEF UpToDate
    <3>1. x[2] <= bucket.reset /\ x[2] \in Nat
      BY <1>1, <1>7 DEF RateIInv, OneByOne
    <3> QED
      BY <1>1, <1>3, <2>2, <3>1, RatelimitsAssumption, SMT DEF Entries
  <2>3. CASE e = bucket /\ ~(wall_clock > e.reset)
    BY <1>3, <2>3 DEF UpToDate
  <2>4. CASE let_in = {}
    BY <1>3, <2>4 DEF UpToDate
  <2> QED
    BY <2>1, <2>2, <2>3, <2>4
<1>8. ~overlapped => \A s \in Guarded : s # r => ~Inside(s)
  BY <1>1 DEF RateIInv, OneByOne, Inside
<1> QED
  BY <1>2, <1>3, <1>4, <1>5, <1>6, <1>7, <1>8, InsideStep

LEMMA ResponseKeeps ==
    ASSUME RateIInv, NEW r \in Guarded, on_response(r)
    PROVE  RateIInv'
<1> DEFINE g == [at |-> "answered", entry |-> guard[r].entry]
<1>1. guard[r] \in Guards
  BY DEF RateIInv, RateTypes
<1>2. [guard[r] EXCEPT !.at = "answered"] = g /\ g \in Guards
  BY <1>1, SMT DEF Guards
<1>3. guard' = [guard EXCEPT ![r] = g] /\ UNCHANGED <<wall_clock, bucket, let_in, overlapped, set_back>>
  BY <1>2 DEF on_response
<1>4. g.at = "answered" /\ WithinLimit(g) /\ UpToDate(g, bucket, let_in)
  BY DEF WithinLimit, UpToDate
<1> HIDE DEF g
<1> QED
  BY <1>2, <1>3, <1>4, InsideStep

(* The count that is saved is one more admission, or the first of a window. *)
LEMMA SaveKeeps ==
    ASSUME RateIInv, NEW r \in Guarded, save(r)
    PROVE  RateIInv'
<1> DEFINE e == guard[r].entry
           g == [at |-> "admitted", entry |-> e]
<1>1. /\ guard[r].at = "save" /\ guard[r] \in Guards /\ e \in Entries /\ e.used >= 1
      /\ wall_clock \in Nat /\ bucket \in Entries /\ let_in \subseteq Guarded \X Nat
  BY DEF save, RateIInv, RateTypes, Guards
<1>2. [guard[r] EXCEPT !.at = "admitted"] = g /\ g \in Guards /\ g.at = "admitted"
  BY <1>1, SMT DEF Guards
<1>3. /\ guard' = [guard EXCEPT ![r] = g] /\ UNCHANGED <<wall_clock, overlapped, set_back>>
      /\ bucket' = e /\ let_in' = let_in \cup {<<r, e.reset>>}
  BY <1>2 DEF save
<1> HIDE DEF g
<1>4. /\ guard' \in [Guarded -> Guards] /\ guard'[r] = g
      /\ \A s \in Guarded : s # r => guard'[s] = guard[s]
  BY <1>2, <1>3, GuardTo DEF RateIInv
<1>5. PICK w \in Nat : w = e.reset
  BY <1>1 DEF Entries
<1>6. /\ \A t : t # w => AdmittedUntil(t)' = AdmittedUntil(t)
      /\ AdmittedUntil(w)' = AdmittedUntil(w) \cup {r}
  BY <1>3, <1>5 DEF AdmittedUntil
<1>7. /\ \A t \in Nat : IsFiniteSet(AdmittedUntil(t)')
      /\ Cardinality(AdmittedUntil(w)) \in Nat
      /\ Cardinality(AdmittedUntil(w)') \in Nat
      /\ Cardinality(AdmittedUntil(w)') <= Cardinality(AdmittedUntil(w)) + 1
  <2> DEFINE A == AdmittedUntil(w)
  <2>1. \A t \in Nat : IsFiniteSet(AdmittedUntil(t))
    BY DEF RateIInv, RateTypes
  <2>2. IsFiniteSet(A) /\ Cardinality(A) \in Nat
    BY <2>1, FS_CardinalityType
  <2> HIDE DEF A
  <2>3. /\ IsFiniteSet(A \cup {r})
        /\ Cardinality(A \cup {r}) = Cardinality(A) \/ Cardinality(A \cup {r}) = Cardinality(A) + 1
    BY <2>2, FS_AddElement
  <2>4. AdmittedUntil(w)' = A \cup {r}
    BY <1>6 DEF A
  <2>5. \A t \in Nat : IsFiniteSet(AdmittedUntil(t)')
    BY <1>6, <2>1, <2>3, <2>4
  <2> QED
    BY <2>2, <2>3, <2>4, <2>5, SMT DEF A
<1>8. RateTypes'
  <2>1. bucket' # NoBucket /\ bucket' \in Entries
    BY <1>1, <1>3, SMT DEF NoBucket
  <2>2. \A s \in Guarded : guard'[s].at = "save" => guard'[s].entry.used >= 1
    BY <1>2, <1>4 DEF RateIInv, RateTypes
  <2>3. let_in' \subseteq Guarded \X Nat
    BY <1>1, <1>3, <1>5, SMT
  <2> QED
    BY <1>3, <1>4, <1>7, <2>1, <2>2, <2>3 DEF RateIInv, RateTypes
<1>9. InLimit'
  <2>1. set_back = 0 => e.used <= limit
    BY <1>1 DEF RateIInv, InLimit, WithinLimit
  <2>2. \A s \in Guarded : set_back' = 0 => WithinLimit(guard[s])'
    BY <1>2, <1>3, <1>4 DEF RateIInv, InLimit, WithinLimit
  <2> QED
    BY <1>3, <2>1, <2>2 DEF InLimit
<1>10. ASSUME ~overlapped' PROVE OneByOne'
  <2>1. OneByOne /\ \A s \in Guarded : s # r => ~Inside(s)
    BY <1>1, <1>3, <1>10 DEF RateIInv, OneByOne, Inside
  <2>2. \A s \in Guarded : ~Inside(s)'
    BY <1>2, <1>4, <2>1 DEF Inside
  <2>3. \A s \in Guarded : UpToDate(guard'[s], bucket', let_in')
    BY <2>2 DEF UpToDate, Inside
  <2>4. \/ w = bucket.reset /\ e.used = bucket.used + 1
        \/ \A x \in let_in : x[2] < w
    BY <1>1, <1>5, <2>1 DEF OneByOne, UpToDate
  <2>5. \A x \in let_in' : x[2] <= bucket'.reset
    <3> SUFFICES ASSUME NEW x \in let_in PROVE x[2] <= w
      BY <1>3, <1>5, SMT
    <3>1. x[2] \in Nat /\ x[2] <= bucket.reset
      BY <1>1, <2>1 DEF OneByOne
    <3> QED
      BY <1>5, <2>4, <3>1, SMT
  <2>6. Cardinality(AdmittedUntil(w)') <= e.used
    <3>1. CASE w = bucket.reset /\ e.used = bucket.used + 1
      <4>1. Cardinality(AdmittedUntil(w)) <= bucket.used
        BY <2>1, <3>1 DEF OneByOne
      <4> QED
        BY <1>1, <1>7, <3>1, <4>1, SMT DEF Entries
    <3>2. CASE \A x \in let_in : x[2] < w
      <4>1. AdmittedUntil(w) = {}
        BY <1>5, <3>2, SMT DEF AdmittedUntil
      <4> QED
        BY <1>1, <1>7, <4>1, FS_EmptySet, SMT DEF Entries
    <3> QED
      BY <2>4, <3>1, <3>2
  <2>7. Cardinality(AdmittedUntil(bucket.reset)') <= bucket'.used
    BY <1>3, <1>5, <2>6
  <2>8. ASSUME set_back' = 0, NEW t \in Nat PROVE Cardinality(AdmittedUntil(t)') <= limit
    <3>1. CASE t # w
      BY <1>3, <1>6, <2>1, <2>8, <3>1 DEF OneByOne
    <3>2. CASE t = w
      <4>1. e.used <= limit
        BY <1>1, <1>3, <2>8 DEF RateIInv, InLimit, WithinLimit
      <4> QED
        BY <1>1, <1>7, <2>6, <3>2, <4>1, RatelimitsAssumption, SMT DEF Entries
    <3> QED
      BY <3>1, <3>2
  <2> QED
    BY <2>2, <2>3, <2>5, <2>7, <2>8 DEF OneByOne
<1> QED
  BY <1>8, <1>9, <1>10 DEF RateIInv

LEMMA RatelimitsStepKeeps == RateIInv /\ [RatelimitsNext]_ratelimitVars => RateIInv'
<1> SUFFICES ASSUME RateIInv, [RatelimitsNext]_ratelimitVars PROVE RateIInv'
  OBVIOUS
<1>1. CASE TimePasses \/ SetBack
  BY <1>1, ClockKeeps
<1>2. CASE \E r \in Guarded : enter_guard(r) \/ CheckRemaining(r) \/ deduct(r)
  BY <1>2, EnterKeeps, RemainingKeeps, DeductKeeps
<1>3. CASE \E r \in Guarded : save(r) \/ on_response(r)
  BY <1>3, SaveKeeps, ResponseKeeps
<1>4. CASE UNCHANGED ratelimitVars
  <2>1. \A t : AdmittedUntil(t)' = AdmittedUntil(t)
    BY <1>4 DEF ratelimitVars, AdmittedUntil
  <2> QED
    BY <1>4, <2>1 DEF ratelimitVars, RateIInv, RateTypes, InLimit, WithinLimit, OneByOne, Inside
<1> QED
  BY <1>1, <1>2, <1>3, <1>4 DEF RatelimitsNext

LEMMA RatelimitsInitOK == RatelimitsInit => RateIInv
<1> SUFFICES ASSUME RatelimitsInit PROVE RateIInv
  OBVIOUS
<1>1. /\ NoBucket \in Entries /\ NoBucket.used = 0 /\ Outside \in Guards /\ Outside.at = "outside"
      /\ \A r \in Guarded : guard[r] = Outside
  BY DEF NoBucket, Entries, Outside, Guards, RatelimitsInit
<1>2. \A t : /\ AdmittedUntil(t) = {} /\ IsFiniteSet(AdmittedUntil(t))
             /\ Cardinality(AdmittedUntil(t)) = 0
  BY FS_EmptySet DEF RatelimitsInit, AdmittedUntil
<1>3. RateTypes
  BY <1>1, <1>2 DEF RatelimitsInit, RateTypes
<1>4. InLimit
  BY <1>1, RatelimitsAssumption, SMT DEF RatelimitsInit, InLimit, WithinLimit
<1>5. OneByOne
  BY <1>1, <1>2, RatelimitsAssumption, SMT DEF RatelimitsInit, OneByOne, Inside, UpToDate
<1> QED
  BY <1>3, <1>4, <1>5 DEF RateIInv

(* A bucket never counts more than its limit as long as the clock is not   *)
(* set back, and then admits no more requests in a window than its limit   *)
(* unless requests overlapped, for any limit, window and number of them.   *)
THEOREM LimitAlwaysHolds == RatelimitsSpec => []LimitHolds
<1>1. RateIInv => LimitHolds
  BY RatelimitsAssumption, SMT DEF RateIInv, InLimit, OneByOne, LimitHolds
<1> QED
  BY <1>1, RatelimitsInitOK, RatelimitsStepKeeps, PTL DEF RatelimitsSpec

(***************************************************************************)
(* The epoch of a channel.  While no call has failed, neither the cache nor  *)
(* what a purge is about to mirror into it is ahead of the database.       *)
(***************************************************************************)
EpochIInv ==
    /\ epoch \in Nat /\ cache \in Nat /\ failures \in Nat
    /\ new_epoch \in [Purges -> Nat]
    /\ failures = 0 =>
          /\ cache <= epoch
          /\ \A p \in Purges : new_epoch[p] <= epoch
          /\ \A d \in dropped : d[1] < d[2]

LEMMA EpochInitOK == EpochInit => EpochIInv
  BY SMT DEF EpochInit, EpochIInv

LEMMA BumpKeeps ==
    ASSUME EpochIInv, NEW p \in Purges, PurgeBump(p)
    PROVE  EpochIInv'
<1>1. CASE /\ epoch' = epoch + 1 /\ new_epoch' = [new_epoch EXCEPT ![p] = epoch']
           /\ failures' = failures /\ UNCHANGED <<cache, dropped>>
  BY <1>1, SMT DEF EpochIInv
<1>2. CASE Fail /\ new_epoch' = [new_epoch EXCEPT ![p] = 1] /\ UNCHANGED <<epoch, cache, dropped>>
  BY <1>2, SMT DEF EpochIInv, Fail
<1> QED
  BY <1>1, <1>2 DEF PurgeBump

LEMMA MirrorKeeps ==
    ASSUME EpochIInv, NEW p \in Purges, PurgeMirror(p)
    PROVE  EpochIInv'
<1>1. UNCHANGED <<epoch, new_epoch, dropped>>
  BY DEF PurgeMirror
<1>2. CASE cache' = new_epoch[p] /\ failures' = failures
  BY <1>1, <1>2 DEF EpochIInv
<1>3. CASE Fail /\ cache' = cache
  BY <1>1, <1>3, SMT DEF EpochIInv, Fail
<1> QED
  BY <1>2, <1>3 DEF PurgeMirror

LEMMA FilterKeeps ==
    ASSUME EpochIInv, NEW e \in Epochs, Filter(e)
    PROVE  EpochIInv'
<1>1. /\ e \in 0 .. epoch /\ e < cache /\ dropped' = dropped \cup {<<e, epoch>>}
      /\ UNCHANGED <<epoch, cache, new_epoch, failures>>
  BY DEF Filter
<1>2. ASSUME failures = 0, NEW d \in dropped' PROVE d[1] < d[2]
  <2>1. CASE d \in dropped
    BY <1>2, <2>1 DEF EpochIInv
  <2>2. CASE d = <<e, epoch>>
    BY <1>1, <1>2, <2>2, SMT DEF EpochIInv
  <2> QED
    BY <1>1, <2>1, <2>2
<1> QED
  BY <1>1, <1>2 DEF EpochIInv

(* The other steps leave the epochs alone. *)
LEMMA EpochRest ==
    ASSUME EpochIInv, UNCHANGED <<epoch, cache, new_epoch, dropped>>, failures' = failures \/ Fail
    PROVE  EpochIInv'
  BY SMT DEF EpochIInv, Fail

LEMMA EpochStepKeeps == EpochIInv /\ [EpochNext]_epochVars => EpochIInv'
<1> SUFFICES ASSUME EpochIInv, [EpochNext]_epochVars PROVE EpochIInv'
  OBVIOUS
<1>1. CASE \/ SendMessage \/ UNCHANGED epochVars
           \/ \E p \in Purges : PurgeDelete(p) \/ \E b \in 0 .. MaxId : PurgeFind(p, b)
  BY <1>1, EpochRest DEF SendMessage, epochVars, PurgeDelete, PurgeFind
<1> QED
  BY <1>1, BumpKeeps, MirrorKeeps, FilterKeeps DEF EpochNext

(* While the database answers, the drain filter drops only envelopes older
   than the channel's epoch, for any number of purges in any order
   (purge_before, drain_offline_queue). *)
THEOREM OnlyStaleEverDropped == EpochSpec => []OnlyStaleDropped
<1>1. EpochIInv => OnlyStaleDropped
  BY DEF EpochIInv, OnlyStaleDropped
<1> QED
  BY <1>1, EpochInitOK, EpochStepKeeps, PTL DEF EpochSpec

-----------------------------------------------------------------------------
(***************************************************************************)
(* The relay of direct messages.  A device that is in the audience of a    *)
(* relay is still to be gone through, was taken for online when it was     *)
(* listed, or has the message; and one that looks online in its turn       *)
(* looked so when it was listed, as time only passes.                      *)
(***************************************************************************)
RelayShape ==
    /\ now \in Nat
    /\ DOMAIN devices \subseteq Sessions
    /\ \A s \in DOMAIN devices : devices[s] \in Nat
    /\ DOMAIN inbox = Sessions /\ DOMAIN received = Sessions
    /\ DOMAIN relay = Messages /\ DOMAIN listed = Messages /\ DOMAIN audience = Messages

Listing(m) ==
    /\ relay[m] = "done" => DOMAIN listed[m] = {}
    /\ DOMAIN audience[m] \subseteq Sessions
    /\ \A s \in DOMAIN listed[m] :
          /\ listed[m][s] \in Nat
          /\ s \in DOMAIN audience[m] /\ IsOnline(listed[m][s]) => audience[m][s]

Reached(m) ==
    relay[m] # "idle" =>
        \A s \in DOMAIN audience[m] :
            s \in DOMAIN listed[m] \/ audience[m][s] \/ m \in inbox[s] \/ m \in received[s]

RelayIInv == RelayShape /\ \A m \in Messages : Listing(m) /\ Reached(m)

LEMMA PutFacts ==
    ASSUME NEW s \in Sessions, RelayShape, devices' = Put(devices, s)
    PROVE  DOMAIN devices' \subseteq Sessions /\ \A t \in DOMAIN devices' : devices'[t] \in Nat
BY DEF Put, RelayShape

(* Steps that touch neither the relays nor the queues. *)
LEMMA RelayQuiet ==
    ASSUME RelayIInv, UNCHANGED <<now, mail, relayVars, audience>>,
           DOMAIN devices' \subseteq Sessions, \A t \in DOMAIN devices' : devices'[t] \in Nat
    PROVE  RelayIInv'
<1>1. RelayShape'
  BY DEF RelayIInv, RelayShape, mail, relayVars
<1>2. ASSUME NEW m \in Messages PROVE Listing(m)' /\ Reached(m)'
  <2>1. Listing(m) /\ Reached(m)
    BY DEF RelayIInv
  <2> QED
    BY <2>1 DEF Listing, Reached, IsOnline, mail, relayVars
<1> QED
  BY <1>1, <1>2 DEF RelayIInv

LEMMA DevicesStepKeeps ==
    ASSUME RelayIInv, NEW s \in Sessions,
           \/ RegisterDevice(s) \/ EnforceCap(s) \/ EvictDone(s) \/ RegisterFails(s)
           \/ DrainList(s) \/ DrainGivesUp(s) \/ Subscribe(s)
           \/ RefreshRead(s) \/ RefreshWrite(s) \/ Disconnect(s)
    PROVE  RelayIInv'
<1>1. UNCHANGED <<now, mail, relayVars, audience>>
  BY DEF RegisterDevice, EnforceCap, EvictDone, RegisterFails, DrainList, DrainGivesUp,
         Subscribe, RefreshRead, RefreshWrite, Disconnect
<1>2. devices' = devices \/ devices' = Put(devices, s)
  BY DEF RegisterDevice, EnforceCap, EvictDone, RegisterFails, DrainList, DrainGivesUp,
         Subscribe, RefreshRead, RefreshWrite, Disconnect
<1>3. DOMAIN devices' \subseteq Sessions /\ \A t \in DOMAIN devices' : devices'[t] \in Nat
  BY <1>2, PutFacts DEF RelayIInv, RelayShape
<1> QED
  BY <1>1, <1>3, RelayQuiet

LEMMA TickKeeps ==
    ASSUME RelayIInv, RelayTick
    PROVE  RelayIInv'
<1>1. UNCHANGED <<registry, mail, relayVars, audience>> /\ now' = now + 1 /\ now \in Nat
  BY DEF RelayTick, RelayIInv, RelayShape
<1>2. RelayShape'
  <2>1. now' \in Nat
    BY <1>1, SMT
  <2> QED
    BY <1>1, <2>1 DEF RelayIInv, RelayShape, mail, relayVars, registry
<1>3. ASSUME NEW m \in Messages PROVE Listing(m)' /\ Reached(m)'
  <2>1. Listing(m) /\ Reached(m)
    BY <1>3 DEF RelayIInv
  <2>2. ASSUME NEW x \in Nat, IsOnline(x)' PROVE IsOnline(x)
    BY <1>1, <2>2, RelayAssumptions, SMT DEF IsOnline
  <2> QED
    BY <1>1, <2>1, <2>2 DEF Listing, Reached, mail, relayVars
<1> QED
  BY <1>2, <1>3 DEF RelayIInv

(* A device that loses messages leaves the audience of each. *)
LEMMA LosesKeeps ==
    ASSUME RelayIInv, NEW s \in Sessions, NEW ms, Loses(s, ms),
           UNCHANGED <<now, devices, relayVars>>,
           DOMAIN inbox' = Sessions, DOMAIN received' = Sessions,
           \A t \in Sessions \ {s} : inbox'[t] = inbox[t] /\ received'[t] = received[t],
           \A m \in Messages \ ms : m \in inbox[s] \/ m \in received[s] =>
                                      m \in inbox'[s] \/ m \in received'[s]
    PROVE  RelayIInv'
<1>1. RelayShape'
  BY DEF RelayIInv, RelayShape, Loses, relayVars
<1>2. ASSUME NEW m \in Messages PROVE Listing(m)' /\ Reached(m)'
  <2>1. Listing(m) /\ Reached(m)
    BY <1>2 DEF RelayIInv
  <2>2. /\ DOMAIN audience'[m] \subseteq DOMAIN audience[m]
        /\ \A t \in DOMAIN audience'[m] : audience'[m][t] = audience[m][t]
        /\ m \in ms => s \notin DOMAIN audience'[m]
    <3>1. audience'[m] = IF m \in ms THEN Del(audience[m], s) ELSE audience[m]
      BY <1>2 DEF Loses
    <3> QED
      BY <3>1 DEF Del, Restrict
  <2>3. UNCHANGED <<now, relay, listed>>
    BY DEF relayVars
  <2>4. Listing(m)'
    BY <2>1, <2>2, <2>3 DEF Listing, IsOnline
  <2>5. ASSUME NEW t \in DOMAIN audience'[m], m \in inbox[t] \/ m \in received[t]
        PROVE  m \in inbox'[t] \/ m \in received'[t]
    <3>1. t \in Sessions
      BY <2>1, <2>2 DEF Listing
    <3> QED
      BY <1>2, <2>2, <2>5, <3>1
  <2>6. Reached(m)'
    BY <2>1, <2>2, <2>3, <2>5 DEF Reached
  <2> QED
    BY <2>4, <2>6
<1> QED
  BY <1>1, <1>2 DEF RelayIInv

LEMMA DrainDelKeeps ==
    ASSUME RelayIInv, NEW s \in Sessions, DrainDel(s)
    PROVE  RelayIInv'
<1>1. PICK sent \in SUBSET reading[s] :
        /\ received' = [received EXCEPT ![s] = @ \cup sent]
        /\ Loses(s, (inbox[s] \cup reading[s]) \ sent)
  BY DEF DrainDel
<1>2. /\ inbox' = [inbox EXCEPT ![s] = {}]
      /\ UNCHANGED <<now, devices, relayVars>>
  BY DEF DrainDel
<1>3. DOMAIN inbox = Sessions /\ DOMAIN received = Sessions
  BY DEF RelayIInv, RelayShape
<1>4. /\ DOMAIN inbox' = Sessions /\ DOMAIN received' = Sessions
      /\ \A t \in Sessions \ {s} : inbox'[t] = inbox[t] /\ received'[t] = received[t]
      /\ received'[s] = received[s] \cup sent
  BY <1>1, <1>2, <1>3
<1>5. \A m \in Messages \ ((inbox[s] \cup reading[s]) \ sent) :
        m \in inbox[s] \/ m \in received[s] => m \in inbox'[s] \/ m \in received'[s]
  BY <1>4
<1> QED
  BY <1>1, <1>2, <1>4, <1>5, LosesKeeps

LEMMA ExpireInboxKeeps ==
    ASSUME RelayIInv, NEW s \in Sessions, ExpireInbox(s)
    PROVE  RelayIInv'
<1>1. /\ inbox' = [inbox EXCEPT ![s] = {}] /\ Loses(s, inbox[s])
      /\ UNCHANGED <<now, devices, received, relayVars>>
  BY DEF ExpireInbox, registry
<1>2. DOMAIN inbox = Sessions /\ DOMAIN received = Sessions
  BY DEF RelayIInv, RelayShape
<1>3. DOMAIN inbox' = Sessions /\ \A t \in Sessions \ {s} : inbox'[t] = inbox[t]
  BY <1>1, <1>2
<1> QED
  BY <1>1, <1>2, <1>3, LosesKeeps

(* A device that is removed leaves the audience of every relay. *)
LEMMA UndockKeeps ==
    ASSUME RelayIInv, NEW v \in Sessions, Undock(v), UNCHANGED <<now, received, relay, listed>>
    PROVE  RelayIInv'
<1>1. /\ devices' = Del(devices, v) /\ inbox' = [inbox EXCEPT ![v] = {}]
      /\ audience' = [m \in Messages |-> Del(audience[m], v)]
  BY DEF Undock
<1>2. RelayShape'
  <2>1. DOMAIN devices' \subseteq Sessions /\ \A t \in DOMAIN devices' : devices'[t] \in Nat
    BY <1>1 DEF RelayIInv, RelayShape, Del, Restrict
  <2> QED
    BY <1>1, <2>1 DEF RelayIInv, RelayShape
<1>3. ASSUME NEW m \in Messages PROVE Listing(m)' /\ Reached(m)'
  <2>1. Listing(m) /\ Reached(m)
    BY <1>3 DEF RelayIInv
  <2>2. /\ DOMAIN audience'[m] = DOMAIN audience[m] \ {v}
        /\ \A t \in DOMAIN audience'[m] : audience'[m][t] = audience[m][t]
    BY <1>1, <1>3 DEF Del, Restrict
  <2>3. \A t \in Sessions \ {v} : inbox'[t] = inbox[t]
    BY <1>1 DEF RelayIInv, RelayShape
  <2>4. Listing(m)'
    BY <2>1, <2>2 DEF Listing, IsOnline
  <2>5. Reached(m)'
    BY <2>1, <2>2, <2>3 DEF Reached, Listing
  <2> QED
    BY <2>4, <2>5
<1> QED
  BY <1>2, <1>3 DEF RelayIInv

LEMMA RelayListKeeps ==
    ASSUME RelayIInv, NEW m \in Messages, RelayList(m)
    PROVE  RelayIInv'
<1> DEFINE alive == {s \in Known : ~IsStale(devices[s])}
<1>1. /\ relay' = [relay EXCEPT ![m] = "listed"]
      /\ listed' = [listed EXCEPT ![m] = Restrict(devices, alive)]
      /\ audience' = [audience EXCEPT ![m] = [s \in alive |-> IsOnline(devices[s])]]
      /\ UNCHANGED <<now, registry, mail>>
  BY DEF RelayList
<1>2. RelayShape'
  BY <1>1 DEF RelayIInv, RelayShape, registry, mail
<1>3. /\ alive \subseteq DOMAIN devices /\ alive \subseteq Sessions
      /\ \A s \in alive : devices[s] \in Nat
  BY DEF Known, RelayIInv, RelayShape
<1> HIDE DEF alive
<1>4. /\ relay'[m] = "listed" /\ DOMAIN listed'[m] = alive /\ DOMAIN audience'[m] = alive
      /\ \A s \in alive : listed'[m][s] = devices[s] /\ audience'[m][s] = IsOnline(devices[s])
  BY <1>1 DEF RelayIInv, RelayShape, Restrict
<1>5. Listing(m)' /\ Reached(m)'
  <2>1. \A x : IsOnline(x)' = IsOnline(x)
    BY <1>1 DEF IsOnline
  <2>2. Listing(m)'
    BY <1>3, <1>4, <2>1 DEF Listing, IsOnline
  <2> QED
    BY <1>4, <2>2 DEF Reached
<1>6. ASSUME NEW n \in Messages \ {m} PROVE Listing(n)' /\ Reached(n)'
  <2>1. Listing(n) /\ Reached(n)
    BY <1>6 DEF RelayIInv
  <2>2. relay'[n] = relay[n] /\ listed'[n] = listed[n] /\ audience'[n] = audience[n]
    BY <1>1, <1>6 DEF RelayIInv, RelayShape
  <2> QED
    BY <1>1, <2>1, <2>2 DEF Listing, Reached, IsOnline, mail
<1> QED
  BY <1>2, <1>5, <1>6 DEF RelayIInv

LEMMA TurnKeeps ==
    ASSUME RelayIInv, NEW m \in Messages, NEW s \in Sessions, QueueIfSilent(m, s) \/ QueueRefused(m, s)
    PROVE  RelayIInv'
<1>1. /\ relay[m] = "listed" /\ s \in DOMAIN listed[m]
      /\ listed' = [listed EXCEPT ![m] = Del(@, s)]
      /\ UNCHANGED <<now, registry, received, relay>>
  BY DEF QueueIfSilent, QueueRefused, RelayTurn
<1>2. DOMAIN inbox' = Sessions /\ \A t \in Sessions : inbox[t] \subseteq inbox'[t]
  BY DEF QueueIfSilent, QueueRefused, RelayIInv, RelayShape
<1>3. DOMAIN audience' = Messages /\ \A n \in Messages \ {m} : audience'[n] = audience[n]
  BY DEF QueueIfSilent, QueueRefused, RelayIInv, RelayShape
<1>4. /\ DOMAIN audience'[m] \subseteq DOMAIN audience[m]
      /\ \A t \in DOMAIN audience'[m] : audience'[m][t] = audience[m][t]
  <2>1. CASE QueueIfSilent(m, s)
    BY <2>1 DEF QueueIfSilent
  <2>2. CASE QueueRefused(m, s)
    <3>1. audience'[m] = Del(audience[m], s)
      BY <2>2 DEF QueueRefused, RelayIInv, RelayShape
    <3> QED
      BY <3>1 DEF Del, Restrict
  <2> QED
    BY <2>1, <2>2
<1>5. s \in DOMAIN audience'[m] => audience'[m][s] \/ m \in inbox'[s]
  <2>1. CASE QueueRefused(m, s)
    BY <2>1 DEF QueueRefused, RelayIInv, RelayShape, Del, Restrict
  <2>2. CASE QueueIfSilent(m, s) /\ IsOnline(listed[m][s])
    BY <1>1, <2>2 DEF QueueIfSilent, RelayIInv, Listing
  <2>3. CASE QueueIfSilent(m, s) /\ ~IsOnline(listed[m][s])
    BY <2>3 DEF QueueIfSilent, RelayIInv, RelayShape
  <2> QED
    BY <2>1, <2>2, <2>3
<1>6. /\ DOMAIN listed' = Messages /\ \A n \in Messages \ {m} : listed'[n] = listed[n]
      /\ DOMAIN listed'[m] = DOMAIN listed[m] \ {s}
      /\ \A t \in DOMAIN listed'[m] : listed'[m][t] = listed[m][t]
  BY <1>1 DEF RelayIInv, RelayShape, Del, Restrict
<1>7. RelayShape'
  BY <1>1, <1>2, <1>3, <1>6 DEF RelayIInv, RelayShape, registry
<1>8. ASSUME NEW n \in Messages PROVE Listing(n)' /\ Reached(n)'
  <2>1. Listing(n) /\ Reached(n)
    BY <1>8 DEF RelayIInv
  <2>2. CASE n = m
    <3>1. Listing(m)'
      BY <1>1, <1>4, <1>6, <2>1, <2>2 DEF Listing, IsOnline
    <3>2. Reached(m)'
      BY <1>1, <1>2, <1>4, <1>5, <1>6, <2>1, <2>2 DEF Listing, Reached
    <3> QED
      BY <2>2, <3>1, <3>2
  <2>3. CASE n # m
    BY <1>1, <1>2, <1>3, <1>6, <2>1, <2>3 DEF Listing, Reached, IsOnline
  <2> QED
    BY <2>2, <2>3
<1> QED
  BY <1>7, <1>8 DEF RelayIInv

LEMMA PublishKeeps ==
    ASSUME RelayIInv, NEW m \in Messages, RelayPublish(m)
    PROVE  RelayIInv'
<1>1. /\ relay[m] = "listed" /\ DOMAIN listed[m] = {}
      /\ relay' = [relay EXCEPT ![m] = "done"]
      /\ DOMAIN received' = Sessions
      /\ \A s \in Sessions : received[s] \subseteq received'[s]
      /\ UNCHANGED <<now, registry, inbox, listed, prune, audience>>
  BY DEF RelayPublish
<1>2. relay'[m] = "done" /\ \A n \in Messages \ {m} : relay'[n] = relay[n]
  BY <1>1 DEF RelayIInv, RelayShape
<1>3. RelayShape'
  BY <1>1 DEF RelayIInv, RelayShape, registry
<1>4. ASSUME NEW n \in Messages PROVE Listing(n)' /\ Reached(n)'
  <2>1. Listing(n) /\ Reached(n)
    BY <1>4 DEF RelayIInv
  <2>2. relay'[n] = "done" => DOMAIN listed[n] = {}
    BY <1>1, <1>2, <2>1 DEF Listing
  <2>3. Listing(n)'
    BY <1>1, <2>1, <2>2 DEF Listing, IsOnline
  <2>4. relay'[n] # "idle" => relay[n] # "idle"
    BY <1>1, <1>2
  <2> QED
    BY <1>1, <2>1, <2>3, <2>4 DEF Reached, Listing
<1> QED
  BY <1>3, <1>4 DEF RelayIInv

(* For any devices and messages, and however a relay interleaves with the
   devices' reconnects, drains and heartbeats: a device that relay_dm_message
   listed past its heartbeat has the message queued or was sent it, unless it
   was removed since or lost the message in one of the ways Loses names. *)
THEOREM SilentDevicesAlwaysReached == DmSpec => []SilentDevicesReached
<1>1. DmInit => RelayIInv
  <2> SUFFICES ASSUME DmInit PROVE RelayIInv
    OBVIOUS
  <2>1. RelayShape
    BY DEF DmInit, RelayShape, Empty
  <2>2. \A m \in Messages : Listing(m) /\ Reached(m)
    BY DEF DmInit, Listing, Reached, Empty
  <2> QED
    BY <2>1, <2>2 DEF RelayIInv
<1>2. RelayIInv /\ [DmNext]_dmVars => RelayIInv'
  <2> SUFFICES ASSUME RelayIInv, [DmNext]_dmVars PROVE RelayIInv'
    OBVIOUS
  <2>1. ASSUME NEW s \in Sessions, NEW v \in Sessions, Evict(s, v) PROVE RelayIInv'
    BY <2>1, UndockKeeps DEF Evict, relayVars
  <2>2. ASSUME NEW s \in Sessions, ForgetDevice(s) PROVE RelayIInv'
    BY <2>2, UndockKeeps DEF ForgetDevice, relayVars
  <2>3. ASSUME NEW s \in Sessions, NEW m \in Messages, Prune(m, s) PROVE RelayIInv'
    BY <2>3, UndockKeeps DEF Prune
  <2>4. CASE UNCHANGED dmVars
    BY <2>4, RelayQuiet DEF dmVars, registry, RelayIInv, RelayShape
  <2> QED
    BY <2>1, <2>2, <2>3, <2>4, DevicesStepKeeps, TickKeeps, DrainDelKeeps,
       ExpireInboxKeeps, RelayListKeeps, TurnKeeps, PublishKeeps DEF DmNext
<1>3. RelayIInv => SilentDevicesReached
  BY DEF RelayIInv, Listing, Reached, SilentDevicesReached
<1> QED
  BY <1>1, <1>2, <1>3, PTL DEF DmSpec

-----------------------------------------------------------------------------
(***************************************************************************)
(* Codes of e-mail MFA.  A code that is unused was never accepted, and     *)
(* verify_mfa_code picks an unused one: the newest, which exists because   *)
(* there is a largest in every set of indexes.                             *)
(***************************************************************************)
LEMMA LeastNat ==
    ASSUME NEW T, T \subseteq Nat, T # {}
    PROVE  \E x \in T : \A y \in T : x <= y
<1> DEFINE R == {ss \in Nat \X Nat : ss[1] < ss[2]}
<1>1. IsWellFoundedOn(R, Nat)
  <2>1. R = OpToRel(<, Nat)
    BY DEF OpToRel
  <2> QED
    BY <2>1, NatLessThanWellFounded
<1> HIDE DEF R
<1>2. PICK x \in T : \A y \in T : ~(<<y, x>> \in R)
  BY <1>1, WFMin
<1>3. \A y \in T : ~(y < x)
  BY <1>2 DEF R
<1> QED
  BY <1>3, SMT

LEMMA GreatestIndex ==
    ASSUME NEW T, NEW n \in Nat, T \subseteq 1 .. n, T # {}
    PROVE  \E x \in T : \A y \in T : y <= x
<1> DEFINE U == {n - x : x \in T}
<1>1. U \subseteq Nat
  BY SMT
<1>2. U # {}
  OBVIOUS
<1>3. PICK u \in U : \A v \in U : u <= v
  <2> HIDE DEF U
  <2> QED
    BY <1>1, <1>2, LeastNat
<1>4. PICK x \in T : u = n - x
  OBVIOUS
<1>5. \A y \in T : n - y \in U
  OBVIOUS
<1>6. \A y \in T : n - x <= n - y
  BY <1>3, <1>4, <1>5
<1> QED
  BY <1>6, SMT

Code == [created : Nat, attempts : Nat, used : BOOLEAN]

WonOnce(c, w) ==
    /\ Len(w) <= 1 /\ (~c.used => w = <<>>)
    /\ \A k \in DOMAIN w : w[k] <= c.created + EMAIL_MFA_CODE_TTL

CodesIInv ==
    /\ clock \in Nat
    /\ codes \in Seq(Code) /\ wins \in Seq(Seq(Nat)) /\ Len(wins) = Len(codes)
    /\ \A i \in DOMAIN codes : WonOnce(codes[i], wins[i])

LEMMA CodesInitOK == SignerInit => CodesIInv
  BY SMT DEF SignerInit, CodesIInv

LEMMA CodesSame ==
    ASSUME CodesIInv, UNCHANGED <<codes, wins>>, clock' = clock \/ clock' = clock + 1
    PROVE  CodesIInv'
  BY SMT DEF CodesIInv, WonOnce

LEMMA NotWon == \A c : WonOnce(c, <<>>)
  BY SMT DEF WonOnce

LEMMA StoreKeeps ==
    ASSUME CodesIInv, NEW w \in Workers, store_mfa_code(w)
    PROVE  CodesIInv'
<1> DEFINE c == [created |-> clock, attempts |-> 0, used |-> FALSE]
<1>1. codes' = Append(codes, c) /\ wins' = Append(wins, <<>>) /\ clock' = clock
  BY DEF store_mfa_code
<1>2. c \in Code /\ WonOnce(c, <<>>)
  <2>1. clock \in Nat
    BY DEF CodesIInv
  <2>2. c \in Code
    BY <2>1, SMT DEF Code
  <2> QED
    BY <2>2, NotWon
<1> HIDE DEF c
<1>3. codes \in Seq(Code) /\ wins \in Seq(Seq(Nat)) /\ Len(wins) = Len(codes)
  BY DEF CodesIInv
<1>4. /\ codes' \in Seq(Code) /\ Len(codes') = Len(codes) + 1
      /\ \A i \in DOMAIN codes' : codes'[i] = IF i = Len(codes) + 1 THEN c ELSE codes[i]
      /\ \A i \in DOMAIN codes' : i = Len(codes) + 1 \/ i \in DOMAIN codes
  BY <1>1, <1>2, <1>3, SMT
<1>5. /\ wins' \in Seq(Seq(Nat)) /\ Len(wins') = Len(codes')
      /\ \A i \in DOMAIN codes' : wins'[i] = IF i = Len(codes) + 1 THEN <<>> ELSE wins[i]
  BY <1>1, <1>3, <1>4, SMT
<1>6. \A i \in DOMAIN codes' : WonOnce(codes'[i], wins'[i])
  BY <1>2, <1>4, <1>5 DEF CodesIInv
<1> QED
  BY <1>1, <1>4, <1>5, <1>6 DEF CodesIInv, WonOnce

(* One code is written, with what was won with it. *)
LEMMA CodeWritten ==
    ASSUME CodesIInv, NEW n \in DOMAIN codes, NEW c \in Code, NEW w \in Seq(Nat), WonOnce(c, w),
           codes' = [codes EXCEPT ![n] = c], wins' = [wins EXCEPT ![n] = w], clock' = clock
    PROVE  CodesIInv'
<1>1. codes \in Seq(Code) /\ wins \in Seq(Seq(Nat)) /\ Len(wins) = Len(codes)
  BY DEF CodesIInv
<1>2. /\ codes' \in Seq(Code) /\ Len(codes') = Len(codes) /\ DOMAIN codes' = DOMAIN codes
      /\ codes'[n] = c /\ \A i \in DOMAIN codes : i # n => codes'[i] = codes[i]
  BY <1>1, SMT
<1>3. /\ wins' \in Seq(Seq(Nat)) /\ Len(wins') = Len(wins)
      /\ wins'[n] = w /\ \A i \in DOMAIN codes : i # n => wins'[i] = wins[i]
  BY <1>1, SMT
<1>4. \A i \in DOMAIN codes' : WonOnce(codes'[i], wins'[i])
  BY <1>2, <1>3 DEF CodesIInv
<1> QED
  BY <1>1, <1>2, <1>3, <1>4 DEF CodesIInv, WonOnce

LEMMA NewestUnused ==
    ASSUME CodesIInv, Unused # {}
    PROVE  Newest \in DOMAIN codes /\ ~codes[Newest].used
<1>1. Len(codes) \in Nat /\ Unused \subseteq 1 .. Len(codes)
  BY SMT DEF CodesIInv, Unused
<1>2. \E x \in Unused : \A y \in Unused : y <= x
  BY <1>1, GreatestIndex
<1>3. Newest \in Unused
  BY <1>2 DEF Newest
<1> QED
  BY <1>3 DEF Unused

LEMMA WonNow ==
    ASSUME NEW c, c.used, NEW t, t <= c.created + EMAIL_MFA_CODE_TTL
    PROVE  WonOnce(c, <<t>>)
  BY SMT DEF WonOnce

LEMMA AttemptedIs ==
    ASSUME NEW c \in Code, NEW right \in BOOLEAN
    PROVE  /\ Attempted(c, right) \in Code
           /\ Attempted(c, right).created = c.created /\ Attempted(c, right).used = right
<1> DEFINE d == [c EXCEPT !.attempts = @ + 1]
<1>1. d \in Code /\ d.created = c.created
  BY SMT DEF Code
<1>2. Attempted(c, right) = [d EXCEPT !.used = right]
  BY DEF Attempted
<1> HIDE DEF d
<1> QED
  BY <1>1, <1>2 DEF Code

LEMMA VerifyKeeps ==
    ASSUME CodesIInv, NEW w, NEW i, NEW next, verify_mfa_code(w, i, next)
    PROVE  CodesIInv'
<1>1. PICK n \in DOMAIN codes : n = Newest /\ ~codes[n].used
  BY NewestUnused DEF verify_mfa_code
<1>2. /\ wins \in Seq(Seq(Nat)) /\ n \in DOMAIN wins /\ wins[n] = <<>>
      /\ clock \in Nat /\ EMAIL_MFA_CODE_TTL \in Nat /\ clock' = clock
  <2>1. /\ wins \in Seq(Seq(Nat)) /\ Len(wins) = Len(codes) /\ codes \in Seq(Code)
        /\ WonOnce(codes[n], wins[n]) /\ clock \in Nat
    BY <1>1 DEF CodesIInv
  <2>2. DOMAIN wins = DOMAIN codes
    BY <2>1, SMT
  <2>3. wins[n] = <<>>
    BY <1>1, <2>1 DEF WonOnce
  <2>4. clock' = clock
    BY DEF verify_mfa_code
  <2>5. EMAIL_MFA_CODE_TTL \in Nat
    BY SignerAssumption
  <2> QED
    BY <1>1, <2>1, <2>2, <2>3, <2>4, <2>5
<1>3. PICK c \in Code : c = codes[n]
  BY <1>1, SMT DEF CodesIInv
<1>4. \/ /\ codes' = [codes EXCEPT ![n].used = TRUE] /\ wins' = wins
      \/ /\ ~Expired(n) /\ wins' = (IF i = n THEN [wins EXCEPT ![n] = Append(@, clock)] ELSE wins)
         /\ codes' = [codes EXCEPT ![n] = Attempted(@, i = n)]
  BY <1>1 DEF verify_mfa_code
<1>5. CASE codes' = [codes EXCEPT ![n].used = TRUE] /\ wins' = wins
  <2> DEFINE d == [c EXCEPT !.used = TRUE]
  <2>1. d \in Code
    BY DEF Code
  <2>2. codes' = [codes EXCEPT ![n] = d]
    BY <1>3, <1>5
  <2>3. wins' = [wins EXCEPT ![n] = <<>>]
    BY <1>2, <1>5, SMT
  <2>4. <<>> \in Seq(Nat)
    BY SMT
  <2> HIDE DEF d
  <2> QED
    BY <1>2, <2>1, <2>2, <2>3, <2>4, NotWon, CodeWritten
<1>6. CASE /\ ~Expired(n) /\ wins' = (IF i = n THEN [wins EXCEPT ![n] = Append(@, clock)] ELSE wins)
           /\ codes' = [codes EXCEPT ![n] = Attempted(@, i = n)]
  <2> DEFINE right == i = n
             d == Attempted(c, right)
             v == IF i = n THEN <<clock>> ELSE <<>>
  <2>1. codes' = [codes EXCEPT ![n] = d]
    BY <1>3, <1>6
  <2>2. wins' = [wins EXCEPT ![n] = v]
    <3>1. CASE i = n
      BY <1>2, <1>6, <3>1, SMT
    <3>2. CASE i # n
      BY <1>2, <1>6, <3>2, SMT
    <3> QED
      BY <3>1, <3>2
  <2>3. d \in Code /\ d.created = c.created /\ d.used = right
    <3>1. right \in BOOLEAN
      OBVIOUS
    <3> HIDE DEF right
    <3> QED
      BY <3>1, AttemptedIs
  <2>4. clock <= c.created + EMAIL_MFA_CODE_TTL
    <3>1. c.created \in Nat
      BY DEF Code
    <3>2. ~(clock > c.created + EMAIL_MFA_CODE_TTL)
      BY <1>3, <1>6 DEF Expired
    <3> QED
      BY <1>2, <3>1, <3>2, SMT
  <2> HIDE DEF d
  <2>5. v \in Seq(Nat) /\ WonOnce(d, v)
    <3>1. CASE i = n
      <4>1. v = <<clock>> /\ d.used
        BY <3>1, <2>3
      <4>2. v \in Seq(Nat)
        BY <1>2, <4>1, SMT
      <4> QED
        BY <2>3, <2>4, <4>1, <4>2, WonNow
    <3>2. CASE i # n
      BY <3>2, NotWon, SMT
    <3> QED
      BY <3>1, <3>2
  <2> HIDE DEF v
  <2> QED
    BY <1>2, <2>1, <2>2, <2>3, <2>5, CodeWritten
<1> QED
  BY <1>4, <1>5, <1>6

LEMMA CodesStepKeeps == CodesIInv /\ [SignerNext]_signerVars => CodesIInv'
<1> SUFFICES ASSUME CodesIInv, [SignerNext]_signerVars PROVE CodesIInv'
  OBVIOUS
<1>1. CASE UNCHANGED signerVars
  BY <1>1, CodesSame DEF signerVars
<1>2. CASE TokensNext
  BY <1>2, CodesSame DEF TokensNext, SignerTick, token, claim, insert_claim_and_update_token,
     migrate_json_to_sqlite
<1>3. CASE CodesNext
  <2>1. CASE \E w \in Workers : store_mfa_code(w)
    BY <2>1, StoreKeeps
  <2>2. CASE \E w \in Workers : email_mfa_enable_verify(w) \/ email_mfa_challenge_verify(w)
    BY <2>2, VerifyKeeps DEF email_mfa_enable_verify, email_mfa_challenge_verify
  <2>3. CASE \/ SignerTick \/ email_mfa_disable \/ migrate_json_to_sqlite
             \/ \E w \in Workers : email_mfa_enable(w) \/ email_mfa_challenge(w) \/ Enable(w)
    BY <2>3, CodesSame DEF SignerTick, email_mfa_disable, migrate_json_to_sqlite, email_mfa_enable,
       email_mfa_challenge, Enable
  <2> QED
    BY <1>3, <2>1, <2>2, <2>3 DEF CodesNext
<1> QED
  BY <1>1, <1>2, <1>3 DEF SignerNext

(* A code of e-mail MFA is accepted at most once and in its time to live, for
   any number of codes, workers and restarts (verify_mfa_code of app.py). *)
THEOREM CodeAlwaysWinsOnce == SignerSpec => []CodeWinsOnce
<1>1. CodesIInv => CodeWinsOnce
  BY SMT DEF CodesIInv, WonOnce, CodeWinsOnce, Code
<1> QED
  BY <1>1, CodesInitOK, CodesStepKeeps, PTL DEF SignerSpec

=============================================================================

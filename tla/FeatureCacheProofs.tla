------------------------- MODULE FeatureCacheProofs -------------------------
(***************************************************************************)
(* Theorems of FrozenFeatureCache, for any cards, tiers, batches, threads  *)
(* and reservations, under FeatureCacheAssumption; of SqliteFeatureStore,  *)
(* for any stores, cards, rows and offers, under StoreAssumption; and of   *)
(* FeatureSlab under every slot policy, for any capacity, cards, rows and  *)
(* offers, under SlotPolicyAssumption and FeatureSlabAssumption, with the  *)
(* step by step proof that it implements FeatureTier.  The last two count  *)
(* rows, a sum over a set of keys, and go through an offer key by key:     *)
(* both are recursive functions, and what they are is found by induction,  *)
(* here always through the smallest counterexample.                        *)
(***************************************************************************)
EXTENDS FrozenFeatureCache, SqliteFeatureStore, FeatureSlab, FiniteSetTheorems,
        WellFoundedInduction, TLAPS

-----------------------------------------------------------------------------
(* Counting.                                                               *)

(* how a count changes when at most one element comes or goes              *)
LEMMA Recount ==
    ASSUME NEW S, IsFiniteSet(S), NEW T, NEW x, S \ {x} = T \ {x}
    PROVE  /\ IsFiniteSet(T)
           /\ Cardinality(S) \in Nat /\ Cardinality(T) \in Nat
           /\ x \in S /\ x \in T => Cardinality(T) = Cardinality(S)
           /\ x \notin S /\ x \notin T => Cardinality(T) = Cardinality(S)
           /\ x \in S /\ x \notin T => Cardinality(T) + 1 = Cardinality(S)
           /\ x \notin S /\ x \in T => Cardinality(T) = Cardinality(S) + 1
<1> DEFINE R == S \ {x}
<1>1. IsFiniteSet(R) /\ Cardinality(R) = IF x \in S THEN Cardinality(S) - 1 ELSE Cardinality(S)
  BY FS_RemoveElement
<1>2. x \notin R
  OBVIOUS
<1>3. /\ IsFiniteSet(R \cup {x}) /\ Cardinality(R \cup {x}) = Cardinality(R) + 1
      /\ Cardinality(R) \in Nat
  BY <1>1, <1>2, FS_AddElement, FS_CardinalityType
<1>4. CASE x \in T
  <2>1. T = R \cup {x}
    BY <1>4
  <2> QED
    BY <2>1, <1>1, <1>3, <1>4, FS_CardinalityType
<1>5. CASE x \notin T
  <2>1. T = R
    BY <1>5
  <2> QED
    BY <2>1, <1>1, <1>3, <1>5, FS_CardinalityType
<1> QED
  BY <1>4, <1>5

LEMMA TiersAreAnInterval ==
    ASSUME FeatureCacheAssumption
    PROVE  /\ Len(Capacities) \in Nat /\ Tiers = 1..Len(Capacities)
           /\ 1 \in Tiers /\ MemoryTiers \subseteq Tiers
  BY DEF FeatureCacheAssumption, Tiers, MemoryTiers

-----------------------------------------------------------------------------
(* Types.                                                                  *)

LEMMA BegunType ==
    ASSUME FeatureCacheAssumption, NEW keys \in SUBSET Keys, NEW step \in Steps,
           NEW kind \in {"features", "reserve", "release"}
    PROVE  Idle \in Call /\ Begun(kind, step, keys) \in Call
  BY TiersAreAnInterval DEF Idle, Begun, Call, Steps

LEMMA OutcomesType ==
    ASSUME TypeOK, NEW t \in Tiers, NEW offer \in SUBSET Keys, NEW durable \in BOOLEAN,
           NEW after \in Outcomes(t, offer, durable)
    PROVE  /\ after \in SUBSET Keys
           /\ held[t] \cap Pinned(t) \subseteq after
<1>0. held[t] \in SUBSET Keys /\ Pinned(t) \subseteq Keys
  BY DEF TypeOK, Pinned
<1>1. \A pinned, o, capacity : \A a \in PutOutcomes(held[t], pinned, o, capacity) :
        a \subseteq held[t] \cup o /\ held[t] \cap pinned \subseteq a
  BY <1>0 DEF PutOutcomes
<1> QED
  BY <1>0, <1>1 DEF Outcomes

(* the disk tier evicts nothing                                            *)
LEMMA DiskOutcomes ==
    ASSUME TypeOK, NEW t \in Tiers \ MemoryTiers, NEW offer, NEW durable,
           NEW after \in Outcomes(t, offer, durable)
    PROVE  held[t] \subseteq after
  BY DEF TypeOK, Outcomes, PutOutcomes

LEMMA PastTierType ==
    ASSUME FeatureCacheAssumption, NEW c \in Call
    PROVE  PastTier(c) \in Call
<1>1. c.tier < Len(Capacities) => c.tier + 1 \in Tiers
  BY TiersAreAnInterval DEF Call
<1> QED
  BY <1>1 DEF PastTier, Call, Steps

LEMMA GoesType ==
    ASSUME call \in [Threads -> Call], NEW th \in Threads, NEW next \in Call, Goes(th, next)
    PROVE  call' \in [Threads -> Call]
  BY DEF Goes

LEMMA TypeInit ==
    ASSUME FeatureCacheAssumption, Init
    PROVE  TypeOK
  BY BegunType DEF Init, TypeOK, Steps

LEMMA TypeStep ==
    ASSUME FeatureCacheAssumption, TypeOK, [Next]_vars
    PROVE  TypeOK'
<1>0. \A th \in Threads : call[th] \in Call
  BY DEF TypeOK
<1>1. ASSUME NEW th \in Threads, NEW batch \in Batches, Features(th, batch)
      PROVE  TypeOK'
  <2>1. batch \in SUBSET Keys
    BY DEF FeatureCacheAssumption
  <2>2. Begun("features", "lookup", batch) \in Call
    BY <2>1, BegunType DEF Steps
  <2> QED
    BY <1>1, <2>2, GoesType DEF Features, TypeOK
<1>2. ASSUME NEW th \in Threads, NEW batch \in Batches, Reserve(th, batch)
      PROVE  TypeOK'
  <2>1. batch \ Stamped \in SUBSET Keys
    BY DEF FeatureCacheAssumption
  <2>2. Begun("reserve", FirstStepOfReserve, batch \ Stamped) \in Call
    BY <2>1, BegunType DEF Steps, FirstStepOfReserve
  <2> QED
    BY <1>2, <2>2, GoesType DEF Reserve, TypeOK
<1>3. ASSUME NEW th \in Threads, NEW r \in outstanding, Release(th, r)
      PROVE  TypeOK'
  <2>1. r.keys \in SUBSET Keys
    BY DEF TypeOK, Reservation
  <2>2. Begun("release", "unpin", r.keys) \in Call
    BY <2>1, BegunType DEF Steps
  <2> QED
    BY <1>3, <2>2, GoesType DEF Release, Claimed, TypeOK
<1>4. ASSUME NEW th \in Threads, Pin(th)
      PROVE  TypeOK'
  <2> DEFINE c == call[th]
  <2>1. c \in Call /\ c.tier \in Tiers /\ c.keys \in SUBSET Keys
    BY <1>0 DEF Call
  <2>2. c.tier < Len(Capacities) => c.tier + 1 \in Tiers
    BY <2>1, TiersAreAnInterval
  <2>3. (IF c.tier < Len(Capacities) THEN [c EXCEPT !.tier = @ + 1]
         ELSE [c EXCEPT !.step = "lookup", !.tier = 1]) \in Call
    BY <2>1, <2>2, TiersAreAnInterval DEF Call, Steps
  <2>4. call' \in [Threads -> Call]
    BY <1>4, <2>3, GoesType DEF Pin, TypeOK
  <2>5. pins' \in [Tiers -> [Keys -> Nat]]
    <3>1. pins \in [Tiers -> [Keys -> Nat]]
      BY DEF TypeOK
    <3>2. [k \in Keys |-> pins[c.tier][k] + (IF k \in c.keys THEN 1 ELSE 0)] \in [Keys -> Nat]
      BY <2>1, <3>1
    <3> QED
      BY <1>4, <3>1, <3>2 DEF Pin
  <2> QED
    BY <1>4, <2>4, <2>5 DEF Pin, TypeOK
<1>5. ASSUME NEW th \in Threads, LookUp(th)
      PROVE  TypeOK'
  <2> DEFINE c == call[th]
             found == c.missing \cap held[c.tier]
             answered == [c EXCEPT !.missing = @ \ found]
             next == IF found # {} /\ c.tier > 1
                     THEN [answered EXCEPT !.step = "promote", !.found = found, !.target = 1]
                     ELSE PastTier(answered)
  <2>1. c \in Call
    BY <1>0
  <2>2. answered \in Call /\ found \in SUBSET Keys
    BY <2>1 DEF Call
  <2>3. PastTier(answered) \in Call
    BY <2>2, PastTierType
  <2>4. [answered EXCEPT !.step = "promote", !.found = found, !.target = 1] \in Call
    BY <2>2, TiersAreAnInterval DEF Call, Steps
  <2>5. next \in Call /\ Goes(th, next)
    BY <1>5, <2>3, <2>4 DEF LookUp
  <2> HIDE DEF next
  <2>6. call' \in [Threads -> Call]
    BY <2>5, GoesType DEF TypeOK
  <2> QED
    BY <1>5, <2>6 DEF LookUp, TypeOK
<1>6. ASSUME NEW th \in Threads, Promote(th)
      PROVE  TypeOK'
  <2> DEFINE c == call[th]
             next == IF c.target + 1 < c.tier THEN [c EXCEPT !.target = @ + 1] ELSE PastTier(c)
  <2>1. c \in Call /\ c.target \in Tiers /\ c.tier \in Tiers /\ c.found \in SUBSET Keys
    BY <1>0 DEF Call
  <2>2. c.target + 1 < c.tier => c.target + 1 \in Tiers
    BY <2>1, TiersAreAnInterval
  <2>3. next \in Call
    BY <2>1, <2>2, PastTierType DEF Call
  <2>4. PICK after \in Outcomes(c.target, c.found, FALSE) :
            held' = [held EXCEPT ![c.target] = after]
    BY <1>6 DEF Promote
  <2>5. after \in SUBSET Keys
    <3> HIDE DEF c, next
    <3>1. /\ TypeOK /\ c.target \in Tiers /\ c.found \in SUBSET Keys
          /\ FALSE \in BOOLEAN /\ after \in Outcomes(c.target, c.found, FALSE)
      BY <2>1, <2>4
    <3> QED
      BY ONLY <3>1, OutcomesType
  <2>6. held' \in [Tiers -> SUBSET Keys]
    <3>1. held \in [Tiers -> SUBSET Keys]
      BY DEF TypeOK
    <3> HIDE DEF c, next
    <3> QED
      BY ONLY <2>4, <2>5, <3>1
  <2>7. Goes(th, next)
    BY <1>6 DEF Promote
  <2> HIDE DEF next
  <2>8. call' \in [Threads -> Call]
    BY <2>3, <2>7, GoesType DEF TypeOK
  <2> QED
    BY <1>6, <2>6, <2>8 DEF Promote, TypeOK
<1>7. ASSUME NEW th \in Threads, Encode(th)
      PROVE  TypeOK'
  <2> DEFINE c == call[th]
  <2>1. [c EXCEPT !.step = "finish"] \in Call /\ [c EXCEPT !.step = "put", !.target = 1] \in Call
    BY <1>0, TiersAreAnInterval DEF Call, Steps
  <2>2. call' \in [Threads -> Call]
    BY <1>7, <2>1, GoesType DEF Encode, TypeOK
  <2> QED
    BY <1>7, <2>2 DEF Encode, TypeOK
<1>8. ASSUME NEW th \in Threads, Put(th)
      PROVE  TypeOK'
  <2> DEFINE c == call[th]
             next == IF c.target < Len(Capacities) THEN [c EXCEPT !.target = @ + 1]
                     ELSE [c EXCEPT !.step = "finish"]
  <2>1. c \in Call /\ c.target \in Tiers /\ Offered(c) \in SUBSET Keys
    BY <1>0 DEF Call, Offered
  <2>2. c.target < Len(Capacities) => c.target + 1 \in Tiers
    BY <2>1, TiersAreAnInterval
  <2>3. next \in Call
    BY <2>1, <2>2 DEF Call, Steps
  <2>4. PICK after \in Outcomes(c.target, Offered(c), DurableMisses) :
            held' = [held EXCEPT ![c.target] = after]
    BY <1>8 DEF Put
  <2>5. after \in SUBSET Keys
    <3>1. DurableMisses \in BOOLEAN
      BY DEF FeatureCacheAssumption
    <3> QED
      BY <2>1, <2>4, <3>1, OutcomesType
  <2>6. held' \in [Tiers -> SUBSET Keys]
    BY <2>4, <2>5 DEF TypeOK
  <2>7. Goes(th, next)
    BY <1>8 DEF Put
  <2> HIDE DEF next
  <2>8. call' \in [Threads -> Call]
    BY <2>3, <2>7, GoesType DEF TypeOK
  <2> QED
    BY <1>8, <2>6, <2>8 DEF Put, TypeOK
<1>9. ASSUME NEW th \in Threads, FinishFeatures(th)
      PROVE  TypeOK'
  BY <1>9, BegunType, GoesType DEF FinishFeatures, TypeOK, Steps
<1>10. ASSUME NEW th \in Threads, FinishReserve(th)
       PROVE  TypeOK'
  <2>1. call[th].keys \in SUBSET Keys
    BY <1>0 DEF Call
  <2>2. outstanding' \in SUBSET Reservation
    BY <1>10, <2>1 DEF FinishReserve, TypeOK, Reservation
  <2>3. call' \in [Threads -> Call]
    BY <1>10, BegunType, GoesType DEF FinishReserve, TypeOK, Steps
  <2> QED
    BY <1>10, <2>2, <2>3 DEF FinishReserve, TypeOK
<1>11. ASSUME NEW th \in Threads, Raise(th)
       PROVE  TypeOK'
  <2>0. Idle \in Call
    BY BegunType DEF Steps
  <2>1. Undo(call[th]) \in Call
    BY <1>0, <2>0 DEF Undo, Call, Steps
  <2>2. call' \in [Threads -> Call]
    BY <1>11, <2>1, GoesType DEF Raise, TypeOK
  <2> QED
    BY <1>11, <2>2 DEF Raise, TypeOK
<1>12. ASSUME NEW th \in Threads, Unpin(th)
       PROVE  TypeOK'
  <2> DEFINE c == call[th]
             refused == c.tier \in MemoryTiers /\ ~(c.keys \subseteq Pinned(c.tier))
             next == IF c.tier < Len(Capacities) /\ ~refused THEN [c EXCEPT !.tier = @ + 1] ELSE Idle
  <2>1. c \in Call /\ c.tier \in Tiers /\ c.keys \in SUBSET Keys
    BY <1>0 DEF Call
  <2>2. c.tier < Len(Capacities) => c.tier + 1 \in Tiers
    BY <2>1, TiersAreAnInterval
  <2>3. Idle \in Call
    BY BegunType DEF Steps
  <2>4. next \in Call
    BY <2>1, <2>2, <2>3 DEF Call
  <2>5. Goes(th, next)
    BY <1>12 DEF Unpin
  <2>6. pins' \in [Tiers -> [Keys -> Nat]]
    <3>1. pins \in [Tiers -> [Keys -> Nat]]
      BY DEF TypeOK
    <3>2. CASE c.tier \in MemoryTiers /\ ~refused
      <4>1. \A k \in c.keys : pins[c.tier][k] > 0
        BY <3>2 DEF Pinned
      <4>2. [k \in Keys |-> pins[c.tier][k] - (IF k \in c.keys THEN 1 ELSE 0)] \in [Keys -> Nat]
        BY <2>1, <3>1, <4>1
      <4>3. pins' = [pins EXCEPT ![c.tier] =
                        [k \in Keys |-> @[k] - (IF k \in c.keys THEN 1 ELSE 0)]]
        BY <1>12, <3>2 DEF Unpin
      <4> QED
        BY <3>1, <4>2, <4>3
    <3>3. CASE ~(c.tier \in MemoryTiers /\ ~refused)
      <4>1. pins' = pins
        BY <1>12, <3>3 DEF Unpin
      <4> QED
        BY <3>1, <4>1
    <3> QED
      BY <3>2, <3>3
  <2>7. unpinError' \in BOOLEAN
    <3>1. unpinError' = (unpinError \/ refused)
      BY <1>12 DEF Unpin
    <3> QED
      BY <3>1 DEF TypeOK
  <2> HIDE DEF next
  <2>8. call' \in [Threads -> Call]
    BY <2>4, <2>5, GoesType DEF TypeOK
  <2> QED
    BY <1>12, <2>6, <2>7, <2>8 DEF Unpin, TypeOK
<1>13. CASE UNCHANGED vars
  BY <1>13 DEF vars, TypeOK
<1> QED
  BY <1>1, <1>2, <1>3, <1>4, <1>5, <1>6, <1>7, <1>8, <1>9, <1>10, <1>11, <1>12, <1>13 DEF Next

-----------------------------------------------------------------------------
(* Pins.                                                                   *)

(* what the step of one thread does to the calls that pin k in tier t      *)
LEMMA OneCallMoves ==
    ASSUME FeatureCacheAssumption, TypeOK, NEW th \in Threads, NEW next, Goes(th, next),
           NEW t, NEW k
    PROVE  LET before == Cardinality(PinningCalls(t, k))
               after == Cardinality(PinningCalls(t, k)')
           IN  /\ before \in Nat /\ after \in Nat
               /\ CallPins(call[th], t, k) => before > 0
               /\ CallPins(call[th], t, k) /\ CallPins(next, t, k) => after = before
               /\ ~CallPins(call[th], t, k) /\ ~CallPins(next, t, k) => after = before
               /\ CallPins(call[th], t, k) /\ ~CallPins(next, t, k) => after + 1 = before
               /\ ~CallPins(call[th], t, k) /\ CallPins(next, t, k) => after = before + 1
<1> DEFINE S == PinningCalls(t, k)
           T == PinningCalls(t, k)'
<1>1. IsFiniteSet(S)
  <2>1. S \in SUBSET Threads
    BY DEF PinningCalls
  <2> QED
    BY <2>1, FS_Subset DEF FeatureCacheAssumption
<1>2. \A other \in Threads : call'[other] = IF other = th THEN next ELSE call[other]
  BY DEF Goes, TypeOK
<1>3. T = {other \in Threads : CallPins(call'[other], t, k)}
  BY DEF PinningCalls, CallPins
<1>4. S \ {th} = T \ {th}
  BY <1>2, <1>3 DEF PinningCalls
<1>5. (th \in S <=> CallPins(call[th], t, k)) /\ (th \in T <=> CallPins(next, t, k))
  BY <1>2, <1>3 DEF PinningCalls
<1>6. th \in S => Cardinality(S) > 0
  <2>1. th \in S => Cardinality(S) # 0
    BY <1>1, FS_EmptySet
  <2>2. Cardinality(S) \in Nat
    BY <1>1, FS_CardinalityType
  <2> QED
    BY <2>1, <2>2
<1> HIDE DEF S, T
<1>7. /\ Cardinality(S) \in Nat /\ Cardinality(T) \in Nat
      /\ th \in S /\ th \in T => Cardinality(T) = Cardinality(S)
      /\ th \notin S /\ th \notin T => Cardinality(T) = Cardinality(S)
      /\ th \in S /\ th \notin T => Cardinality(T) + 1 = Cardinality(S)
      /\ th \notin S /\ th \in T => Cardinality(T) = Cardinality(S) + 1
  BY <1>1, <1>4, Recount
<1>8. /\ Cardinality(S) \in Nat /\ Cardinality(T) \in Nat
      /\ CallPins(call[th], t, k) => Cardinality(S) > 0
      /\ CallPins(call[th], t, k) /\ CallPins(next, t, k) => Cardinality(T) = Cardinality(S)
      /\ ~CallPins(call[th], t, k) /\ ~CallPins(next, t, k) => Cardinality(T) = Cardinality(S)
      /\ CallPins(call[th], t, k) /\ ~CallPins(next, t, k) => Cardinality(T) + 1 = Cardinality(S)
      /\ ~CallPins(call[th], t, k) /\ CallPins(next, t, k) => Cardinality(T) = Cardinality(S) + 1
  BY <1>5, <1>6, <1>7
<1> QED
  BY <1>8 DEF S, T

(* The count of reservations.                                              *)
LEMMA ReservationsCount ==
    ASSUME IsFiniteSet(outstanding), NEW k
    PROVE  IsFiniteSet(ReservationsOf(k)) /\ Cardinality(ReservationsOf(k)) \in Nat
<1>1. ReservationsOf(k) \in SUBSET outstanding
  BY DEF ReservationsOf
<1> QED
  BY <1>1, FS_Subset, FS_CardinalityType

(* a step that leaves the pins, the reservations and its own call's pins   *)
LEMMA PinsUntouched ==
    ASSUME FeatureCacheAssumption, CacheInv, TypeOK',
           NEW th \in Threads, NEW next \in Call, Goes(th, next),
           UNCHANGED <<pins, outstanding, unpinError>>,
           \A t \in MemoryTiers : \A k \in Keys :
               CallPins(call[th], t, k) <=> CallPins(next, t, k),
           next.step = "pin" => next.kind = "reserve"
    PROVE  CacheInv'
<1>1. TypeOK
  BY DEF CacheInv, PinsMatchReservations
<1>2. ASSUME NEW t \in MemoryTiers, NEW k \in Keys
      PROVE  (pins[t][k] = Cardinality(ReservationsOf(k)) + Cardinality(PinningCalls(t, k)))'
  <2>1. pins[t][k] = Cardinality(ReservationsOf(k)) + Cardinality(PinningCalls(t, k))
    BY DEF CacheInv, PinsMatchReservations
  <2>2. Cardinality(PinningCalls(t, k)') = Cardinality(PinningCalls(t, k))
    BY <1>1, OneCallMoves
  <2>3. ReservationsOf(k)' = ReservationsOf(k)
    BY DEF ReservationsOf
  <2> QED
    BY <2>1, <2>2, <2>3
<1>3. \A other \in Threads : (call[other].step = "pin" => call[other].kind = "reserve")'
  BY <1>1 DEF Goes, TypeOK, CacheInv
<1>4. PinsMatchReservations'
  BY <1>2 DEF PinsMatchReservations, CacheInv
<1> QED
  BY <1>3, <1>4 DEF CacheInv

LEMMA IdlePinsNothing ==
    ASSUME FeatureCacheAssumption, NEW t, NEW k
    PROVE  ~CallPins(Idle, t, k)
  BY DEF CallPins, Idle

LEMMA PastTierKeepsPins ==
    ASSUME NEW c \in Call, c.step \in {"lookup", "promote"}, NEW t, NEW k
    PROVE  /\ CallPins(PastTier(c), t, k) <=> CallPins(c, t, k)
           /\ PastTier(c).step # "pin"
<1>1. /\ PastTier(c).keys = c.keys /\ PastTier(c).kind = c.kind
      /\ PastTier(c).step \in {"finish", "lookup", "encode"}
  BY DEF PastTier, Call
<1> QED
  BY <1>1 DEF CallPins

LEMMA CacheInit ==
    ASSUME FeatureCacheAssumption, Init
    PROVE  CacheInv
<1>1. TypeOK
  BY TypeInit
<1>2. ASSUME NEW t \in MemoryTiers, NEW k \in Keys
      PROVE  pins[t][k] = Cardinality(ReservationsOf(k)) + Cardinality(PinningCalls(t, k))
  <2>1. ReservationsOf(k) = {} /\ PinningCalls(t, k) = {}
    BY IdlePinsNothing DEF Init, ReservationsOf, PinningCalls
  <2>2. pins[t][k] = 0
    BY TiersAreAnInterval DEF Init
  <2> QED
    BY <2>1, <2>2, FS_EmptySet
<1>3. \A th \in Threads : call[th].step # "pin"
  BY DEF Init, Idle
<1> QED
  BY <1>1, <1>2, <1>3, FS_EmptySet DEF Init, CacheInv, PinsMatchReservations

LEMMA CacheStep ==
    ASSUME FeatureCacheAssumption, CacheInv, [Next]_vars
    PROVE  CacheInv'
<1>0. TypeOK /\ TypeOK'
  BY TypeStep DEF CacheInv, PinsMatchReservations
<1>c. \A th \in Threads : call[th] \in Call
  BY <1>0 DEF TypeOK
<1>p. ASSUME NEW t \in MemoryTiers, NEW k \in Keys
      PROVE  pins[t][k] = Cardinality(ReservationsOf(k)) + Cardinality(PinningCalls(t, k))
  BY DEF CacheInv, PinsMatchReservations
<1>1. ASSUME NEW th \in Threads, NEW batch \in Batches, Features(th, batch)
      PROVE  CacheInv'
  <2> DEFINE next == Begun("features", "lookup", batch)
  <2>1. next \in Call
    BY BegunType DEF FeatureCacheAssumption, Steps
  <2>2. /\ \A t, k : ~CallPins(next, t, k) /\ ~CallPins(call[th], t, k)
        /\ next.step # "pin"
    BY <1>1 DEF Features, Begun, Idle, CallPins
  <2> QED
    BY <1>0, <1>1, <2>1, <2>2, PinsUntouched DEF Features
<1>2. ASSUME NEW th \in Threads, NEW batch \in Batches, Reserve(th, batch)
      PROVE  CacheInv'
  <2> DEFINE next == Begun("reserve", FirstStepOfReserve, batch \ Stamped)
  <2>1. next \in Call
    BY BegunType DEF FeatureCacheAssumption, Steps, FirstStepOfReserve
  <2>2. next.step = "pin" /\ next.kind = "reserve" /\ next.tier = 1
    BY DEF Begun, Idle, FirstStepOfReserve
  <2>3. \A t \in MemoryTiers : \A k \in Keys :
            ~CallPins(next, t, k) /\ ~CallPins(call[th], t, k)
    BY <1>2, <2>2, TiersAreAnInterval DEF Reserve, CallPins
  <2> HIDE DEF next
  <2>4. Goes(th, next) /\ UNCHANGED <<pins, outstanding, unpinError>>
    BY <1>2 DEF Reserve, next
  <2> QED
    BY <1>0, <2>1, <2>2, <2>3, <2>4, PinsUntouched
<1>3. ASSUME NEW th \in Threads, NEW r \in outstanding, Release(th, r)
      PROVE  CacheInv'
  <2> DEFINE next == Begun("release", "unpin", r.keys)
  <2>1. r.keys \in SUBSET Keys
    BY <1>0 DEF TypeOK, Reservation
  <2>2. /\ next.step = "unpin" /\ next.tier = 1 /\ next.keys = r.keys
        /\ call[th].step = "idle" /\ Goes(th, next)
        /\ outstanding' = outstanding \ {r} /\ UNCHANGED <<pins, unpinError>>
    BY <1>3 DEF Release, Claimed, Begun, Idle
  <2> HIDE DEF next
  <2>3. ASSUME NEW t \in MemoryTiers, NEW k \in Keys
        PROVE  (pins[t][k] = Cardinality(ReservationsOf(k)) + Cardinality(PinningCalls(t, k)))'
    <3>1. ~CallPins(call[th], t, k) /\ (CallPins(next, t, k) <=> k \in r.keys)
      BY <2>2, TiersAreAnInterval DEF CallPins
    <3>2. /\ k \in r.keys => Cardinality(PinningCalls(t, k)') = Cardinality(PinningCalls(t, k)) + 1
          /\ k \notin r.keys => Cardinality(PinningCalls(t, k)') = Cardinality(PinningCalls(t, k))
          /\ Cardinality(PinningCalls(t, k)) \in Nat
      BY <1>0, <2>2, <3>1, OneCallMoves
    <3>3. ReservationsOf(k) \ {r} = ReservationsOf(k)' \ {r} /\ r \notin ReservationsOf(k)'
          /\ (r \in ReservationsOf(k) <=> k \in r.keys)
      BY <2>2 DEF ReservationsOf
    <3>4. IsFiniteSet(ReservationsOf(k)) /\ Cardinality(ReservationsOf(k)) \in Nat
      BY ReservationsCount DEF CacheInv
    <3>5. /\ k \in r.keys => Cardinality(ReservationsOf(k)') + 1 = Cardinality(ReservationsOf(k))
          /\ k \notin r.keys => Cardinality(ReservationsOf(k)') = Cardinality(ReservationsOf(k))
          /\ Cardinality(ReservationsOf(k)') \in Nat
      BY <3>3, <3>4, Recount
    <3>6. pins[t][k] = Cardinality(ReservationsOf(k)') + Cardinality(PinningCalls(t, k)')
      BY <1>p, <3>2, <3>4, <3>5
    <3> QED
      BY <2>2, <3>6
  <2>4. IsFiniteSet(outstanding')
    BY <2>2, FS_RemoveElement DEF CacheInv
  <2>5. \A other \in Threads : (call[other].step = "pin" => call[other].kind = "reserve")'
    BY <1>0, <2>2 DEF Goes, TypeOK, CacheInv
  <2>6. PinsMatchReservations'
    BY <1>0, <2>2, <2>3 DEF PinsMatchReservations, CacheInv
  <2> QED
    BY <2>4, <2>5, <2>6 DEF CacheInv
<1>4. ASSUME NEW th \in Threads, Pin(th)
      PROVE  CacheInv'
  <2> DEFINE c == call[th]
             next == IF c.tier < Len(Capacities) THEN [c EXCEPT !.tier = @ + 1]
                     ELSE [c EXCEPT !.step = "lookup", !.tier = 1]
  <2>1. /\ c \in Call /\ c.tier \in Tiers /\ c.keys \in SUBSET Keys
        /\ c.step = "pin" /\ c.kind = "reserve"
    BY <1>4, <1>c DEF Pin, Call, CacheInv
  <2>2. /\ Goes(th, next) /\ UNCHANGED <<outstanding, unpinError>>
        /\ pins' = IF c.tier \in MemoryTiers
                   THEN [pins EXCEPT ![c.tier] = [k \in Keys |->
                           @[k] + (IF k \in c.keys THEN 1 ELSE 0)]]
                   ELSE pins
    BY <1>4 DEF Pin
  <2>3. /\ next.keys = c.keys /\ next.kind = "reserve"
        /\ c.tier < Len(Capacities) => next.step = "pin" /\ next.tier = c.tier + 1
        /\ ~(c.tier < Len(Capacities)) => next.step = "lookup"
    BY <2>1 DEF Call
  <2> HIDE DEF c, next
  <2>4. ASSUME NEW t \in MemoryTiers, NEW k \in Keys
        PROVE  (pins[t][k] = Cardinality(ReservationsOf(k)) + Cardinality(PinningCalls(t, k)))'
    <3>0. t \in Nat /\ c.tier \in Nat /\ t \in Tiers /\ t <= Len(Capacities) /\ Len(Capacities) \in Nat
      BY <2>1, TiersAreAnInterval
    <3>1. /\ CallPins(c, t, k) <=> k \in c.keys /\ t < c.tier
          /\ CallPins(next, t, k) <=> k \in c.keys /\ t <= c.tier
      <4>1. CallPins(c, t, k) <=> k \in c.keys /\ t < c.tier
        BY <2>1 DEF CallPins
      <4>2. CASE c.tier < Len(Capacities)
        BY <2>3, <3>0, <4>1, <4>2 DEF CallPins
      <4>3. CASE ~(c.tier < Len(Capacities))
        BY <2>3, <3>0, <4>1, <4>3 DEF CallPins
      <4> QED
        BY <4>2, <4>3
    <3>2. /\ Cardinality(PinningCalls(t, k)) \in Nat
          /\ Cardinality(PinningCalls(t, k)') =
               Cardinality(PinningCalls(t, k)) + (IF k \in c.keys /\ t = c.tier THEN 1 ELSE 0)
      BY <1>0, <2>2, <3>0, <3>1, OneCallMoves DEF c
    <3>3. pins'[t][k] = pins[t][k] + (IF k \in c.keys /\ t = c.tier THEN 1 ELSE 0)
      <4>0. pins[t] \in [Keys -> Nat] /\ DOMAIN pins = Tiers
        BY <1>0, <3>0 DEF TypeOK
      <4>1. CASE t = c.tier
        BY <2>2, <3>0, <4>0, <4>1
      <4>2. CASE t # c.tier
        BY <2>2, <3>0, <4>0, <4>2
      <4> QED
        BY <4>1, <4>2
    <3>4. ReservationsOf(k)' = ReservationsOf(k) /\ Cardinality(ReservationsOf(k)) \in Nat
      BY <2>2, ReservationsCount DEF ReservationsOf, CacheInv
    <3> QED
      BY <1>p, <3>2, <3>3, <3>4
  <2>5. \A other \in Threads : (call[other].step = "pin" => call[other].kind = "reserve")'
    BY <1>0, <2>2, <2>3 DEF Goes, TypeOK, CacheInv
  <2>6. PinsMatchReservations'
    BY <1>0, <2>2, <2>4 DEF PinsMatchReservations, CacheInv
  <2> QED
    BY <2>2, <2>5, <2>6 DEF CacheInv
<1>5. ASSUME NEW th \in Threads, LookUp(th)
      PROVE  CacheInv'
  <2> DEFINE c == call[th]
             found == c.missing \cap held[c.tier]
             answered == [c EXCEPT !.missing = @ \ found]
             next == IF found # {} /\ c.tier > 1
                     THEN [answered EXCEPT !.step = "promote", !.found = found, !.target = 1]
                     ELSE PastTier(answered)
  <2>1. c \in Call /\ c.step = "lookup"
    BY <1>5, <1>c DEF LookUp
  <2>2. /\ answered \in Call /\ answered.step = "lookup" /\ answered.keys = c.keys
        /\ answered.kind = c.kind /\ found \in SUBSET Keys
    BY <2>1 DEF Call
  <2> HIDE DEF answered, found
  <2>3. [answered EXCEPT !.step = "promote", !.found = found, !.target = 1] \in Call
    BY <2>2, TiersAreAnInterval DEF Call, Steps
  <2>4. next \in Call
    BY <2>2, <2>3, PastTierType
  <2>5. ASSUME NEW t \in MemoryTiers, NEW k \in Keys
        PROVE  (CallPins(c, t, k) <=> CallPins(next, t, k)) /\ next.step # "pin"
    <3>1. CallPins(c, t, k) <=> CallPins(answered, t, k)
      BY <2>1, <2>2 DEF CallPins
    <3>2. CASE found # {} /\ c.tier > 1
      <4>1. next.step = "promote" /\ next.keys = c.keys /\ next.kind = c.kind
        BY <2>2, <3>2 DEF Call
      <4> HIDE DEF next
      <4> QED
        BY <2>1, <4>1 DEF CallPins
    <3>3. CASE ~(found # {} /\ c.tier > 1)
      BY <2>2, <3>1, <3>3, PastTierKeepsPins
    <3> QED
      BY <3>2, <3>3
  <2>6. next.step # "pin"
    BY <2>2, PastTierKeepsPins DEF Call
  <2>7. Goes(th, next) /\ UNCHANGED <<pins, outstanding, unpinError>>
    BY <1>5 DEF LookUp, answered, found
  <2> HIDE DEF next
  <2> QED
    BY <1>0, <2>4, <2>5, <2>6, <2>7, PinsUntouched DEF c
<1>6. ASSUME NEW th \in Threads, Promote(th)
      PROVE  CacheInv'
  <2> DEFINE c == call[th]
             next == IF c.target + 1 < c.tier THEN [c EXCEPT !.target = @ + 1] ELSE PastTier(c)
  <2>1. c \in Call /\ c.step = "promote" /\ c.target \in Tiers /\ c.tier \in Tiers
    BY <1>6, <1>c DEF Promote, Call
  <2>2. next \in Call
    BY <2>1, PastTierType, TiersAreAnInterval DEF Call
  <2>3. ASSUME NEW t \in MemoryTiers, NEW k \in Keys
        PROVE  CallPins(c, t, k) <=> CallPins(next, t, k)
    <3>1. CASE c.target + 1 < c.tier
      <4>1. next.step = c.step /\ next.keys = c.keys /\ next.kind = c.kind /\ next.tier = c.tier
        BY <2>1, <3>1 DEF Call
      <4> HIDE DEF next
      <4> QED
        BY <4>1 DEF CallPins
    <3>2. CASE ~(c.target + 1 < c.tier)
      BY <2>1, <3>2, PastTierKeepsPins
    <3> QED
      BY <3>1, <3>2
  <2>4. next.step # "pin"
    BY <2>1, PastTierKeepsPins DEF Call
  <2>5. Goes(th, next) /\ UNCHANGED <<pins, outstanding, unpinError>>
    BY <1>6 DEF Promote
  <2> HIDE DEF next
  <2> QED
    BY <1>0, <2>2, <2>3, <2>4, <2>5, PinsUntouched
<1>7. ASSUME NEW th \in Threads, Encode(th)
      PROVE  CacheInv'
  <2> DEFINE c == call[th]
             next == IF Offered(c) = {} THEN [c EXCEPT !.step = "finish"]
                     ELSE [c EXCEPT !.step = "put", !.target = 1]
  <2>1. c \in Call /\ c.step = "encode"
    BY <1>7, <1>c DEF Encode
  <2>2. /\ next \in Call /\ next.step \in {"finish", "put"}
        /\ next.keys = c.keys /\ next.kind = c.kind
    BY <2>1, TiersAreAnInterval DEF Call, Steps
  <2>3. Goes(th, next) /\ UNCHANGED <<pins, outstanding, unpinError>>
    BY <1>7 DEF Encode
  <2> HIDE DEF next
  <2>4. \A t, k : CallPins(c, t, k) <=> CallPins(next, t, k)
    BY <2>1, <2>2 DEF CallPins
  <2> QED
    BY <1>0, <2>2, <2>3, <2>4, PinsUntouched
<1>8. ASSUME NEW th \in Threads, Put(th)
      PROVE  CacheInv'
  <2> DEFINE c == call[th]
             next == IF c.target < Len(Capacities) THEN [c EXCEPT !.target = @ + 1]
                     ELSE [c EXCEPT !.step = "finish"]
  <2>1. c \in Call /\ c.step = "put" /\ c.target \in Tiers
    BY <1>8, <1>c DEF Put, Call
  <2>2. c.target < Len(Capacities) => c.target + 1 \in Tiers
    BY <2>1, TiersAreAnInterval
  <2>3. /\ next \in Call /\ next.step \in {"finish", "put"}
        /\ next.keys = c.keys /\ next.kind = c.kind
    BY <2>1, <2>2 DEF Call, Steps
  <2>4. Goes(th, next) /\ UNCHANGED <<pins, outstanding, unpinError>>
    BY <1>8 DEF Put
  <2> HIDE DEF next
  <2>5. \A t, k : CallPins(c, t, k) <=> CallPins(next, t, k)
    BY <2>1, <2>3 DEF CallPins
  <2> QED
    BY <1>0, <2>3, <2>4, <2>5, PinsUntouched
<1>9. ASSUME NEW th \in Threads, FinishFeatures(th)
      PROVE  CacheInv'
  <2>1. Idle \in Call /\ Idle.step # "pin"
    BY BegunType DEF Steps, Idle
  <2>2. \A t, k : ~CallPins(call[th], t, k) /\ ~CallPins(Idle, t, k)
    BY <1>9, IdlePinsNothing DEF FinishFeatures, CallPins
  <2> QED
    BY <1>0, <1>9, <2>1, <2>2, PinsUntouched DEF FinishFeatures
<1>10. ASSUME NEW th \in Threads, FinishReserve(th)
       PROVE  CacheInv'
  <2>1. PICK id \in Identities \ {r.id : r \in outstanding} :
            outstanding' = outstanding \cup {[id |-> id, keys |-> call[th].keys]}
    BY <1>10 DEF FinishReserve
  <2> DEFINE made == [id |-> id, keys |-> call[th].keys]
  <2>2. made \notin outstanding
    BY <2>1
  <2>3. /\ call[th].step = "finish" /\ call[th].kind = "reserve"
        /\ Goes(th, Idle) /\ UNCHANGED <<pins, unpinError>>
    BY <1>10 DEF FinishReserve
  <2>4. made.keys = call[th].keys /\ outstanding' = outstanding \cup {made}
    BY <2>1
  <2> HIDE DEF made
  <2>5. ASSUME NEW t \in MemoryTiers, NEW k \in Keys
        PROVE  (pins[t][k] = Cardinality(ReservationsOf(k)) + Cardinality(PinningCalls(t, k)))'
    <3>1. ~CallPins(Idle, t, k) /\ (CallPins(call[th], t, k) <=> k \in made.keys)
      BY <2>3, <2>4, IdlePinsNothing DEF CallPins
    <3>2. /\ k \in made.keys => Cardinality(PinningCalls(t, k)') + 1 = Cardinality(PinningCalls(t, k))
          /\ k \notin made.keys => Cardinality(PinningCalls(t, k)') = Cardinality(PinningCalls(t, k))
          /\ Cardinality(PinningCalls(t, k)) \in Nat /\ Cardinality(PinningCalls(t, k)') \in Nat
      BY <1>0, <2>3, <3>1, OneCallMoves
    <3>3. /\ ReservationsOf(k) \ {made} = ReservationsOf(k)' \ {made}
          /\ made \notin ReservationsOf(k)
          /\ (made \in ReservationsOf(k)' <=> k \in made.keys)
      BY <2>2, <2>4 DEF ReservationsOf
    <3>4. IsFiniteSet(ReservationsOf(k)) /\ Cardinality(ReservationsOf(k)) \in Nat
      BY ReservationsCount DEF CacheInv
    <3>5. /\ k \in made.keys => Cardinality(ReservationsOf(k)') = Cardinality(ReservationsOf(k)) + 1
          /\ k \notin made.keys => Cardinality(ReservationsOf(k)') = Cardinality(ReservationsOf(k))
      BY <3>3, <3>4, Recount
    <3>6. pins[t][k] = Cardinality(ReservationsOf(k)') + Cardinality(PinningCalls(t, k)')
      BY <1>p, <3>2, <3>4, <3>5
    <3> QED
      BY <2>3, <3>6
  <2>6. IsFiniteSet(outstanding')
    BY <2>4, FS_AddElement DEF CacheInv
  <2>7. \A other \in Threads : (call[other].step = "pin" => call[other].kind = "reserve")'
    BY <1>0, <2>3 DEF Goes, TypeOK, CacheInv, Idle
  <2>8. PinsMatchReservations'
    BY <1>0, <2>3, <2>5 DEF PinsMatchReservations, CacheInv
  <2> QED
    BY <2>6, <2>7, <2>8 DEF CacheInv
<1>11. ASSUME NEW th \in Threads, Raise(th)
       PROVE  CacheInv'
  <2> DEFINE c == call[th]
             next == Undo(c)
  <2>1. c \in Call /\ c.step \in {"lookup", "promote", "encode", "put"}
    BY <1>11, <1>c DEF Raise
  <2>2. Idle \in Call
    BY BegunType DEF Steps
  <2>3. next \in Call
    BY <2>1, <2>2 DEF Undo, Call, Steps
  <2>4. Goes(th, next) /\ UNCHANGED <<pins, outstanding, unpinError>>
    BY <1>11 DEF Raise
  <2>5. ASSUME NEW t \in MemoryTiers, NEW k \in Keys
        PROVE  CallPins(c, t, k) <=> CallPins(next, t, k)
    <3>1. CASE c.kind = "reserve"
      <4>1. next.step = "unpin" /\ next.keys = c.keys /\ next.tier = 1
        BY <3>1 DEF Undo, Idle
      <4> HIDE DEF next
      <4>2. t >= next.tier
        BY <4>1, TiersAreAnInterval
      <4> QED
        BY <2>1, <3>1, <4>1, <4>2 DEF CallPins
    <3>2. CASE c.kind # "reserve"
      BY <2>1, <3>2, IdlePinsNothing DEF Undo, CallPins
    <3> QED
      BY <3>1, <3>2
  <2>6. next.step # "pin"
    BY DEF Undo, Idle
  <2> HIDE DEF next
  <2> QED
    BY <1>0, <2>3, <2>4, <2>5, <2>6, PinsUntouched
<1>12. ASSUME NEW th \in Threads, Unpin(th)
       PROVE  CacheInv'
  <2> DEFINE c == call[th]
             refused == c.tier \in MemoryTiers /\ ~(c.keys \subseteq Pinned(c.tier))
             next == IF c.tier < Len(Capacities) THEN [c EXCEPT !.tier = @ + 1] ELSE Idle
  <2>1. /\ c \in Call /\ c.tier \in Tiers /\ c.keys \in SUBSET Keys
        /\ c.step = "unpin"
    BY <1>12, <1>c DEF Unpin, Call
  <2>2. ~refused
    <3> SUFFICES ASSUME c.tier \in MemoryTiers, NEW k \in c.keys
                 PROVE  k \in Pinned(c.tier)
      OBVIOUS
    <3>1. k \in Keys /\ CallPins(c, c.tier, k)
      BY <2>1, TiersAreAnInterval DEF CallPins
    <3>2. Cardinality(PinningCalls(c.tier, k)) > 0 /\ Cardinality(PinningCalls(c.tier, k)) \in Nat
      BY <1>0, <1>12, <3>1, OneCallMoves DEF Unpin
    <3>3. Cardinality(ReservationsOf(k)) \in Nat
      BY ReservationsCount DEF CacheInv
    <3>4. pins[c.tier][k] > 0
      BY <1>p, <3>1, <3>2, <3>3
    <3> QED
      BY <3>1, <3>4 DEF Pinned
  <2>3. /\ Goes(th, next) /\ UNCHANGED outstanding /\ unpinError' = unpinError
        /\ pins' = IF c.tier \in MemoryTiers
                   THEN [pins EXCEPT ![c.tier] = [k \in Keys |->
                           @[k] - (IF k \in c.keys THEN 1 ELSE 0)]]
                   ELSE pins
    BY <1>0, <1>12, <2>2 DEF Unpin, TypeOK
  <2>4. /\ c.tier < Len(Capacities) => /\ next.step = "unpin" /\ next.tier = c.tier + 1
                                       /\ next.keys = c.keys /\ next.kind = c.kind
        /\ ~(c.tier < Len(Capacities)) => next = Idle
        /\ next.step # "pin"
    BY <2>1 DEF Call, Idle
  <2> HIDE DEF c, next
  <2>5. ASSUME NEW t \in MemoryTiers, NEW k \in Keys
        PROVE  (pins[t][k] = Cardinality(ReservationsOf(k)) + Cardinality(PinningCalls(t, k)))'
    <3>0. t \in Nat /\ c.tier \in Nat /\ t \in Tiers /\ t <= Len(Capacities) /\ Len(Capacities) \in Nat
          /\ c.tier <= Len(Capacities)
      BY <2>1, TiersAreAnInterval
    <3>1. /\ CallPins(c, t, k) <=> k \in c.keys /\ t >= c.tier
          /\ CallPins(next, t, k) <=> k \in c.keys /\ t > c.tier
      <4>1. CallPins(c, t, k) <=> k \in c.keys /\ t >= c.tier
        BY <2>1 DEF CallPins
      <4>2. CASE c.tier < Len(Capacities)
        BY <2>4, <3>0, <4>1, <4>2 DEF CallPins
      <4>3. CASE ~(c.tier < Len(Capacities))
        BY <2>4, <3>0, <4>1, <4>3, IdlePinsNothing
      <4> QED
        BY <4>2, <4>3
    <3>2. /\ Cardinality(PinningCalls(t, k)) \in Nat /\ Cardinality(PinningCalls(t, k)') \in Nat
          /\ Cardinality(PinningCalls(t, k)) =
               Cardinality(PinningCalls(t, k)') + (IF k \in c.keys /\ t = c.tier THEN 1 ELSE 0)
      BY <1>0, <2>3, <3>0, <3>1, OneCallMoves DEF c
    <3>3. pins'[t][k] = pins[t][k] - (IF k \in c.keys /\ t = c.tier THEN 1 ELSE 0)
      <4>0. pins[t] \in [Keys -> Nat] /\ DOMAIN pins = Tiers
        BY <1>0, <3>0 DEF TypeOK
      <4>1. CASE t = c.tier
        BY <2>3, <3>0, <4>0, <4>1
      <4>2. CASE t # c.tier
        BY <2>3, <3>0, <4>0, <4>2
      <4> QED
        BY <4>1, <4>2
    <3>4. ReservationsOf(k)' = ReservationsOf(k) /\ Cardinality(ReservationsOf(k)) \in Nat
      BY <2>3, ReservationsCount DEF ReservationsOf, CacheInv
    <3> QED
      BY <1>p, <3>2, <3>3, <3>4
  <2>6. \A other \in Threads : (call[other].step = "pin" => call[other].kind = "reserve")'
    BY <1>0, <2>3, <2>4 DEF Goes, TypeOK, CacheInv
  <2>7. PinsMatchReservations'
    BY <1>0, <2>3, <2>5 DEF PinsMatchReservations, CacheInv
  <2> QED
    BY <2>3, <2>6, <2>7 DEF CacheInv
<1>13. CASE UNCHANGED vars
  <2>1. \A t, k : ReservationsOf(k)' = ReservationsOf(k) /\ PinningCalls(t, k)' = PinningCalls(t, k)
    BY <1>13 DEF vars, ReservationsOf, PinningCalls, CallPins
  <2> QED
    BY <1>0, <1>13, <2>1 DEF vars, CacheInv, PinsMatchReservations
<1> QED
  BY <1>1, <1>2, <1>3, <1>4, <1>5, <1>6, <1>7, <1>8, <1>9, <1>10, <1>11, <1>12, <1>13 DEF Next

THEOREM CacheInvHolds ==
    ASSUME FeatureCacheAssumption
    PROVE  Spec => []CacheInv
<1>1. Init => CacheInv
  BY CacheInit
<1>2. CacheInv /\ [Next]_vars => CacheInv'
  BY CacheStep
<1> QED
  BY <1>1, <1>2, PTL DEF Spec

(***************************************************************************)
(* PinsMatchReservations: in every memory tier a key has exactly one pin   *)
(* for each outstanding reservation of it and each call that is setting    *)
(* one up or taking one down, and no tier ever refuses an unpin, for any   *)
(* chain of tiers, any threads and any place a call may raise in.          *)
(***************************************************************************)
THEOREM PinsMatch ==
    ASSUME FeatureCacheAssumption
    PROVE  Spec => []PinsMatchReservations
<1>1. CacheInv => PinsMatchReservations
  BY DEF CacheInv
<1> QED
  BY <1>1, CacheInvHolds, PTL

-----------------------------------------------------------------------------
(* Reserved cards.                                                         *)

(* a tier's put keeps what an outstanding reservation found there          *)
LEMMA PutKeepsReserved ==
    ASSUME FeatureCacheAssumption, CacheInv, NEW t \in Tiers,
           NEW offer \in SUBSET Keys, NEW durable \in BOOLEAN,
           NEW after \in Outcomes(t, offer, durable), held' = [held EXCEPT ![t] = after],
           NEW r \in outstanding, NEW u \in Tiers
    PROVE  r.keys \cap held[u] \subseteq held'[u]
<1>0. TypeOK /\ r.keys \in SUBSET Keys
  BY DEF CacheInv, PinsMatchReservations, TypeOK, Reservation
<1>1. CASE u # t
  BY <1>0, <1>1 DEF TypeOK
<1>2. CASE u = t /\ t \notin MemoryTiers
  BY <1>0, <1>2, DiskOutcomes DEF TypeOK
<1>3. CASE u = t /\ t \in MemoryTiers
  <2>1. ASSUME NEW k \in r.keys
        PROVE  k \in Pinned(t)
    <3>1. r \in ReservationsOf(k)
      BY DEF ReservationsOf
    <3>2. Cardinality(ReservationsOf(k)) \in Nat /\ Cardinality(ReservationsOf(k)) # 0
      BY <3>1, ReservationsCount, FS_EmptySet DEF CacheInv
    <3>3. Cardinality(PinningCalls(t, k)) \in Nat
      <4>1. PinningCalls(t, k) \in SUBSET Threads
        BY DEF PinningCalls
      <4> QED
        BY <4>1, FS_Subset, FS_CardinalityType DEF FeatureCacheAssumption
    <3>4. pins[t][k] = Cardinality(ReservationsOf(k)) + Cardinality(PinningCalls(t, k))
      BY <1>0, <1>3 DEF CacheInv, PinsMatchReservations
    <3> QED
      BY <1>0, <3>2, <3>3, <3>4 DEF Pinned
  <2>2. held[t] \cap Pinned(t) \subseteq after
    BY <1>0, OutcomesType
  <2> QED
    BY <1>0, <1>3, <2>1, <2>2 DEF TypeOK
<1> QED
  BY <1>1, <1>2, <1>3

LEMMA ReservedStep ==
    ASSUME FeatureCacheAssumption, CacheInv, [Next]_vars,
           NEW r \in outstanding, NEW u \in Tiers
    PROVE  r.keys \cap held[u] \subseteq held'[u]
<1>0. \A th \in Threads : call[th] \in Call
  BY DEF CacheInv, PinsMatchReservations, TypeOK
<1>1. ASSUME NEW th \in Threads, Promote(th)
      PROVE  r.keys \cap held[u] \subseteq held'[u]
  <2>1. call[th].target \in Tiers /\ call[th].found \in SUBSET Keys
    BY <1>0 DEF Call
  <2>2. PICK after \in Outcomes(call[th].target, call[th].found, FALSE) :
            held' = [held EXCEPT ![call[th].target] = after]
    BY <1>1 DEF Promote
  <2> QED
    BY <2>1, <2>2, PutKeepsReserved
<1>2. ASSUME NEW th \in Threads, Put(th)
      PROVE  r.keys \cap held[u] \subseteq held'[u]
  <2>1. call[th].target \in Tiers /\ Offered(call[th]) \in SUBSET Keys
    BY <1>0 DEF Call, Offered
  <2>2. PICK after \in Outcomes(call[th].target, Offered(call[th]), DurableMisses) :
            held' = [held EXCEPT ![call[th].target] = after]
    BY <1>2 DEF Put
  <2> QED
    BY <2>1, <2>2, PutKeepsReserved DEF FeatureCacheAssumption
<1>3. UNCHANGED held => r.keys \cap held[u] \subseteq held'[u]
  OBVIOUS
<1>4. ASSUME NEW th \in Threads
      PROVE  /\ \A batch \in Batches : Features(th, batch) \/ Reserve(th, batch) => UNCHANGED held
             /\ \A one \in outstanding : Release(th, one) => UNCHANGED held
             /\ Pin(th) \/ LookUp(th) \/ Encode(th) \/ FinishFeatures(th) \/ FinishReserve(th)
                  \/ Raise(th) \/ Unpin(th) => UNCHANGED held
  BY DEF Features, Reserve, Release, Pin, LookUp, Encode, FinishFeatures, FinishReserve, Raise, Unpin
<1>5. UNCHANGED vars => UNCHANGED held
  BY DEF vars
<1> QED
  BY <1>1, <1>2, <1>3, <1>4, <1>5 DEF Next

(***************************************************************************)
(* ReservedStaysWarm: from the end of reserve to the release no tier       *)
(* evicts a reserved card, however many threads fill the tiers meanwhile.  *)
(***************************************************************************)
THEOREM ReservedCardsStayWarm ==
    ASSUME FeatureCacheAssumption
    PROVE  Spec => ReservedStaysWarm
<1>1. CacheInv /\ [Next]_vars =>
        [\A r \in outstanding \cap outstanding' : \A t \in Tiers :
             r.keys \cap held[t] \subseteq held'[t]]_vars
  BY ReservedStep
<1> QED
  BY <1>1, CacheInvHolds, PTL DEF Spec, ReservedStaysWarm

-----------------------------------------------------------------------------
(* Sums over finite sets.                                                  *)

IsAFcn(f) == f = [x \in DOMAIN f |-> f[x]]

Some(s) == CHOOSE x \in s : TRUE

IsSum(f, R, D) == f = [s \in D |-> IF s = {} THEN 0 ELSE R[Some(s)] + f[s \ {Some(s)}]]

LEMMA SmallestSet ==
  ASSUME NEW S, IsFiniteSet(S), NEW Bad, Bad \subseteq SUBSET S, Bad # {}
  PROVE  \E s \in Bad : \A t \in Bad : ~(t \subseteq s /\ t # s)
<1>1. Bad \subseteq FiniteSubsetsOf(S)
  BY FS_FiniteSubsetsOfFinite
<1>2. \E x \in Bad : \A y \in Bad : ~(<<y, x>> \in StrictSubsetOrdering(S))
  BY <1>1, FS_StrictSubsetOrderingWellFounded, WFMin
<1> QED
  BY <1>2 DEF StrictSubsetOrdering

SumOf(R, S) == CHOOSE f : IsSum(f, R, SUBSET S)

LEMMA SumIsAFold ==
  ASSUME NEW R, NEW S
  PROVE  SumFunctionOnSet(R, S) = SumOf(R, S)[S]
  BY DEF SumFunctionOnSet, FoldFunctionOnSet, MapThenFoldSet, SumOf, IsSum, Some

(* two of these functions agree where both are defined *)
LEMMA SumsAgree ==
  ASSUME NEW R, NEW S, NEW f, NEW g, IsFiniteSet(S), NEW T \in SUBSET S,
         IsSum(f, R, SUBSET S), IsSum(g, R, SUBSET T)
  PROVE  f[T] = g[T]
<1> DEFINE Bad == {s \in SUBSET T : f[s] # g[s]}
<1> SUFFICES ASSUME Bad # {} PROVE FALSE
  OBVIOUS
<1>1. Bad \subseteq SUBSET S /\ \A s \in SUBSET S : IsFiniteSet(s)
  BY FS_Subset
<1>2. PICK s \in Bad : \A t \in Bad : ~(t \subseteq s /\ t # s)
  <2> HIDE DEF Bad
  <2> QED
    BY <1>1, SmallestSet
<1>3. s # {}
  BY <1>2 DEF IsSum
<1>4. Some(s) \in s
  BY <1>3 DEF Some
<1>5. f[s \ {Some(s)}] = g[s \ {Some(s)}]
  BY <1>2, <1>4
<1>6. f[s] = R[Some(s)] + f[s \ {Some(s)}]
  BY <1>2, <1>3 DEF IsSum
<1>7. g[s] = R[Some(s)] + g[s \ {Some(s)}]
  BY <1>2, <1>3 DEF IsSum
<1> QED
  BY <1>2, <1>5, <1>6, <1>7

LEMMA SumOfPart ==
  ASSUME NEW R, NEW S, IsFiniteSet(S), NEW T \in SUBSET S,
         IsSum(SumOf(R, S), R, SUBSET S), IsSum(SumOf(R, T), R, SUBSET T)
  PROVE  SumOf(R, S)[T] = SumOf(R, T)[T]
<1>1. \A f, g : IsSum(f, R, SUBSET S) /\ IsSum(g, R, SUBSET T) => f[T] = g[T]
  <2> TAKE f, g
  <2> HAVE IsSum(f, R, SUBSET S) /\ IsSum(g, R, SUBSET T)
  <2> QED
    BY SumsAgree
<1> QED
  BY <1>1

LEMMA SumExists ==
  ASSUME NEW R, NEW S, IsFiniteSet(S)
  PROVE  \E f : IsSum(f, R, SUBSET S)
<1> DEFINE Bad == {s \in SUBSET S : ~\E f : IsSum(f, R, SUBSET s)}
<1> SUFFICES ASSUME Bad # {} PROVE FALSE
  OBVIOUS
<1>1. Bad \subseteq SUBSET S /\ \A s \in SUBSET S : IsFiniteSet(s)
  BY FS_Subset
<1>2. PICK s \in Bad : \A t \in Bad : ~(t \subseteq s /\ t # s)
  <2> HIDE DEF Bad
  <2> QED
    BY <1>1, SmallestSet
<1>3. \A t \in SUBSET s : t # s => IsSum(SumOf(R, t), R, SUBSET t) /\ IsFiniteSet(t)
  BY <1>1, <1>2 DEF SumOf
<1> DEFINE f == [t \in SUBSET s |->
              IF t = {} THEN 0 ELSE R[Some(t)] + SumOf(R, t \ {Some(t)})[t \ {Some(t)}]]
<1>4. \A t \in SUBSET s : t # {} => Some(t) \in t /\ t \ {Some(t)} # s
  BY DEF Some
<1>5. ASSUME NEW t \in SUBSET s, t # s
      PROVE  f[t] = SumOf(R, t)[t]
  <2>1. CASE t = {}
    BY <2>1, <1>3 DEF IsSum
  <2>2. CASE t # {}
    <3> DEFINE u == t \ {Some(t)}
    <3>1. u \in SUBSET t /\ u # s /\ u \in SUBSET s
      BY <1>4, <2>2
    <3>2. IsSum(SumOf(R, t), R, SUBSET t) /\ IsSum(SumOf(R, u), R, SUBSET u) /\ IsFiniteSet(t)
      BY <1>3, <1>5, <3>1
    <3>3. SumOf(R, t)[u] = SumOf(R, u)[u]
      <4> HIDE DEF u
      <4> QED
        BY <3>1, <3>2, SumOfPart
    <3>4. SumOf(R, t)[t] = R[Some(t)] + SumOf(R, t)[u]
      <4> QED
        BY <3>2, <2>2 DEF IsSum
    <3> QED
      BY <3>3, <3>4, <2>2
  <2> QED
    BY <2>1, <2>2
<1>6. IsSum(f, R, SUBSET s)
  <2>1. ASSUME NEW t \in SUBSET s, t # {}
        PROVE  f[t] = R[Some(t)] + f[t \ {Some(t)}]
    <3>1. f[t] = R[Some(t)] + SumOf(R, t \ {Some(t)})[t \ {Some(t)}]
      BY <2>1
    <3>2. f[t \ {Some(t)}] = SumOf(R, t \ {Some(t)})[t \ {Some(t)}]
      <4>1. t \ {Some(t)} \in SUBSET s /\ t \ {Some(t)} # s
        BY <1>4, <2>1
      <4> HIDE DEF f
      <4> QED
        BY <1>5, <4>1
    <3> QED
      BY <3>1, <3>2
  <2>2. f[{}] = 0 /\ DOMAIN f = SUBSET s /\ IsAFcn(f)
    BY DEF IsAFcn
  <2> HIDE DEF f
  <2>3. f = [t \in SUBSET s |-> IF t = {} THEN 0 ELSE R[Some(t)] + f[t \ {Some(t)}]]
    BY <2>1, <2>2 DEF IsAFcn
  <2> QED
    BY <2>3 DEF IsSum
<1> QED
  BY <1>2, <1>6

LEMMA SumUnfolds ==
  ASSUME NEW R, NEW S, IsFiniteSet(S)
  PROVE  SumFunctionOnSet(R, S) = IF S = {} THEN 0 ELSE R[Some(S)] + SumFunctionOnSet(R, S \ {Some(S)})
<1>1. \A s \in SUBSET S : SumFunctionOnSet(R, s) = SumOf(R, s)[s] /\ IsFiniteSet(s) /\ IsSum(SumOf(R, s), R, SUBSET s)
  BY SumIsAFold, SumExists, FS_Subset DEF SumOf
<1>2. SumOf(R, S)[S] = IF S = {} THEN 0 ELSE R[Some(S)] + SumOf(R, S)[S \ {Some(S)}]
  <2> QED
    BY <1>1 DEF IsSum
<1>3. SumOf(R, S)[S \ {Some(S)}] = SumOf(R, S \ {Some(S)})[S \ {Some(S)}]
  <2> DEFINE u == S \ {Some(S)}
  <2>1. u \in SUBSET S /\ IsSum(SumOf(R, S), R, SUBSET S) /\ IsSum(SumOf(R, u), R, SUBSET u)
    BY <1>1
  <2> HIDE DEF u
  <2>3. SumOf(R, S)[u] = SumOf(R, u)[u]
    BY <2>1, SumOfPart
  <2> QED
    BY <2>3 DEF u
<1> QED
  BY <1>1, <1>2, <1>3

LEMMA SumType ==
  ASSUME NEW K, NEW R \in [K -> Nat], NEW S \in SUBSET K, IsFiniteSet(S)
  PROVE  SumFunctionOnSet(R, S) \in Nat
<1> DEFINE Bad == {s \in SUBSET S : SumFunctionOnSet(R, s) \notin Nat}
<1> SUFFICES ASSUME Bad # {} PROVE FALSE
  OBVIOUS
<1>1. Bad \subseteq SUBSET S /\ \A s \in SUBSET S : IsFiniteSet(s)
  BY FS_Subset
<1>2. PICK s \in Bad : \A t \in Bad : ~(t \subseteq s /\ t # s)
  <2> HIDE DEF Bad
  <2> QED
    BY <1>1, SmallestSet
<1>3. CASE s = {}
  <2>1. IsFiniteSet(s)
    BY <1>1
  <2>2. SumFunctionOnSet(R, s) = 0
    BY <1>3, <2>1, SumUnfolds
  <2> QED
    BY <1>2, <2>2
<1>4. CASE s # {}
  <2>1. Some(s) \in s
    BY <1>4 DEF Some
  <2>2. SumFunctionOnSet(R, s \ {Some(s)}) \in Nat
    BY <1>2, <2>1
  <2>3. SumFunctionOnSet(R, s) = R[Some(s)] + SumFunctionOnSet(R, s \ {Some(s)})
    BY <1>1, <1>4, SumUnfolds
  <2>4. R[Some(s)] \in Nat
    BY <2>1
  <2> QED
    BY <2>2, <2>3, <2>4, <1>2
<1> QED
  BY <1>3, <1>4

(* an element may be taken out first, whichever it is *)
LEMMA SumTakesOut ==
  ASSUME NEW K, NEW R \in [K -> Nat], NEW S \in SUBSET K, IsFiniteSet(S), NEW x \in S
  PROVE  SumFunctionOnSet(R, S) = R[x] + SumFunctionOnSet(R, S \ {x})
<1> DEFINE Bad == {s \in SUBSET S : \E y \in s : SumFunctionOnSet(R, s) # R[y] + SumFunctionOnSet(R, s \ {y})}
<1> SUFFICES ASSUME Bad # {} PROVE FALSE
  OBVIOUS
<1>1. \A s \in SUBSET S : IsFiniteSet(s) /\ SumFunctionOnSet(R, s) \in Nat
  BY FS_Subset, SumType
<1>2. PICK s \in Bad : \A t \in Bad : ~(t \subseteq s /\ t # s)
  <2>1. Bad \subseteq SUBSET S
    OBVIOUS
  <2> HIDE DEF Bad
  <2> QED
    BY <2>1, SmallestSet
<1>3. PICK y \in s : SumFunctionOnSet(R, s) # R[y] + SumFunctionOnSet(R, s \ {y})
  BY <1>2
<1> DEFINE z == Some(s)
<1>4. z \in s
  BY <1>3 DEF Some
<1>5. SumFunctionOnSet(R, s) = R[z] + SumFunctionOnSet(R, s \ {z})
  BY <1>1, <1>3, SumUnfolds
<1>6. y # z
  BY <1>3, <1>5
<1>7. SumFunctionOnSet(R, s \ {z}) = R[y] + SumFunctionOnSet(R, (s \ {z}) \ {y})
  <2>1. s \ {z} \notin Bad
    BY <1>2, <1>4
  <2> QED
    BY <2>1, <1>6
<1>8. SumFunctionOnSet(R, s \ {y}) = R[z] + SumFunctionOnSet(R, (s \ {y}) \ {z})
  <2>1. s \ {y} \notin Bad
    BY <1>2, <1>3
  <2> QED
    BY <2>1, <1>4, <1>6
<1>9. (s \ {z}) \ {y} = (s \ {y}) \ {z}
  OBVIOUS
<1>10. R[y] \in Nat /\ R[z] \in Nat /\ SumFunctionOnSet(R, (s \ {y}) \ {z}) \in Nat
  BY <1>1, <1>4
<1> HIDE DEF z
<1> QED
  BY <1>3, <1>5, <1>7, <1>8, <1>9, <1>10

(* the sum of two sets that have nothing in common *)
LEMMA SumOfTwo ==
  ASSUME NEW K, NEW R \in [K -> Nat], NEW S \in SUBSET K, NEW T \in SUBSET K,
         IsFiniteSet(S), IsFiniteSet(T), S \cap T = {}
  PROVE  SumFunctionOnSet(R, S \cup T) = SumFunctionOnSet(R, S) + SumFunctionOnSet(R, T)
<1> DEFINE Bad == {t \in SUBSET T : SumFunctionOnSet(R, S \cup t) # SumFunctionOnSet(R, S) + SumFunctionOnSet(R, t)}
<1> SUFFICES ASSUME Bad # {} PROVE FALSE
  OBVIOUS
<1>1. \A t \in SUBSET T : /\ IsFiniteSet(t) /\ IsFiniteSet(S \cup t)
                          /\ SumFunctionOnSet(R, S) \in Nat /\ SumFunctionOnSet(R, t) \in Nat
                          /\ SumFunctionOnSet(R, S \cup t) \in Nat
  BY FS_Subset, FS_Union, SumType
<1>2. PICK t \in Bad : \A u \in Bad : ~(u \subseteq t /\ u # t)
  <2>1. Bad \subseteq SUBSET T
    OBVIOUS
  <2> HIDE DEF Bad
  <2> QED
    BY <2>1, SmallestSet
<1>3. CASE t = {}
  <2>1. SumFunctionOnSet(R, t) = 0
    BY <1>1, <1>3, SumUnfolds
  <2>2. S \cup t = S
    BY <1>3
  <2>3. SumFunctionOnSet(R, S) \in Nat
    BY <1>1
  <2>4. SumFunctionOnSet(R, S \cup t) # SumFunctionOnSet(R, S) + SumFunctionOnSet(R, t)
    BY <1>2
  <2> QED
    BY <2>1, <2>2, <2>3, <2>4
<1>4. CASE t # {}
  <2>1. PICK x \in t : TRUE
    BY <1>4
  <2>2. t \ {x} \notin Bad
    BY <1>2
  <2>3. SumFunctionOnSet(R, S \cup (t \ {x})) = SumFunctionOnSet(R, S) + SumFunctionOnSet(R, t \ {x})
    BY <2>2
  <2>4. SumFunctionOnSet(R, t) = R[x] + SumFunctionOnSet(R, t \ {x})
    BY <1>1, SumTakesOut
  <2>5. SumFunctionOnSet(R, S \cup t) = R[x] + SumFunctionOnSet(R, S \cup (t \ {x}))
    <3>1. (S \cup t) \ {x} = S \cup (t \ {x})
      BY <2>1
    <3>2. S \cup t \in SUBSET K /\ x \in S \cup t
      BY <2>1
    <3>3. IsFiniteSet(S \cup t)
      BY <1>1
    <3> QED
      BY <3>1, <3>2, <3>3, SumTakesOut
  <2>6. R[x] \in Nat
    OBVIOUS
  <2>7. t \ {x} \in SUBSET T
    OBVIOUS
  <2>8. /\ SumFunctionOnSet(R, S) \in Nat /\ SumFunctionOnSet(R, t) \in Nat
        /\ SumFunctionOnSet(R, S \cup t) \in Nat
        /\ SumFunctionOnSet(R, S \cup (t \ {x})) \in Nat
        /\ SumFunctionOnSet(R, t \ {x}) \in Nat
    BY <1>1, <2>7
  <2>9. SumFunctionOnSet(R, S \cup t) = SumFunctionOnSet(R, S) + SumFunctionOnSet(R, t)
    BY <2>3, <2>4, <2>5, <2>6, <2>8
  <2> QED
    BY <1>2, <2>9
<1> QED
  BY <1>3, <1>4

LEMMA SumOfLess ==
  ASSUME NEW K, NEW R \in [K -> Nat], NEW S \in SUBSET K, NEW T \in SUBSET S,
         IsFiniteSet(S)
  PROVE  SumFunctionOnSet(R, T) <= SumFunctionOnSet(R, S)
<1>1. IsFiniteSet(T) /\ IsFiniteSet(S \ T)
  BY FS_Subset
<1>2. SumFunctionOnSet(R, T \cup (S \ T)) = SumFunctionOnSet(R, T) + SumFunctionOnSet(R, S \ T)
  BY <1>1, SumOfTwo
<1>3. T \cup (S \ T) = S
  OBVIOUS
<1>4. SumFunctionOnSet(R, T) \in Nat /\ SumFunctionOnSet(R, S \ T) \in Nat
  BY <1>1, SumType
<1>5. SumFunctionOnSet(R, S) = SumFunctionOnSet(R, T) + SumFunctionOnSet(R, S \ T)
  BY <1>2, <1>3
<1> QED
  BY <1>4, <1>5

LEMMA SumOfNoLess ==
  ASSUME NEW K, NEW R \in [K -> Nat], NEW Q \in [K -> Nat],
         NEW S \in SUBSET K, IsFiniteSet(S), \A k \in S : R[k] <= Q[k]
  PROVE  /\ SumFunctionOnSet(R, S) \in Nat /\ SumFunctionOnSet(Q, S) \in Nat
         /\ SumFunctionOnSet(R, S) <= SumFunctionOnSet(Q, S)
<1> DEFINE Bad == {s \in SUBSET S : ~(SumFunctionOnSet(R, s) <= SumFunctionOnSet(Q, s))}
<1>1. \A s \in SUBSET S : /\ IsFiniteSet(s) /\ SumFunctionOnSet(R, s) \in Nat
                          /\ SumFunctionOnSet(Q, s) \in Nat
  BY FS_Subset, SumType
<1> SUFFICES ASSUME Bad # {} PROVE FALSE
  BY <1>1
<1>2. PICK s \in Bad : \A t \in Bad : ~(t \subseteq s /\ t # s)
  <2>1. Bad \subseteq SUBSET S
    OBVIOUS
  <2> HIDE DEF Bad
  <2> QED
    BY <2>1, SmallestSet
<1>3. CASE s = {}
  <2>1. SumFunctionOnSet(R, s) = 0 /\ SumFunctionOnSet(Q, s) = 0
    BY <1>1, <1>3, SumUnfolds
  <2> QED
    BY <1>2, <2>1
<1>4. CASE s # {}
  <2>1. PICK x \in s : TRUE
    BY <1>4
  <2> DEFINE u == s \ {x}
  <2>2. u \in SUBSET S /\ u \notin Bad /\ x \in S
    BY <1>2
  <2>3. SumFunctionOnSet(R, s) = R[x] + SumFunctionOnSet(R, u)
    BY <1>1, SumTakesOut
  <2>4. SumFunctionOnSet(Q, s) = Q[x] + SumFunctionOnSet(Q, u)
    BY <1>1, SumTakesOut
  <2>5. SumFunctionOnSet(R, u) <= SumFunctionOnSet(Q, u)
    BY <2>2
  <2>6. R[x] \in Nat /\ Q[x] \in Nat /\ R[x] <= Q[x]
    BY <2>2
  <2> HIDE DEF u
  <2>7. SumFunctionOnSet(R, u) \in Nat /\ SumFunctionOnSet(Q, u) \in Nat
    BY <1>1, <2>2
  <2>8. SumFunctionOnSet(R, s) <= SumFunctionOnSet(Q, s)
    BY <2>3, <2>4, <2>5, <2>6, <2>7
  <2> QED
    BY <1>2, <2>8
<1> QED
  BY <1>3, <1>4

(* n times the same *)
LEMMA SumOfTheSame ==
  ASSUME NEW S, IsFiniteSet(S), NEW c \in Nat
  PROVE  SumFunctionOnSet([k \in S |-> c], S) = Cardinality(S) * c
<1> DEFINE R == [k \in S |-> c]
           Bad == {s \in SUBSET S : SumFunctionOnSet(R, s) # Cardinality(s) * c}
<1>1. R \in [S -> Nat] /\ \A k \in S : R[k] = c
  OBVIOUS
<1> HIDE DEF R
<1>2. \A s \in SUBSET S : /\ IsFiniteSet(s) /\ Cardinality(s) \in Nat
                          /\ SumFunctionOnSet(R, s) \in Nat
  BY <1>1, FS_Subset, FS_CardinalityType, SumType
<1> SUFFICES ASSUME Bad # {} PROVE FALSE
  BY <1>1 DEF R
<1>3. PICK s \in Bad : \A t \in Bad : ~(t \subseteq s /\ t # s)
  <2>1. Bad \subseteq SUBSET S
    OBVIOUS
  <2> HIDE DEF Bad
  <2> QED
    BY <2>1, SmallestSet
<1>4. CASE s = {}
  <2>1. SumFunctionOnSet(R, s) = 0 /\ Cardinality(s) = 0
    BY <1>2, <1>4, SumUnfolds, FS_EmptySet
  <2> QED
    BY <1>3, <2>1
<1>5. CASE s # {}
  <2>1. PICK x \in s : TRUE
    BY <1>5
  <2> DEFINE u == s \ {x}
  <2>2. u \in SUBSET S /\ u \notin Bad /\ x \in S
    BY <1>3
  <2>3. SumFunctionOnSet(R, s) = R[x] + SumFunctionOnSet(R, u)
    BY <1>1, <1>2, SumTakesOut
  <2>4. Cardinality(u) = Cardinality(s) - 1
    BY <1>2, FS_RemoveElement
  <2>5. SumFunctionOnSet(R, u) = Cardinality(u) * c
    BY <2>2
  <2>6. R[x] = c
    BY <1>1, <2>2
  <2> HIDE DEF u
  <2>7. Cardinality(s) \in Nat
    BY <1>2
  <2>8. (Cardinality(s) - 1) * c = Cardinality(s) * c - c
    BY <2>7
  <2>9. SumFunctionOnSet(R, s) = Cardinality(s) * c
    BY <2>3, <2>4, <2>5, <2>6, <2>7, <2>8
  <2> QED
    BY <1>3, <2>9
<1> QED
  BY <1>4, <1>5

(* how a sum changes when one of its terms grows by at most e *)
LEMMA SumChanges ==
  ASSUME NEW S, IsFiniteSet(S), NEW R \in [S -> Nat], NEW Q \in [S -> Nat],
         NEW x \in S, NEW e \in Int,
         \A k \in S \ {x} : Q[k] <= R[k], Q[x] <= R[x] + e
  PROVE  SumFunctionOnSet(Q, S) <= SumFunctionOnSet(R, S) + e
<1> DEFINE T == S \ {x}
<1>1. T \in SUBSET S /\ IsFiniteSet(T)
  BY FS_Subset
<1>2. /\ SumFunctionOnSet(Q, T) \in Nat /\ SumFunctionOnSet(R, T) \in Nat
      /\ SumFunctionOnSet(Q, T) <= SumFunctionOnSet(R, T)
  <2>1. \A k \in T : Q[k] <= R[k]
    OBVIOUS
  <2> HIDE DEF T
  <2> QED
    BY <1>1, <2>1, SumOfNoLess
<1>3. /\ SumFunctionOnSet(Q, S) = Q[x] + SumFunctionOnSet(Q, T)
      /\ SumFunctionOnSet(R, S) = R[x] + SumFunctionOnSet(R, T)
  BY SumTakesOut
<1>4. Q[x] \in Nat /\ R[x] \in Nat
  OBVIOUS
<1> HIDE DEF T
<1> QED
  BY <1>2, <1>3, <1>4

-----------------------------------------------------------------------------
(* Folds over sequences.                                                   *)

IsFold(f, G, C, b, D) ==
    \A s \in D : f[s] = IF s = {} THEN b ELSE G[<<C[s], f[s \ {C[s]}]>>]

Chooses(C, S) == \A s \in SUBSET S : s # {} => C[s] \in s

LEMMA FoldsAgree ==
  ASSUME NEW S, IsFiniteSet(S), NEW G, NEW C, Chooses(C, S), NEW b,
         NEW T \in SUBSET S, NEW f, NEW g,
         IsFold(f, G, C, b, SUBSET S), IsFold(g, G, C, b, SUBSET T)
  PROVE  f[T] = g[T]
<1> DEFINE Bad == {s \in SUBSET T : f[s] # g[s]}
<1> SUFFICES ASSUME Bad # {} PROVE FALSE
  OBVIOUS
<1>1. PICK s \in Bad : \A t \in Bad : ~(t \subseteq s /\ t # s)
  <2>1. Bad \subseteq SUBSET S
    OBVIOUS
  <2> HIDE DEF Bad
  <2> QED
    BY <2>1, SmallestSet
<1>2. s # {}
  BY <1>1 DEF IsFold
<1>3. C[s] \in s
  BY <1>1, <1>2 DEF Chooses
<1>4. f[s \ {C[s]}] = g[s \ {C[s]}]
  BY <1>1, <1>3
<1>5. f[s] = G[<<C[s], f[s \ {C[s]}]>>]
  BY <1>1, <1>2 DEF IsFold
<1>6. g[s] = G[<<C[s], g[s \ {C[s]}]>>]
  BY <1>1, <1>2 DEF IsFold
<1> QED
  BY <1>1, <1>4, <1>5, <1>6

FoldOf(G, C, b, V, S) == CHOOSE f : f \in [SUBSET S -> V] /\ IsFold(f, G, C, b, SUBSET S)

LEMMA FoldExists ==
  ASSUME NEW S, IsFiniteSet(S), NEW V, NEW b \in V, NEW G \in [S \X V -> V],
         NEW C, Chooses(C, S)
  PROVE  \E f \in [SUBSET S -> V] : IsFold(f, G, C, b, SUBSET S)
<1> DEFINE Has(s) == \E f : f \in [SUBSET s -> V] /\ IsFold(f, G, C, b, SUBSET s)
           Bad == {s \in SUBSET S : ~Has(s)}
<1> SUFFICES ASSUME Bad # {} PROVE FALSE
  OBVIOUS
<1>1. PICK s \in Bad : \A t \in Bad : ~(t \subseteq s /\ t # s)
  <2>1. Bad \subseteq SUBSET S
    OBVIOUS
  <2> HIDE DEF Bad
  <2> QED
    BY <2>1, SmallestSet
<1> DEFINE F(t) == FoldOf(G, C, b, V, t)
<1>2. \A t \in SUBSET s : t # s =>
        F(t) \in [SUBSET t -> V] /\ IsFold(F(t), G, C, b, SUBSET t)
  <2> TAKE t \in SUBSET s
  <2> HAVE t # s
  <2>1. Has(t)
    BY <1>1
  <2> QED
    BY <2>1 DEF FoldOf
<1> DEFINE f == [t \in SUBSET s |->
                   IF t = {} THEN b ELSE G[<<C[t], F(t \ {C[t]})[t \ {C[t]}]>>]]
<1>3. \A t \in SUBSET s : t # {} =>
        C[t] \in t /\ t \ {C[t]} # s /\ t \ {C[t]} \in SUBSET s
  BY <1>1 DEF Chooses
<1>4. f \in [SUBSET s -> V]
  <2> SUFFICES ASSUME NEW t \in SUBSET s, t # {}
               PROVE  G[<<C[t], F(t \ {C[t]})[t \ {C[t]}]>>] \in V
    OBVIOUS
  <2>1. C[t] \in S
    BY <1>1, <1>3
  <2>2. F(t \ {C[t]}) \in [SUBSET (t \ {C[t]}) -> V]
    BY <1>2, <1>3
  <2>3. F(t \ {C[t]})[t \ {C[t]}] \in V
    BY <2>2
  <2> HIDE DEF F
  <2> QED
    BY <2>1, <2>3
<1>5. ASSUME NEW t \in SUBSET s, t # s
      PROVE  f[t] = F(t)[t]
  <2>1. CASE t = {}
    BY <2>1, <1>2, <1>5 DEF IsFold
  <2>2. CASE t # {}
    <3> DEFINE u == t \ {C[t]}
    <3>1. u \in SUBSET t /\ u # s /\ u \in SUBSET s
      BY <1>3, <2>2
    <3>2. IsFold(F(t), G, C, b, SUBSET t) /\ IsFold(F(u), G, C, b, SUBSET u)
      BY <1>2, <1>5, <3>1
    <3>3. IsFiniteSet(t) /\ Chooses(C, t)
      BY <1>1, FS_Subset DEF Chooses
    <3>4. F(t)[u] = F(u)[u]
      <4> HIDE DEF F, u
      <4> QED
        BY <3>1, <3>2, <3>3, FoldsAgree
    <3>5. F(t)[t] = G[<<C[t], F(t)[u]>>]
      <4> HIDE DEF F
      <4> QED
        BY <3>2, <2>2 DEF IsFold
    <3> QED
      BY <3>4, <3>5, <2>2
  <2> QED
    BY <2>1, <2>2
<1>6. IsFold(f, G, C, b, SUBSET s)
  <2> SUFFICES ASSUME NEW t \in SUBSET s
               PROVE  f[t] = IF t = {} THEN b ELSE G[<<C[t], f[t \ {C[t]}]>>]
    BY DEF IsFold
  <2>1. CASE t = {}
    BY <2>1
  <2>2. CASE t # {}
    <3>1. f[t] = G[<<C[t], F(t \ {C[t]})[t \ {C[t]}]>>]
      BY <2>2
    <3>2. f[t \ {C[t]}] = F(t \ {C[t]})[t \ {C[t]}]
      <4>1. t \ {C[t]} \in SUBSET s /\ t \ {C[t]} # s
        BY <1>3, <2>2
      <4> HIDE DEF f
      <4> QED
        BY <1>5, <4>1
    <3> QED
      BY <2>2, <3>1, <3>2
  <2> QED
    BY <2>1, <2>2
<1> QED
  BY <1>1, <1>4, <1>6

LEMMA LeastOf ==
  ASSUME NEW T, T \subseteq Nat, T # {}
  PROVE  \E x \in T : \A y \in T : x <= y
<1> DEFINE R == {p \in Nat \X Nat : p[1] < p[2]}
<1>1. IsWellFoundedOn(R, Nat)
  BY NatLessThanWellFounded DEF OpToRel
<1>2. \E x \in T : \A y \in T : ~(<<y, x>> \in R)
  <2> HIDE DEF R
  <2> QED
    BY <1>1, WFMin
<1>3. PICK x \in T : \A y \in T : ~(<<y, x>> \in R)
  BY <1>2
<1>4. \A y \in T : ~(y < x)
  BY <1>3
<1>5. \A y \in T : x <= y
  BY <1>4
<1> QED
  BY <1>5

LEMMA NatInd ==
  ASSUME NEW T, 0 \in T, \A n \in Nat : n \in T => n + 1 \in T
  PROVE  Nat \subseteq T
<1> SUFFICES ASSUME Nat \ T # {} PROVE FALSE
  OBVIOUS
<1>1. PICK x \in Nat \ T : \A y \in Nat \ T : x <= y
  BY LeastOf
<1>2. x # 0 /\ x - 1 \in Nat
  BY <1>1
<1>3. x - 1 \in T
  BY <1>1, <1>2
<1>4. (x - 1) + 1 \in T
  BY <1>2, <1>3
<1> QED
  BY <1>1, <1>4

MaxOf(S) == [s \in SUBSET S |-> Max(s)]

LEMMA MaxChooses ==
  ASSUME NEW n \in Nat
  PROVE  /\ Chooses(MaxOf(1..n), 1..n)
         /\ \A m \in 1..n : Max(1..m) = m
<1>1. ASSUME NEW s \in SUBSET (1..n), s # {}
      PROVE  Max(s) \in s
  <2> DEFINE T == {n - x : x \in s}
  <2>0. \A x \in s : x \in Int /\ 1 <= x /\ x <= n
    BY <1>1
  <2>1. T \subseteq Nat
    <3> SUFFICES ASSUME NEW x \in s PROVE n - x \in Nat
      OBVIOUS
    <3> QED
      BY <2>0
  <2>11. T # {}
    BY <1>1
  <2>2. PICK y \in T : \A z \in T : y <= z
    <3> HIDE DEF T
    <3> QED
      BY <2>1, <2>11, LeastOf
  <2>3. PICK x \in s : y = n - x
    BY <2>2
  <2>4. \A z \in s : x >= z
    <3> TAKE z \in s
    <3>1. n - z \in T /\ z \in Int /\ x \in Int
      BY <2>3
    <3>2. n - x <= n - z
      BY <2>2, <2>3, <3>1
    <3> QED
      BY <3>1, <3>2
  <2> QED
    BY <2>3, <2>4 DEF Max
<1>2. Chooses(MaxOf(1..n), 1..n)
  BY <1>1 DEF Chooses, MaxOf
<1>3. ASSUME NEW m \in 1..n
      PROVE  Max(1..m) = m
  <2>1. 1..m \in SUBSET (1..n) /\ 1..m # {} /\ m \in 1..m
    BY <1>3
  <2>2. Max(1..m) \in 1..m /\ Max(1..m) >= m
    BY <2>1 DEF Max
  <2> QED
    BY <2>2
<1> QED
  BY <1>2, <1>3

(* f[n] is what is left of the first n *)
LeavesOf(f, seq, keys, K) ==
    /\ f \in [0..Len(seq) -> Seq(K)]
    /\ f[0] = <<>>
    /\ \A n \in 1..Len(seq) :
         f[n] = IF seq[n] \in keys THEN f[n - 1] ELSE Append(f[n - 1], seq[n])

LEMMA WithoutSteps ==
  ASSUME NEW K, NEW seq \in Seq(K), NEW keys
  PROVE  \E f : LeavesOf(f, seq, keys, K) /\ Without(seq, keys) = f[Len(seq)]
<1> DEFINE S == 1..Len(seq)
           Iter(f) == f = [s \in SUBSET S |->
               IF s = {} THEN <<>>
               ELSE LET x == Max(s)
                    IN  IF seq[x] \in keys THEN f[s \ {x}]
                        ELSE Append(f[s \ {x}], seq[x])]
           G == [p \in S \X Seq(K) |->
                   IF seq[p[1]] \in keys THEN p[2] ELSE Append(p[2], seq[p[1]])]
           C == MaxOf(S)
<1>0. Len(seq) \in Nat /\ DOMAIN seq = S /\ IsFiniteSet(S) /\ \A i \in S : seq[i] \in K
  BY FS_Interval
<1>1. Without(seq, keys) = (CHOOSE f : Iter(f))[S]
  BY <1>0 DEF Without, FoldLeft, MapThenFoldSet
<1>2. Chooses(C, S)
  BY <1>0, MaxChooses
<1>3. G \in [S \X Seq(K) -> Seq(K)]
  BY <1>0
<1>4. PICK f \in [SUBSET S -> Seq(K)] : IsFold(f, G, C, <<>>, SUBSET S)
  <2>1. IsFiniteSet(S) /\ <<>> \in Seq(K)
    BY <1>0
  <2>2. \E f \in [SUBSET S -> Seq(K)] : IsFold(f, G, C, <<>>, SUBSET S)
    <3> DEFINE e == <<>>
               V == Seq(K)
    <3>1. e \in V /\ G \in [S \X V -> V]
      BY <1>3
    <3> HIDE DEF G, C, S, e, V
    <3>2. \E f \in [SUBSET S -> V] : IsFold(f, G, C, e, SUBSET S)
      BY <1>2, <2>1, <3>1, FoldExists
    <3> QED
      BY <3>2 DEF e, V
  <2> HIDE DEF G, C, S
  <2> QED
    BY <2>2
<1>5. ASSUME NEW s \in SUBSET S, s # {}
      PROVE  /\ Max(s) \in s
             /\ f[s] = IF seq[Max(s)] \in keys THEN f[s \ {Max(s)}]
                       ELSE Append(f[s \ {Max(s)}], seq[Max(s)])
  <2>1. C[s] = Max(s) /\ Max(s) \in s
    BY <1>2, <1>5 DEF Chooses, MaxOf
  <2>2. f[s] = G[<<C[s], f[s \ {C[s]}]>>]
    BY <1>4, <1>5 DEF IsFold
  <2>3. f[s \ {C[s]}] \in Seq(K)
    BY <1>4
  <2> QED
    BY <2>1, <2>2, <2>3
<1>6. f[{}] = <<>>
  BY <1>4 DEF IsFold
<1>7. Iter(f)
  BY <1>4, <1>5, <1>6
<1>8. PICK g : Iter(g) /\ Without(seq, keys) = g[S]
  <2> HIDE DEF Iter
  <2> QED
    BY <1>1, <1>7
<1>9. g[{}] = <<>>
  BY <1>8
<1>10. ASSUME NEW n \in S
       PROVE  g[1..n] = IF seq[n] \in keys THEN g[1..(n - 1)] ELSE Append(g[1..(n - 1)], seq[n])
  <2>1. 1..n \in SUBSET S /\ 1..n # {} /\ (1..n) \ {n} = 1..(n - 1) /\ Max(1..n) = n
    BY <1>0, MaxChooses
  <2> QED
    BY <1>8, <2>1
<1> DEFINE h == [n \in 0..Len(seq) |-> g[1..n]]
<1>11. /\ h[0] = <<>> /\ Without(seq, keys) = h[Len(seq)]
       /\ \A m \in S : h[m] = IF seq[m] \in keys THEN h[m - 1] ELSE Append(h[m - 1], seq[m])
  <2>1. 1..0 = {} /\ 0 \in 0..Len(seq) /\ Len(seq) \in 0..Len(seq)
    BY <1>0
  <2>2. ASSUME NEW m \in S
        PROVE  h[m] = g[1..m] /\ h[m - 1] = g[1..(m - 1)]
    <3>1. m \in 0..Len(seq) /\ m - 1 \in 0..Len(seq)
      BY <1>0
    <3> HIDE DEF S
    <3> QED
      BY <3>1
  <2>3. h[0] = g[1..0] /\ h[Len(seq)] = g[S]
    BY <2>1
  <2> HIDE DEF h, S
  <2> QED
    BY <1>8, <1>9, <1>10, <2>1, <2>2, <2>3
<1> HIDE DEF h
<1>12. ASSUME NEW n \in 0..Len(seq)
       PROVE  h[n] \in Seq(K)
  <2> DEFINE T == {m \in Nat : m <= Len(seq) => h[m] \in Seq(K)}
  <2>1. 0 \in T
    <3>1. h[0] \in Seq(K)
      BY <1>11
    <3> QED
      BY <3>1
  <2>2. ASSUME NEW m \in Nat, m \in T PROVE m + 1 \in T
    <3> SUFFICES ASSUME m + 1 <= Len(seq) PROVE h[m + 1] \in Seq(K)
      OBVIOUS
    <3>1. m + 1 \in S /\ m <= Len(seq) /\ (m + 1) - 1 = m
      BY <1>0
    <3>2. h[m] \in Seq(K) /\ seq[m + 1] \in K
      BY <1>0, <2>2, <3>1
    <3>3. h[m + 1] = IF seq[m + 1] \in keys THEN h[m] ELSE Append(h[m], seq[m + 1])
      <4> HIDE DEF S
      <4> QED
        BY <1>11, <3>1
    <3>4. Append(h[m], seq[m + 1]) \in Seq(K)
      BY <3>2
    <3> QED
      BY <3>2, <3>3, <3>4
  <2>3. Nat \subseteq T
    <3> HIDE DEF T
    <3> QED
      BY <2>1, <2>2, NatInd
  <2>4. n \in Nat /\ n <= Len(seq)
    BY <1>0
  <2> QED
    BY <2>3, <2>4
<1>13. h \in [0..Len(seq) -> Seq(K)]
  BY <1>12 DEF h
<1> QED
  BY <1>11, <1>13 DEF LeavesOf
LEMMA LargestOf ==
  ASSUME NEW n \in Nat, NEW T \in SUBSET (0..n), T # {}
  PROVE  \E x \in T : \A y \in T : y <= x
<1> DEFINE B == {n - x : x \in T}
<1>1. \A x \in T : x \in Int /\ 0 <= x /\ x <= n
  OBVIOUS
<1>2. B \subseteq Nat
  <2> SUFFICES ASSUME NEW x \in T PROVE n - x \in Nat
    OBVIOUS
  <2> QED
    BY <1>1
<1>3. B # {}
  OBVIOUS
<1>4. PICK b \in B : \A c \in B : b <= c
  <2> HIDE DEF B
  <2> QED
    BY <1>2, <1>3, LeastOf
<1>5. PICK x \in T : b = n - x
  BY <1>4
<1>6. \A y \in T : y <= x
  <2> TAKE y \in T
  <2>1. n - x <= n - y
    BY <1>4, <1>5
  <2> QED
    BY <1>1, <2>1
<1> QED
  BY <1>6

LEMMA KeysOf ==
  ASSUME NEW K, NEW seq \in Seq(K)
  PROVE  /\ ToSet(seq) \in SUBSET K /\ IsFiniteSet(ToSet(seq))
         /\ ToSet(seq) = {seq[i] : i \in 1..Len(seq)} /\ Len(seq) \in Nat
<1>1. DOMAIN seq = 1..Len(seq) /\ Len(seq) \in Nat /\ \A i \in 1..Len(seq) : seq[i] \in K
  OBVIOUS
<1>2. ToSet(seq) = {seq[i] : i \in 1..Len(seq)}
  BY <1>1 DEF ToSet
<1>3. IsFiniteSet(ToSet(seq))
  <2>1. seq \in Surjection(1..Len(seq), ToSet(seq))
    BY <1>1, <1>2 DEF Surjection
  <2>2. IsFiniteSet(1..Len(seq))
    BY <1>1, FS_Interval
  <2> QED
    BY <2>1, <2>2, FS_Surjection
<1> QED
  BY <1>1, <1>2, <1>3

LEMMA WithoutKeys ==
  ASSUME NEW K, NEW seq \in Seq(K), NEW keys
  PROVE  Without(seq, keys) \in Seq(K) /\ ToSet(Without(seq, keys)) = ToSet(seq) \ keys
<1>0. PICK f : LeavesOf(f, seq, keys, K) /\ Without(seq, keys) = f[Len(seq)]
  BY WithoutSteps
<1>1. /\ f \in [0..Len(seq) -> Seq(K)]
      /\ f[0] = <<>> /\ Without(seq, keys) = f[Len(seq)]
      /\ \A n \in 1..Len(seq) :
           f[n] = IF seq[n] \in keys THEN f[n - 1] ELSE Append(f[n - 1], seq[n])
  BY <1>0 DEF LeavesOf
<1> DEFINE T == {n \in Nat : n <= Len(seq) =>
                   ToSet(f[n]) = {seq[i] : i \in 1..n} \ keys}
<1>2. Len(seq) \in Nat /\ \A i \in 1..Len(seq) : seq[i] \in K
  OBVIOUS
<1>3. 0 \in T
  <2>1. ToSet(<<>>) = {}
    BY DEF ToSet
  <2>2. 1..0 = {}
    OBVIOUS
  <2> QED
    BY <1>1, <2>1, <2>2
<1>4. ASSUME NEW m \in Nat, m \in T PROVE m + 1 \in T
  <2> SUFFICES ASSUME m + 1 <= Len(seq)
               PROVE  ToSet(f[m + 1]) = {seq[i] : i \in 1..(m + 1)} \ keys
    OBVIOUS
  <2>1. /\ m + 1 \in 1..Len(seq) /\ (m + 1) - 1 = m /\ m <= Len(seq) /\ m \in 0..Len(seq)
        /\ 1..(m + 1) = (1..m) \cup {m + 1}
    BY <1>2
  <2>2. ToSet(f[m]) = {seq[i] : i \in 1..m} \ keys
    BY <1>4, <2>1
  <2>3. f[m] \in Seq(K) /\ seq[m + 1] \in K
    BY <1>1, <1>2, <2>1
  <2>4. f[m + 1] = IF seq[m + 1] \in keys THEN f[m] ELSE Append(f[m], seq[m + 1])
    BY <1>1, <2>1
  <2>5. ToSet(Append(f[m], seq[m + 1])) = ToSet(f[m]) \cup {seq[m + 1]}
    <3> DEFINE g == f[m]
               a == Append(g, seq[m + 1])
    <3>1. /\ g \in Seq(K) /\ Len(g) \in Nat /\ DOMAIN g = 1..Len(g) /\ DOMAIN a = 1..(Len(g) + 1)
          /\ \A i \in 1..Len(g) : a[i] = g[i]
          /\ a[Len(g) + 1] = seq[m + 1]
      BY <2>3
    <3> HIDE DEF g, a
    <3>2. 1..(Len(g) + 1) = (1..Len(g)) \cup {Len(g) + 1}
      BY <3>1
    <3>3. ToSet(a) = {a[i] : i \in 1..(Len(g) + 1)} /\ ToSet(g) = {g[i] : i \in 1..Len(g)}
      BY <3>1 DEF ToSet
    <3>4. {a[i] : i \in 1..(Len(g) + 1)} = {g[i] : i \in 1..Len(g)} \cup {seq[m + 1]}
      BY <3>1, <3>2
    <3> QED
      BY <3>3, <3>4 DEF g, a
  <2>6. {seq[i] : i \in 1..(m + 1)} = {seq[i] : i \in 1..m} \cup {seq[m + 1]}
    BY <2>1
  <2> QED
    BY <2>2, <2>4, <2>5, <2>6
<1>5. Nat \subseteq T
  <2> HIDE DEF T
  <2> QED
    BY <1>3, <1>4, NatInd
<1>6. ToSet(f[Len(seq)]) = {seq[i] : i \in 1..Len(seq)} \ keys
  <2>1. Len(seq) \in T
    <3> HIDE DEF T
    <3> QED
      BY <1>2, <1>5
  <2> QED
    BY <1>2, <2>1
<1>7. f[Len(seq)] \in Seq(K)
  BY <1>1, <1>2
<1> QED
  BY <1>1, <1>6, <1>7, KeysOf

-----------------------------------------------------------------------------
(* Rows in a tier.                                                         *)

LEMMA RowsAreSums ==
  ASSUME NEW S PROVE RowsIn(S) = SumFunctionOnSet(RowsPerKey, S)
  BY DEF RowsIn, MapThenSumSet, SumFunctionOnSet, FoldFunctionOnSet

LEMMA Rows ==
  ASSUME RowsAreCounted, NEW S \in SUBSET Keys, IsFiniteSet(S)
  PROVE  /\ RowsIn(S) \in Nat /\ RowsIn({}) = 0
         /\ \A T \in SUBSET S : RowsIn(T) \in Nat /\ RowsIn(T) <= RowsIn(S)
<1>1. RowsPerKey \in [Keys -> Nat]
  BY DEF RowsAreCounted
<1>2. RowsIn(S) \in Nat
  BY <1>1, SumType, RowsAreSums
<1>3. ASSUME NEW T \in SUBSET S
      PROVE  RowsIn(T) \in Nat /\ RowsIn(T) <= RowsIn(S)
  <2>1. IsFiniteSet(T) /\ T \in SUBSET Keys
    BY FS_Subset
  <2>2. RowsIn(T) \in Nat
    BY <1>1, <2>1, SumType, RowsAreSums
  <2>3. SumFunctionOnSet(RowsPerKey, T) <= SumFunctionOnSet(RowsPerKey, S)
    BY <1>1, SumOfLess
  <2> QED
    BY <2>2, <2>3, RowsAreSums
<1>4. RowsIn({}) = 0
  BY FS_EmptySet, SumUnfolds, RowsAreSums
<1> QED
  BY <1>2, <1>3, <1>4

LEMMA RowsOfTwo ==
  ASSUME RowsAreCounted, NEW S \in SUBSET Keys, NEW T \in SUBSET Keys,
         IsFiniteSet(S), IsFiniteSet(T), S \cap T = {}
  PROVE  RowsIn(S \cup T) = RowsIn(S) + RowsIn(T)
<1>1. RowsPerKey \in [Keys -> Nat]
  BY DEF RowsAreCounted
<1> QED
  BY <1>1, SumOfTwo, RowsAreSums

LEMMA RowsOfOneMore ==
  ASSUME RowsAreCounted, NEW S \in SUBSET Keys, IsFiniteSet(S), NEW k \in Keys
  PROVE  /\ IsFiniteSet(S \cup {k}) /\ RowsIn(S \cup {k}) <= RowsIn(S) + RowsPerKey[k]
<1>1. RowsPerKey \in [Keys -> Nat] /\ RowsPerKey[k] \in Nat
  BY DEF RowsAreCounted
<1>2. IsFiniteSet(S \cup {k}) /\ RowsIn(S) \in Nat
  BY FS_AddElement, Rows
<1>3. CASE k \in S
  <2>1. S \cup {k} = S
    BY <1>3
  <2>2. RowsIn(S) <= RowsIn(S) + RowsPerKey[k]
    BY <1>1, <1>2
  <2> QED
    BY <1>2, <2>1, <2>2
<1>4. CASE k \notin S
  <2>1. (S \cup {k}) \ {k} = S /\ S \cup {k} \in SUBSET Keys /\ k \in S \cup {k}
    BY <1>4
  <2>2. SumFunctionOnSet(RowsPerKey, S \cup {k})
          = RowsPerKey[k] + SumFunctionOnSet(RowsPerKey, (S \cup {k}) \ {k})
    BY <1>1, <1>2, <2>1, SumTakesOut
  <2>3. RowsIn(S \cup {k}) = RowsPerKey[k] + RowsIn(S)
    BY <2>1, <2>2, RowsAreSums
  <2> QED
    BY <1>1, <1>2, <2>3
<1> QED
  BY <1>3, <1>4

LEMMA Fitting ==
  ASSUME RowsAreCounted, NEW keys \in Seq(Keys), NEW free \in Nat,
         NEW n, n = FittingLength(keys, free)
  PROVE  /\ n \in 0..Len(keys) /\ SubSeq(keys, 1, n) \in Seq(Keys)
         /\ ToSet(SubSeq(keys, 1, n)) \subseteq ToSet(keys)
         /\ RowsOf(SubSeq(keys, 1, n)) \in Nat
         /\ RowsOf(SubSeq(keys, 1, n)) <= free
         /\ n < Len(keys) =>
              /\ keys[n + 1] \in Keys
              /\ RowsOf(SubSeq(keys, 1, n)) + RowsPerKey[keys[n + 1]] > free
<1> DEFINE fits == {m \in 0..Len(keys) : RowsOf(SubSeq(keys, 1, m)) <= free}
<1>1. Len(keys) \in Nat /\ \A i \in 1..Len(keys) : keys[i] \in Keys
  OBVIOUS
<1>2. ASSUME NEW m \in 0..Len(keys)
      PROVE  /\ SubSeq(keys, 1, m) \in Seq(Keys)
             /\ ToSet(SubSeq(keys, 1, m)) = {keys[i] : i \in 1..m}
             /\ RowsOf(SubSeq(keys, 1, m)) \in Nat
             /\ IsFiniteSet(ToSet(SubSeq(keys, 1, m)))
  <2> DEFINE part == SubSeq(keys, 1, m)
  <2>1. part \in Seq(Keys) /\ Len(part) = m /\ \A i \in 1..m : part[i] = keys[i]
    BY <1>1
  <2> HIDE DEF part
  <2>2. ToSet(part) = {part[i] : i \in 1..m} /\ IsFiniteSet(ToSet(part)) /\ ToSet(part) \in SUBSET Keys
    BY <2>1, KeysOf
  <2>3. RowsOf(part) \in Nat
    BY <2>2, Rows DEF RowsOf
  <2> QED
    BY <2>1, <2>2, <2>3 DEF part
<1>3. 0 \in fits
  <2>1. SubSeq(keys, 1, 0) = <<>>
    OBVIOUS
  <2>2. ToSet(<<>>) = {}
    BY DEF ToSet
  <2>3. RowsIn({}) = 0
    BY Rows, FS_EmptySet
  <2>4. RowsOf(SubSeq(keys, 1, 0)) = 0
    BY <2>1, <2>2, <2>3 DEF RowsOf
  <2>5. 0 \in 0..Len(keys) /\ 0 <= free
    BY <1>1
  <2> QED
    BY <2>4, <2>5
<1>4. \E x \in fits : \A y \in fits : y <= x
  <2>1. fits \in SUBSET (0..Len(keys)) /\ fits # {}
    BY <1>3
  <2> HIDE DEF fits
  <2> QED
    BY <1>1, <2>1, LargestOf
<1>5. n \in fits /\ \A m \in fits : m <= n
  BY <1>4 DEF FittingLength
<1>6. n \in 0..Len(keys) /\ RowsOf(SubSeq(keys, 1, n)) <= free
  BY <1>5
<1>7. ASSUME n < Len(keys)
      PROVE  RowsOf(SubSeq(keys, 1, n)) + RowsPerKey[keys[n + 1]] > free
  <2>1. n + 1 \in 0..Len(keys) /\ n + 1 \in 1..Len(keys) /\ 1..(n + 1) = (1..n) \cup {n + 1}
    BY <1>1, <1>6, <1>7
  <2>2. n + 1 \notin fits
    BY <1>5, <1>6
  <2>3. RowsOf(SubSeq(keys, 1, n + 1)) > free
    BY <1>2, <2>1, <2>2
  <2>4. ToSet(SubSeq(keys, 1, n + 1)) = ToSet(SubSeq(keys, 1, n)) \cup {keys[n + 1]}
    BY <1>2, <1>6, <2>1
  <2>5. ToSet(SubSeq(keys, 1, n)) \in SUBSET Keys /\ keys[n + 1] \in Keys
    BY <1>1, <1>2, <1>6, <2>1
  <2>6. RowsOf(SubSeq(keys, 1, n + 1)) <= RowsOf(SubSeq(keys, 1, n)) + RowsPerKey[keys[n + 1]]
    BY <1>2, <1>6, <2>4, <2>5, RowsOfOneMore DEF RowsOf
  <2>7. RowsPerKey[keys[n + 1]] \in Nat
    BY <2>5 DEF RowsAreCounted
  <2>8. RowsOf(SubSeq(keys, 1, n)) \in Nat /\ RowsOf(SubSeq(keys, 1, n + 1)) \in Nat
    BY <1>2, <1>6, <2>1
  <2> QED
    BY <2>3, <2>6, <2>7, <2>8
<1>8. n < Len(keys) => keys[n + 1] \in Keys
  BY <1>1, <1>6
<1>9. ToSet(SubSeq(keys, 1, n)) \subseteq ToSet(keys)
  <2>1. ToSet(SubSeq(keys, 1, n)) = {keys[i] : i \in 1..n}
    BY <1>2, <1>6
  <2>2. 1..n \subseteq 1..Len(keys)
    BY <1>1, <1>6
  <2>3. ToSet(keys) = {keys[i] : i \in 1..Len(keys)}
    BY KeysOf
  <2> QED
    BY <2>1, <2>2, <2>3
<1> QED
  BY <1>2, <1>6, <1>7, <1>8, <1>9

-----------------------------------------------------------------------------
(* The disk tier's invariant.                                              *)

LEMMA StoreRows ==
  ASSUME StoreAssumption PROVE RowsAreCounted
  BY DEF StoreAssumption

LEMMA RoomType ==
  ASSUME StoreAssumption, StoreTypes
  PROVE  /\ Room \in [Stores -> Nat]
         /\ SumFunction(Room) = SumFunctionOnSet(Room, Stores) /\ SumFunction(Room) \in Nat
         /\ \A s \in Stores :
              /\ Known(s) \in Nat /\ RowsIn(written[s]) \in Nat
              /\ Room[s] = IF Known(s) >= FileCapacity THEN 0 ELSE FileCapacity - Known(s)
<1>1. ASSUME NEW s \in Stores
      PROVE  Known(s) \in Nat /\ RowsIn(written[s]) \in Nat
  <2>1. RowsIn(file) \in Nat /\ RowsIn(written[s]) \in Nat /\ used[s] \in Nat
    BY Rows, StoreRows DEF StoreTypes
  <2> QED
    BY <2>1 DEF Known
<1>2. FileCapacity \in Nat /\ IsFiniteSet(Stores)
  BY DEF StoreAssumption
<1>3. Room \in [Stores -> Nat]
  BY <1>1, <1>2 DEF Room
<1>4. SumFunction(Room) = SumFunctionOnSet(Room, Stores)
  BY DEF SumFunction, Room
<1>5. SumFunctionOnSet(Room, Stores) \in Nat
  BY <1>2, <1>3, SumType
<1> QED
  BY <1>1, <1>3, <1>4, <1>5 DEF Room

LEMMA PutChooses ==
  ASSUME StoreAssumption, StoreTypes, NEW s \in Stores, StorePut(s)
  PROVE  /\ fresh' = [fresh EXCEPT ![s] = fresh'[s]]
         /\ leftOut' = [leftOut EXCEPT ![s] = leftOut'[s]]
         /\ fresh'[s] \in Seq(Keys) /\ leftOut'[s] \in SUBSET Keys
         /\ ToSet(fresh'[s]) \cap file = {}
         /\ used[s] + RowsOf(fresh'[s]) <= FileCapacity
         /\ \A k \in leftOut'[s] :
              used[s] + RowsOf(fresh'[s]) + RowsPerKey[k] > FileCapacity
<1>1. PICK keys \in DurableOffers :
        LET new == Unheld(keys)
            n   == FittingLength(new, FileCapacity - used[s])
        IN  /\ fresh' = [fresh EXCEPT ![s] = SubSeq(new, 1, n)]
            /\ leftOut' = [leftOut EXCEPT ![s] =
                             IF n < Len(new) THEN {new[n + 1]} ELSE {}]
  BY DEF StorePut
<1> DEFINE new == Unheld(keys)
           free == FileCapacity - used[s]
           n == FittingLength(new, free)
<1>2. keys \in Seq(Keys) /\ used[s] \in Nat /\ FileCapacity \in Nat /\ free \in Nat
  BY DEF StoreAssumption, StoreTypes, StorePut
<1>3. new \in Seq(Keys) /\ ToSet(new) = ToSet(keys) \ file
  BY <1>2, WithoutKeys DEF Unheld
<1>4. /\ fresh'[s] = SubSeq(new, 1, n) /\ leftOut'[s] = IF n < Len(new) THEN {new[n + 1]} ELSE {}
      /\ fresh' = [fresh EXCEPT ![s] = fresh'[s]]
      /\ leftOut' = [leftOut EXCEPT ![s] = leftOut'[s]]
  <2>1. s \in DOMAIN fresh /\ s \in DOMAIN leftOut
    BY DEF StoreTypes
  <2> QED
    BY <1>1, <2>1
<1> HIDE DEF new
<1>5. /\ n \in 0..Len(new) /\ SubSeq(new, 1, n) \in Seq(Keys)
      /\ ToSet(SubSeq(new, 1, n)) \subseteq ToSet(new)
      /\ RowsOf(SubSeq(new, 1, n)) \in Nat
      /\ RowsOf(SubSeq(new, 1, n)) <= free
      /\ n < Len(new) =>
           /\ new[n + 1] \in Keys
           /\ RowsOf(SubSeq(new, 1, n)) + RowsPerKey[new[n + 1]] > free
  <2> HIDE DEF free
  <2> QED
    BY <1>2, <1>3, Fitting, StoreRows
<1> HIDE DEF n
<1>6. ASSUME NEW k \in leftOut'[s]
      PROVE  /\ k \in Keys
             /\ used[s] + RowsOf(fresh'[s]) + RowsPerKey[k] > FileCapacity
  <2>1. n < Len(new) /\ k = new[n + 1]
    BY <1>4, <1>6
  <2>2. k \in Keys /\ RowsPerKey[k] \in Nat
    BY <1>5, <2>1 DEF StoreAssumption, RowsAreCounted
  <2>3. RowsOf(fresh'[s]) + RowsPerKey[k] > free /\ RowsOf(fresh'[s]) \in Nat
    BY <1>4, <1>5, <2>1
  <2> QED
    BY <1>2, <2>2, <2>3
<1>7. used[s] + RowsOf(fresh'[s]) <= FileCapacity
  BY <1>2, <1>4, <1>5
<1> QED
  BY <1>3, <1>4, <1>5, <1>6, <1>7

LEMMA StoreTypesStep ==
  ASSUME StoreAssumption, StoreTypes, StoreNext
  PROVE  StoreTypes'
<1> PICK s \in Stores : \/ Open(s) \/ StorePut(s) \/ Insert(s) \/ FailInsert(s)
                        \/ Account(s) \/ FailCount(s) \/ Restart(s)
  BY DEF StoreNext
<1> USE DEF StoreTypes
<1>1. RowsIn(file) \in Nat
  BY Rows, StoreRows
<1>2. ToSet(fresh[s]) \in SUBSET Keys /\ IsFiniteSet(ToSet(fresh[s]))
  BY KeysOf
<1>3. RowsOf(fresh[s]) \in Nat
  BY <1>2, Rows, StoreRows DEF RowsOf
<1>4. CASE Open(s)
  BY <1>1, <1>4 DEF Open
<1>5. CASE StorePut(s)
  <2>1. /\ at' = [at EXCEPT ![s] = "insert"]
        /\ UNCHANGED <<file, used, written, uncounted>>
    BY <1>5 DEF StorePut
  <2>2. /\ fresh' = [fresh EXCEPT ![s] = fresh'[s]]
        /\ leftOut' = [leftOut EXCEPT ![s] = leftOut'[s]]
        /\ fresh'[s] \in Seq(Keys) /\ leftOut'[s] \in SUBSET Keys
    BY <1>5, PutChooses
  <2>3. fresh' \in [Stores -> Seq(Keys)] /\ leftOut' \in [Stores -> SUBSET Keys]
    BY <2>2
  <2> QED
    BY <2>1, <2>3
<1>6. CASE Insert(s)
  <2>1. file' \in SUBSET Keys /\ IsFiniteSet(file') /\ file \subseteq file'
    BY <1>2, <1>6, FS_Union DEF Insert
  <2>2. written' = [written EXCEPT ![s] = ToSet(fresh[s]) \ file] /\ file' = file \cup ToSet(fresh[s])
    BY <1>6 DEF Insert
  <2>3. written' \in [Stores -> SUBSET file']
    BY <2>1, <2>2
  <2> QED
    BY <1>6, <2>1, <2>3 DEF Insert
<1>7. CASE FailInsert(s)
  BY <1>7 DEF FailInsert, UsedAfterError
<1>8. CASE Account(s)
  <2>1. used[s] + RowsOf(fresh[s]) \in Nat
    BY <1>3
  <2> HIDE DEF StoreTypes
  <2>2. used' \in [Stores -> Nat]
    BY <1>1, <1>8, <2>1 DEF Account, StoreTypes
  <2> QED
    BY <1>8, <2>2 DEF Account, StoreTypes
<1>9. CASE FailCount(s)
  BY <1>9 DEF FailCount
<1>10. CASE Restart(s)
  BY <1>10 DEF Restart
<1> QED
  BY <1>4, <1>5, <1>6, <1>7, <1>8, <1>9, <1>10

(* what the put of one store does leaves the others' records alone *)
LEMMA OtherStores ==
  ASSUME StoreTypes, NEW s \in Stores, NEW t \in Stores \ {s},
         Open(s) \/ StorePut(s) \/ Insert(s) \/ FailInsert(s) \/ Account(s)
           \/ FailCount(s) \/ Restart(s)
  PROVE  /\ at'[t] = at[t] /\ used'[t] = used[t] /\ fresh'[t] = fresh[t]
         /\ written'[t] = written[t] /\ leftOut'[t] = leftOut[t]
         /\ file \subseteq file'
  BY DEF StoreTypes, Open, StorePut, Insert, FailInsert, Account, FailCount, Restart,
         UsedAfterError

LEMMA PutInvStep ==
  ASSUME StoreAssumption, StoreInv, StoreNext
  PROVE  \A t \in Stores : PutInv(t)'
<1> PICK s \in Stores : \/ Open(s) \/ StorePut(s) \/ Insert(s) \/ FailInsert(s)
                        \/ Account(s) \/ FailCount(s) \/ Restart(s)
  BY DEF StoreNext
<1>1. StoreTypes /\ StoreTypes' /\ \A t \in Stores : PutInv(t)
  BY StoreTypesStep DEF StoreInv
<1>2. ASSUME NEW t \in Stores \ {s}
      PROVE  PutInv(t)'
  <2>1. PutInv(t)
    BY <1>1
  <2>2. /\ at'[t] = at[t] /\ used'[t] = used[t] /\ fresh'[t] = fresh[t]
        /\ written'[t] = written[t] /\ leftOut'[t] = leftOut[t]
        /\ file \subseteq file'
    BY <1>1, OtherStores
  <2>3. written[t] \cap uncounted' = {}
    <3>1. CASE FailCount(s)
      <4>1. written[s] \cap written[t] = {}
        BY DEF StoreInv
      <4> QED
        BY <2>1, <3>1, <4>1 DEF FailCount, PutInv
    <3>2. CASE ~FailCount(s)
      <4>1. uncounted' = uncounted
        BY <3>2 DEF Open, StorePut, Insert, FailInsert, Account, Restart
      <4> QED
        BY <2>1, <4>1 DEF PutInv
    <3> QED
      BY <3>1, <3>2
  <2>4. RowsOf(fresh[t])' = RowsOf(fresh[t])
    BY <2>2 DEF RowsOf
  <2> QED
    BY <2>1, <2>2, <2>3, <2>4 DEF PutInv
<1>3. PutInv(s)'
  <2>1. PutInv(s) /\ s \in DOMAIN at /\ s \in DOMAIN used /\ s \in DOMAIN fresh
          /\ s \in DOMAIN written /\ s \in DOMAIN leftOut
    BY <1>1 DEF StoreTypes
  <2>2. CASE Open(s)
    BY <2>1, <2>2 DEF Open, PutInv, StoreTypes
  <2>3. CASE StorePut(s)
    <3>1. /\ at' = [at EXCEPT ![s] = "insert"] /\ at[s] = "idle"
          /\ UNCHANGED <<file, used, written, uncounted>>
      BY <2>3 DEF StorePut
    <3>2. /\ used[s] + RowsOf(fresh'[s]) <= FileCapacity
          /\ \A k \in leftOut'[s] :
               used[s] + RowsOf(fresh'[s]) + RowsPerKey[k] > FileCapacity
      BY <1>1, <2>3, PutChooses
    <3>3. at'[s] = "insert" /\ written[s] = {} /\ written'[s] = written[s] /\ used'[s] = used[s]
      BY <2>1, <3>1 DEF PutInv
    <3> QED
      BY <3>1, <3>2, <3>3 DEF PutInv
  <2>4. CASE Insert(s)
    <3>1. /\ at'[s] = "count" /\ written'[s] = ToSet(fresh[s]) \ file
          /\ at[s] = "insert" /\ file' = file \cup ToSet(fresh[s])
          /\ UNCHANGED <<used, fresh, leftOut, uncounted>>
      BY <2>1, <2>4 DEF Insert
    <3>2. uncounted \subseteq file
      BY <1>1 DEF StoreTypes
    <3>3. RowsOf(fresh[s])' = RowsOf(fresh[s]) /\ fresh'[s] = fresh[s] /\ used'[s] = used[s]
          /\ leftOut'[s] = leftOut[s]
      BY <3>1 DEF RowsOf
    <3> QED
      BY <2>1, <3>1, <3>2, <3>3 DEF PutInv
  <2>5. CASE FailInsert(s)
    BY <2>1, <2>5 DEF FailInsert, PutInv, StoreTypes
  <2>6. CASE Account(s)
    BY <2>1, <2>6 DEF Account, PutInv, StoreTypes
  <2>7. CASE FailCount(s)
    BY <2>1, <2>7 DEF FailCount, PutInv, StoreTypes
  <2>8. CASE Restart(s)
    BY <2>1, <2>8 DEF Restart, PutInv, StoreTypes
  <2> QED
    BY <2>2, <2>3, <2>4, <2>5, <2>6, <2>7, <2>8
<1> QED
  BY <1>2, <1>3

LEMMA CountedStep ==
  ASSUME StoreAssumption, StoreInv, StoreNext
  PROVE  \A t \in Stores : (at[t] # "closed" => CountedAreKeys(t))'
<1> PICK s \in Stores : \/ Open(s) \/ StorePut(s) \/ Insert(s) \/ FailInsert(s)
                        \/ Account(s) \/ FailCount(s) \/ Restart(s)
  BY DEF StoreNext
<1>1. StoreTypes /\ StoreTypes' /\ PutInv(s)
      /\ \A t \in Stores : at[t] # "closed" => CountedAreKeys(t)
  BY StoreTypesStep DEF StoreInv
<1>2. ASSUME NEW t \in Stores \ {s}, at'[t] # "closed"
      PROVE  CountedAreKeys(t)'
  <2>1. /\ at'[t] = at[t] /\ used'[t] = used[t] /\ fresh'[t] = fresh[t]
        /\ file \subseteq file'
    BY <1>1, OtherStores
  <2>2. PICK counted \in SUBSET file :
          RowsIn(counted) = used[t] /\ counted \cap ToSet(fresh[t]) = {}
    BY <1>1, <1>2, <2>1 DEF CountedAreKeys
  <2>3. counted \in SUBSET file'
    BY <2>1
  <2> QED
    BY <2>1, <2>2, <2>3 DEF CountedAreKeys
<1>3. ASSUME at'[s] # "closed"
      PROVE  CountedAreKeys(s)'
  <2>1. s \in DOMAIN at /\ s \in DOMAIN used /\ s \in DOMAIN fresh
    BY <1>1 DEF StoreTypes
  <2>2. ToSet(<<>>) = {}
    BY DEF ToSet
  <2>3. CASE Open(s)
    <3>1. used'[s] = RowsIn(file) /\ fresh'[s] = <<>> /\ file' = file
      <4>1. fresh[s] = <<>>
        BY <1>1, <2>3 DEF PutInv, Open
      <4> QED
        BY <2>1, <2>3, <4>1 DEF Open
    <3> QED
      BY <2>2, <3>1 DEF CountedAreKeys
  <2>4. at[s] # "closed" \/ Open(s)
    BY DEF StorePut, Insert, FailInsert, Account, FailCount, Restart
  <2>5. ASSUME at[s] # "closed"
        PROVE  \E counted \in SUBSET file :
                 RowsIn(counted) = used[s] /\ counted \cap ToSet(fresh[s]) = {}
    BY <1>1, <2>5 DEF CountedAreKeys
  <2>6. CASE StorePut(s)
    <3>1. PICK counted \in SUBSET file : RowsIn(counted) = used[s]
      BY <2>5, <2>6 DEF StorePut
    <3>2. ToSet(fresh'[s]) \cap file = {}
      BY <1>1, <2>6, PutChooses
    <3>3. used' = used /\ file' = file
      BY <2>6 DEF StorePut
    <3> QED
      BY <3>1, <3>2, <3>3 DEF CountedAreKeys
  <2>7. CASE Insert(s)
    <3>1. PICK counted \in SUBSET file :
            RowsIn(counted) = used[s] /\ counted \cap ToSet(fresh[s]) = {}
      BY <2>5, <2>7 DEF Insert
    <3>2. used' = used /\ fresh' = fresh /\ file \subseteq file'
      BY <2>7 DEF Insert
    <3> QED
      BY <3>1, <3>2 DEF CountedAreKeys
  <2>8. CASE FailInsert(s) \/ FailCount(s)
    <3>1. PICK counted \in SUBSET file : RowsIn(counted) = used[s]
      BY <2>5, <2>8 DEF FailInsert, FailCount
    <3>2. used'[s] = used[s] /\ fresh'[s] = <<>> /\ file' = file
      BY <2>1, <2>8 DEF FailInsert, FailCount, UsedAfterError
    <3> QED
      BY <2>2, <3>1, <3>2 DEF CountedAreKeys
  <2>9. CASE Account(s)
    <3>1. PICK counted \in SUBSET file :
            RowsIn(counted) = used[s] /\ counted \cap ToSet(fresh[s]) = {}
      BY <2>5, <2>9 DEF Account
    <3>2. /\ fresh'[s] = <<>> /\ file' = file
          /\ used'[s] = used[s] + RowsOf(fresh[s]) \/ used'[s] = RowsIn(file)
      BY <2>1, <2>9 DEF Account
    <3>3. CASE used'[s] = RowsIn(file)
      BY <2>2, <3>2, <3>3 DEF CountedAreKeys
    <3>4. CASE used'[s] = used[s] + RowsOf(fresh[s])
      <4>1. ToSet(fresh[s]) \subseteq file
        BY <1>1, <2>9 DEF Account, PutInv
      <4>2. /\ counted \in SUBSET Keys /\ ToSet(fresh[s]) \in SUBSET Keys
            /\ IsFiniteSet(counted) /\ IsFiniteSet(ToSet(fresh[s]))
        BY <1>1, <4>1, FS_Subset DEF StoreTypes
      <4>3. RowsIn(counted \cup ToSet(fresh[s])) = used[s] + RowsOf(fresh[s])
        BY <3>1, <4>2, RowsOfTwo, StoreRows DEF RowsOf
      <4>4. counted \cup ToSet(fresh[s]) \in SUBSET file'
        BY <3>2, <4>1
      <4> QED
        BY <2>2, <3>2, <3>4, <4>3, <4>4 DEF CountedAreKeys
    <3> QED
      BY <3>2, <3>3, <3>4
  <2>10. CASE Restart(s)
    BY <1>3, <2>1, <2>10 DEF Restart
  <2> QED
    BY <2>3, <2>6, <2>7, <2>8, <2>9, <2>10
<1> QED
  BY <1>2, <1>3

LEMMA WrittenApart ==
  ASSUME StoreAssumption, StoreInv, StoreNext
  PROVE  (\A s, t \in Stores : s # t => written[s] \cap written[t] = {})'
<1> PICK x \in Stores : \/ Open(x) \/ StorePut(x) \/ Insert(x) \/ FailInsert(x)
                        \/ Account(x) \/ FailCount(x) \/ Restart(x)
  BY DEF StoreNext
<1>1. StoreTypes /\ \A s, t \in Stores : s # t => written[s] \cap written[t] = {}
  BY DEF StoreInv
<1>2. \A t \in Stores \ {x} : written'[t] = written[t]
  BY <1>1, OtherStores
<1>3. \A t \in Stores : written[t] \subseteq file
  BY <1>1 DEF StoreTypes
<1>4. written'[x] = written[x] \/ written'[x] = {} \/ written'[x] \cap file = {}
  BY <1>1 DEF StoreTypes, Open, StorePut, Insert, FailInsert, Account, FailCount, Restart
<1>5. \A t \in Stores \ {x} : written'[x] \cap written[t] = {}
  BY <1>1, <1>3, <1>4
<1> QED
  BY <1>1, <1>2, <1>5

(* a store that is open knows of rows of the file only *)
LEMMA KnownIsWithin ==
  ASSUME StoreAssumption, StoreTypes, NEW s \in Stores, PutInv(s), CountedAreKeys(s)
  PROVE  used[s] + RowsIn(written[s]) <= RowsIn(file)
<1>1. PICK counted \in SUBSET file :
        RowsIn(counted) = used[s] /\ counted \cap ToSet(fresh[s]) = {}
  BY DEF CountedAreKeys
<1>2. /\ file \in SUBSET Keys /\ IsFiniteSet(file)
      /\ written[s] \in SUBSET file /\ written[s] \subseteq ToSet(fresh[s])
  BY DEF StoreTypes, PutInv
<1>3. /\ counted \in SUBSET Keys /\ written[s] \in SUBSET Keys
      /\ IsFiniteSet(counted) /\ IsFiniteSet(written[s])
      /\ counted \cap written[s] = {} /\ counted \cup written[s] \in SUBSET file
  BY <1>1, <1>2, FS_Subset
<1>4. RowsIn(counted \cup written[s]) = RowsIn(counted) + RowsIn(written[s])
  BY <1>3, RowsOfTwo, StoreRows
<1>5. RowsIn(counted \cup written[s]) <= RowsIn(file)
  BY <1>2, <1>3, Rows, StoreRows
<1> QED
  BY <1>1, <1>4, <1>5

(* what a store may still write grows by what it forgets at most *)
LEMMA RoomChanges ==
  ASSUME StoreAssumption, StoreTypes, StoreTypes', NEW s \in Stores, NEW e \in Int,
         \A t \in Stores \ {s} : Known(t) <= Known(t)',
         Room'[s] <= Room[s] + e
  PROVE  SumFunction(Room)' <= SumFunction(Room) + e
<1>1. /\ Room \in [Stores -> Nat] /\ SumFunction(Room) = SumFunctionOnSet(Room, Stores)
      /\ \A t \in Stores :
           /\ Known(t) \in Nat
           /\ Room[t] = IF Known(t) >= FileCapacity THEN 0 ELSE FileCapacity - Known(t)
  BY RoomType
<1>3. FileCapacity \in Nat /\ IsFiniteSet(Stores)
  BY DEF StoreAssumption
<1>2. /\ Room' \in [Stores -> Nat] /\ SumFunction(Room)' = SumFunctionOnSet(Room', Stores)
      /\ \A t \in Stores :
           /\ Known(t)' \in Nat
           /\ Room'[t] = IF Known(t)' >= FileCapacity THEN 0 ELSE FileCapacity - Known(t)'
  <2>1. ASSUME NEW t \in Stores
        PROVE  Known(t)' \in Nat
    <3>1. RowsIn(file') \in Nat /\ RowsIn(written'[t]) \in Nat /\ used'[t] \in Nat
      BY Rows, StoreRows DEF StoreTypes
    <3> QED
      BY <3>1 DEF Known
  <2>2. Room' \in [Stores -> Nat]
    BY <1>3, <2>1 DEF Room
  <2>3. SumFunction(Room)' = SumFunctionOnSet(Room', Stores)
    BY DEF SumFunction, Room
  <2> QED
    BY <2>1, <2>2, <2>3 DEF Room
<1>4. \A t \in Stores \ {s} : Room'[t] <= Room[t]
  <2> TAKE t \in Stores \ {s}
  <2> DEFINE a == Known(t)
             b == Known(t)'
  <2>1. a \in Nat /\ b \in Nat /\ a <= b
    BY <1>1, <1>2
  <2>2. /\ Room[t] = IF a >= FileCapacity THEN 0 ELSE FileCapacity - a
        /\ Room'[t] = IF b >= FileCapacity THEN 0 ELSE FileCapacity - b
    BY <1>1, <1>2
  <2> HIDE DEF a, b
  <2> QED
    BY <1>3, <2>1, <2>2
<1>5. SumFunctionOnSet(Room', Stores) <= SumFunctionOnSet(Room, Stores) + e
  <2> DEFINE R == Room
             Q == Room'
  <2>1. R \in [Stores -> Nat] /\ Q \in [Stores -> Nat] /\ Q[s] <= R[s] + e
        /\ \A t \in Stores \ {s} : Q[t] <= R[t]
    BY <1>1, <1>2, <1>4
  <2> HIDE DEF R, Q
  <2>2. SumFunctionOnSet(Q, Stores) <= SumFunctionOnSet(R, Stores) + e
    BY <1>3, <2>1, SumChanges
  <2> QED
    BY <2>2 DEF R, Q
<1> QED
  BY <1>1, <1>2, <1>5

LEMMA SharedRoom ==
  ASSUME NEW o \in Nat, NEW r \in Nat, NEW p \in Nat, NEW q \in Nat, NEW c \in Nat,
         NEW e \in Int, o + r <= c, p <= o - e, q <= r + e
  PROVE  p + q <= c
  OBVIOUS

LEMMA WhatIsLeft ==
  ASSUME NEW a, NEW b \in Nat, NEW e \in Nat, a = b + e
  PROVE  b <= a - e
  OBVIOUS

LEMMA RoomStep ==
  ASSUME StoreAssumption, StoreInv, StoreNext
  PROVE  (RowsIn(file \ uncounted) + SumFunction(Room)
            <= Cardinality(Stores) * FileCapacity)'
<1> PICK s \in Stores : \/ Open(s) \/ StorePut(s) \/ Insert(s) \/ FailInsert(s)
                        \/ Account(s) \/ FailCount(s) \/ Restart(s)
  BY DEF StoreNext
<1> DEFINE C == Cardinality(Stores) * FileCapacity
           outside == RowsIn(file \ uncounted)
           room == SumFunction(Room)
<1>1. /\ StoreTypes /\ StoreTypes' /\ PutInv(s)
      /\ at[s] # "closed" => CountedAreKeys(s)
      /\ outside + room <= C
  BY StoreTypesStep DEF StoreInv
<1>2. /\ room \in Nat
      /\ \A t \in Stores :
           /\ Known(t) \in Nat
           /\ Room[t] = IF Known(t) >= FileCapacity THEN 0 ELSE FileCapacity - Known(t)
  BY <1>1, RoomType
<1>3. /\ Cardinality(Stores) \in Nat /\ FileCapacity \in Nat /\ C \in Nat
  <2>1. Cardinality(Stores) \in Nat /\ FileCapacity \in Nat
    BY FS_CardinalityType DEF StoreAssumption
  <2> QED
    BY <2>1
<1>4. /\ file \in SUBSET Keys /\ IsFiniteSet(file) /\ uncounted \in SUBSET file
      /\ file' \in SUBSET Keys /\ IsFiniteSet(file') /\ uncounted' \in SUBSET file'
      /\ written[s] \in SUBSET file /\ used[s] \in Nat /\ file \subseteq file'
      /\ fresh[s] \in Seq(Keys)
      /\ RowsIn(file) \in Nat /\ RowsIn(written[s]) \in Nat /\ outside \in Nat
      /\ RowsIn(file) <= RowsIn(file')
      /\ RowsIn(file') \in Nat
  <2>1. file \subseteq file'
    BY <1>1 DEF Open, StorePut, Insert, FailInsert, Account, FailCount, Restart
  <2>2. /\ file \in SUBSET Keys /\ IsFiniteSet(file) /\ uncounted \in SUBSET file
        /\ file' \in SUBSET Keys /\ IsFiniteSet(file') /\ uncounted' \in SUBSET file'
        /\ written[s] \in SUBSET file /\ used[s] \in Nat
        /\ fresh[s] \in Seq(Keys)
    BY <1>1 DEF StoreTypes
  <2>3. RowsIn(file) \in Nat /\ RowsIn(written[s]) \in Nat /\ outside \in Nat
    BY <2>2, Rows, StoreRows
  <2>4. RowsIn(file) <= RowsIn(file') /\ RowsIn(file') \in Nat
    BY <2>1, <2>2, Rows, StoreRows
  <2> QED
    BY <2>1, <2>2, <2>3, <2>4
(* the rows of the others grow in the file only *)
<1>5. \A t \in Stores \ {s} : Known(t) <= Known(t)'
  <2> TAKE t \in Stores \ {s}
  <2>1. at'[t] = at[t] /\ used'[t] = used[t] /\ written'[t] = written[t]
    BY <1>1, OtherStores
  <2>2. CASE at[t] = "closed"
    <3>1. Known(t) = RowsIn(file) /\ Known(t)' = RowsIn(file')
      BY <2>1, <2>2 DEF Known
    <3> QED
      BY <1>4, <3>1
  <2>3. CASE at[t] # "closed"
    <3>1. Known(t)' = Known(t)
      BY <2>1, <2>3 DEF Known
    <3> QED
      BY <1>2, <3>1
  <2> QED
    BY <2>2, <2>3
<1>6. s \in DOMAIN at /\ s \in DOMAIN used /\ s \in DOMAIN written
  BY <1>1 DEF StoreTypes
<1>7. Known(s)' \in Nat /\ Room'[s] = IF Known(s)' >= FileCapacity THEN 0 ELSE FileCapacity - Known(s)'
  <2>1. RowsIn(file') \in Nat /\ RowsIn(written'[s]) \in Nat /\ used'[s] \in Nat
    BY <1>1, Rows, StoreRows DEF StoreTypes
  <2> QED
    BY <2>1 DEF Known, Room
<1>14. room' \in Nat
  <2>1. Room' \in [Stores -> Nat]
    <3>1. ASSUME NEW t \in Stores
          PROVE  Known(t)' \in Nat
      <4>1. RowsIn(file') \in Nat /\ RowsIn(written'[t]) \in Nat /\ used'[t] \in Nat
        BY <1>1, Rows, StoreRows DEF StoreTypes
      <4> QED
        BY <4>1 DEF Known
    <3> QED
      BY <1>3, <3>1 DEF Room
  <2>2. room' = SumFunctionOnSet(Room', Stores)
    BY DEF SumFunction, Room
  <2> QED
    BY <2>1, <2>2, SumType DEF StoreAssumption
(* it is enough that what the file gains its store no longer may write *)
<1>8. ASSUME NEW e \in Int, outside' <= outside - e, outside' \in Nat,
             Known(s)' >= Known(s) - e, e >= 0 \/ Known(s)' <= FileCapacity
      PROVE  outside' + room' <= C
  <2>1. Room'[s] <= Room[s] + e
    <3> DEFINE a == Known(s)
               b == Known(s)'
    <3>1. a \in Nat /\ b \in Nat /\ b >= a - e /\ (e >= 0 \/ b <= FileCapacity)
      BY <1>2, <1>7, <1>8
    <3>2. /\ Room[s] = IF a >= FileCapacity THEN 0 ELSE FileCapacity - a
          /\ Room'[s] = IF b >= FileCapacity THEN 0 ELSE FileCapacity - b
      BY <1>2, <1>7
    <3> HIDE DEF a, b
    <3> QED
      BY <1>3, <3>1, <3>2, <1>8
  <2>2. room' <= room + e
    BY <1>1, <1>5, <2>1, RoomChanges
  <2> HIDE DEF outside, room, C
  <2>4. outside \in Nat /\ room \in Nat /\ outside + room <= C /\ C \in Nat
    BY <1>1, <1>2, <1>3, <1>4
  <2> QED
    BY <2>2, <1>14, <2>4, <1>8, SharedRoom
<1>9. CASE Open(s) \/ StorePut(s) \/ FailInsert(s) \/ Account(s) \/ Restart(s)
  <2>1. outside' = outside
    BY <1>9 DEF Open, StorePut, FailInsert, Account, Restart
  <2>2. Known(s)' >= Known(s)
    <3>1. CASE Open(s)
      <4>1. RowsIn({}) = 0
        BY <1>4, Rows, StoreRows
      <4>2. written[s] = {} /\ at[s] = "closed"
        BY <1>1, <3>1 DEF Open, PutInv
      <4>3. at'[s] = "idle" /\ used'[s] = RowsIn(file) /\ written'[s] = {}
        BY <1>6, <3>1, <4>2 DEF Open
      <4>4. Known(s) = RowsIn(file) /\ Known(s)' = RowsIn(file) + 0
        BY <4>1, <4>2, <4>3 DEF Known
      <4> QED
        BY <1>4, <4>4
    <3>2. CASE StorePut(s) \/ FailInsert(s)
      <4>1. at[s] # "closed" /\ at'[s] # "closed" /\ used'[s] = used[s] /\ written' = written
        BY <1>6, <3>2 DEF StorePut, FailInsert, UsedAfterError
      <4>2. Known(s)' = Known(s)
        BY <4>1 DEF Known
      <4> QED
        BY <1>2, <4>2
    <3>3. CASE Account(s)
      <4>1. /\ at[s] = "count" /\ at'[s] = "idle" /\ written'[s] = {}
            /\ used'[s] = used[s] + RowsOf(fresh[s]) \/ used'[s] = RowsIn(file)
        BY <1>6, <3>3 DEF Account
      <4>2. Known(s) = used[s] + RowsIn(written[s]) /\ Known(s)' = used'[s] + RowsIn({})
        BY <4>1 DEF Known
      <4>3. RowsIn({}) = 0
        BY <1>4, Rows, StoreRows
      <4>4. used[s] + RowsIn(written[s]) <= RowsIn(file)
        BY <1>1, <4>1, KnownIsWithin
      <4>5. RowsIn(written[s]) <= RowsOf(fresh[s]) /\ RowsOf(fresh[s]) \in Nat
        <5>1. ToSet(fresh[s]) \in SUBSET Keys /\ IsFiniteSet(ToSet(fresh[s]))
          BY <1>4, KeysOf
        <5>2. written[s] \in SUBSET ToSet(fresh[s])
          BY <1>1 DEF PutInv
        <5> QED
          BY <5>1, <5>2, Rows, StoreRows DEF RowsOf
      <4> QED
        BY <1>4, <4>1, <4>2, <4>3, <4>4, <4>5
    <3>4. CASE Restart(s)
      <4>1. at[s] # "closed" /\ at'[s] = "closed" /\ file' = file
        BY <1>6, <3>4 DEF Restart
      <4>2. Known(s) = used[s] + RowsIn(written[s]) /\ Known(s)' = RowsIn(file)
        BY <4>1 DEF Known
      <4> QED
        BY <1>1, <1>4, <4>1, <4>2, KnownIsWithin
    <3> QED
      BY <1>9, <3>1, <3>2, <3>3, <3>4
  <2>3. outside' <= outside - 0 /\ outside' \in Nat /\ Known(s)' >= Known(s) - 0
    <3> HIDE DEF outside
    <3> QED
      BY <1>2, <1>4, <1>7, <2>1, <2>2
  <2> HIDE DEF outside, room, C
  <2>4. outside' + room' <= C
    BY <1>8, <2>3
  <2> QED
    BY <2>4 DEF outside, room, C
<1>10. CASE Insert(s)
  <2> DEFINE W == ToSet(fresh[s]) \ file
  <2>1. /\ at[s] = "insert" /\ at'[s] = "count" /\ used' = used /\ written'[s] = W
        /\ file' = file \cup W /\ uncounted' = uncounted
    BY <1>6, <1>10 DEF Insert
  <2>2. W \in SUBSET Keys /\ IsFiniteSet(W) /\ W \in SUBSET ToSet(fresh[s])
        /\ ToSet(fresh[s]) \in SUBSET Keys /\ IsFiniteSet(ToSet(fresh[s]))
    BY <1>4, KeysOf, FS_Subset
  <2>3. RowsIn(W) \in Nat /\ RowsIn(W) <= RowsOf(fresh[s]) /\ RowsOf(fresh[s]) \in Nat
    BY <2>2, Rows, StoreRows DEF RowsOf
  <2>4. outside' = outside + RowsIn(W)
    <3>1. file' \ uncounted' = (file \ uncounted) \cup W /\ (file \ uncounted) \cap W = {}
      BY <1>4, <2>1
    <3>2. file \ uncounted \in SUBSET Keys /\ IsFiniteSet(file \ uncounted)
      BY <1>4, FS_Subset
    <3> HIDE DEF W
    <3>3. RowsIn((file \ uncounted) \cup W) = RowsIn(file \ uncounted) + RowsIn(W)
      BY <2>2, <3>1, <3>2, RowsOfTwo, StoreRows
    <3> QED
      BY <3>1, <3>3
  <2>5. Known(s) = used[s] + RowsIn({}) /\ Known(s)' = used[s] + RowsIn(W)
    <3>1. written[s] = {}
      BY <1>1, <2>1 DEF PutInv
    <3> QED
      BY <2>1, <3>1 DEF Known
  <2>6. RowsIn({}) = 0
    BY <1>4, Rows, StoreRows
  <2>7. used[s] + RowsOf(fresh[s]) <= FileCapacity
    BY <1>1, <2>1 DEF PutInv
  <2> DEFINE e == 0 - RowsIn(W)
  <2>8. /\ e \in Int /\ outside' <= outside - e /\ outside' \in Nat
        /\ Known(s)' >= Known(s) - e /\ Known(s)' <= FileCapacity
    <3> HIDE DEF outside, W
    <3>1. e \in Int /\ outside' <= outside - e /\ outside' \in Nat
      BY <1>4, <2>3, <2>4
    <3>2. Known(s) = used[s] /\ Known(s)' = used[s] - e
      BY <1>4, <2>3, <2>5, <2>6
    <3>3. used[s] - e <= FileCapacity /\ used[s] - e >= used[s] - e
      BY <1>3, <1>4, <2>3, <2>7
    <3> QED
      BY <3>1, <3>2, <3>3
  <2> HIDE DEF outside, room, C, e
  <2>9. outside' + room' <= C
    BY <1>8, <2>8
  <2> QED
    BY <2>9 DEF outside, room, C
<1>11. CASE FailCount(s)
  <2> DEFINE W == written[s]
  <2>1. /\ at[s] = "count" /\ at'[s] = "idle" /\ used' = used /\ written'[s] = {}
        /\ file' = file /\ uncounted' = uncounted \cup W
    BY <1>6, <1>11 DEF FailCount
  <2>2. W \in SUBSET file /\ W \cap uncounted = {}
    BY <1>1, <1>4 DEF PutInv
  <2>3. outside = outside' + RowsIn(W) /\ outside' \in Nat
    <3>1. /\ file \ uncounted = (file' \ uncounted') \cup W
          /\ (file' \ uncounted') \cap W = {}
      BY <2>1, <2>2
    <3>2. /\ file' \ uncounted' \in SUBSET Keys /\ IsFiniteSet(file' \ uncounted')
          /\ W \in SUBSET Keys /\ IsFiniteSet(W)
      BY <1>4, <2>2, FS_Subset
    <3> HIDE DEF W
    <3>3. RowsIn((file' \ uncounted') \cup W) = RowsIn(file' \ uncounted') + RowsIn(W)
      BY <3>1, <3>2, RowsOfTwo, StoreRows
    <3>4. RowsIn(file' \ uncounted') \in Nat
      BY <3>2, Rows, StoreRows
    <3> QED
      BY <3>1, <3>3, <3>4
  <2>4. Known(s) = used[s] + RowsIn(W) /\ Known(s)' = used[s] + RowsIn({})
    BY <2>1 DEF Known
  <2>5. RowsIn({}) = 0
    BY <1>4, Rows, StoreRows
  <2> DEFINE e == RowsIn(W)
  <2>6. e \in Nat
    BY <1>4
  <2>7. /\ e \in Int /\ e >= 0 /\ outside' <= outside - e /\ outside' \in Nat
        /\ Known(s)' >= Known(s) - e
    <3> HIDE DEF outside, W, e
    <3>1. Known(s) = used[s] + e /\ outside = outside' + e
      BY <2>3, <2>4 DEF e
    <3>2. outside' <= outside - e
      BY <2>3, <2>6, <3>1, WhatIsLeft
    <3>3. Known(s)' = used[s] /\ used[s] \in Int
      BY <1>4, <2>4, <2>5
    <3>4. Known(s)' >= Known(s) - e
      BY <2>6, <3>1, <3>3
    <3> QED
      BY <2>3, <2>6, <3>2, <3>4
  <2> HIDE DEF outside, room, C, e
  <2>9. outside' + room' <= C
    BY <1>8, <2>7
  <2> QED
    BY <2>9 DEF outside, room, C
<1> QED
  BY <1>9, <1>10, <1>11

LEMMA StoreInvInit ==
  ASSUME StoreAssumption, StoreInit
  PROVE  StoreInv
<1> USE DEF StoreInit
<1>1. ToSet(<<>>) = {}
  BY DEF ToSet
<1>2. RowsIn({}) = 0 /\ FileCapacity \in Nat \ {0}
  BY FS_EmptySet, Rows, StoreRows DEF StoreAssumption
<1>3. StoreTypes
  BY FS_EmptySet DEF StoreTypes
<1>4. ASSUME NEW s \in Stores
      PROVE  PutInv(s) /\ at[s] = "closed" /\ written[s] = {}
  BY <1>1 DEF PutInv
<1>5. Room = [s \in Stores |-> FileCapacity]
  <2>1. ASSUME NEW s \in Stores
        PROVE  Known(s) = 0
    BY <1>2 DEF Known
  <2> QED
    BY <1>2, <2>1 DEF Room
<1>6. SumFunction(Room) = Cardinality(Stores) * FileCapacity
  <2>1. SumFunction(Room) = SumFunctionOnSet([s \in Stores |-> FileCapacity], Stores)
    BY <1>5 DEF SumFunction
  <2> QED
    BY <1>2, <2>1, SumOfTheSame DEF StoreAssumption
<1>7. RowsIn(file \ uncounted) + SumFunction(Room) <= Cardinality(Stores) * FileCapacity
  <2>1. file \ uncounted = {}
    OBVIOUS
  <2>2. Cardinality(Stores) * FileCapacity \in Nat
    <3>1. Cardinality(Stores) \in Nat
      BY FS_CardinalityType DEF StoreAssumption
    <3> QED
      BY <1>2, <3>1
  <2> HIDE DEF StoreInit
  <2> QED
    BY <1>2, <1>6, <2>1, <2>2
<1> QED
  BY <1>3, <1>4, <1>7 DEF StoreInv

LEMMA StoreInvStep ==
  ASSUME StoreAssumption, StoreInv, [StoreNext]_storeVars
  PROVE  StoreInv'
<1>1. CASE StoreNext
  <2>1. StoreTypes'
    BY <1>1, StoreTypesStep DEF StoreInv
  <2>2. \A t \in Stores : PutInv(t)'
    BY <1>1, PutInvStep
  <2>3. \A t \in Stores : (at[t] # "closed" => CountedAreKeys(t))'
    BY <1>1, CountedStep
  <2>4. (\A s, t \in Stores : s # t => written[s] \cap written[t] = {})'
    BY <1>1, WrittenApart
  <2>5. (RowsIn(file \ uncounted) + SumFunction(Room)
           <= Cardinality(Stores) * FileCapacity)'
    BY <1>1, RoomStep
  <2> QED
    BY <2>1, <2>2, <2>3, <2>4, <2>5 DEF StoreInv
<1>2. CASE UNCHANGED storeVars
  <2>1. StoreTypes' = StoreTypes
    BY <1>2 DEF storeVars, StoreTypes
  <2>2. \A s \in Stores :
          /\ PutInv(s)' <=> PutInv(s)
          /\ CountedAreKeys(s)' <=> CountedAreKeys(s)
          /\ Known(s)' = Known(s)
    BY <1>2 DEF storeVars, PutInv, CountedAreKeys, Known, RowsOf
  <2>3. SumFunction(Room)' = SumFunction(Room)
    <3>1. Room' = Room
      BY <2>2 DEF Room
    <3> QED
      BY <3>1
  <2> QED
    BY <1>2, <2>1, <2>2, <2>3 DEF storeVars, StoreInv
<1> QED
  BY <1>1, <1>2

LEMMA StoreInvImplies ==
  ASSUME StoreAssumption, StoreInv
  PROVE  StaleCountsErrBoundedly
<1>1. StoreTypes
  BY DEF StoreInv
<1>2. RowsIn(file \ uncounted) <= Cardinality(Stores) * FileCapacity
  <2>1. RowsIn(file \ uncounted) \in Nat
    <3>1. file \in SUBSET Keys /\ IsFiniteSet(file) /\ file \ uncounted \in SUBSET file
      BY <1>1 DEF StoreTypes
    <3> QED
      BY <3>1, Rows, StoreRows
  <2>2. SumFunction(Room) \in Nat
    BY <1>1, RoomType
  <2>3. Cardinality(Stores) * FileCapacity \in Nat
    <3>1. Cardinality(Stores) \in Nat /\ FileCapacity \in Nat
      BY FS_CardinalityType DEF StoreAssumption
    <3> QED
      BY <3>1
  <2>4. RowsIn(file \ uncounted) + SumFunction(Room) <= Cardinality(Stores) * FileCapacity
    BY DEF StoreInv
  <2> QED
    BY <2>1, <2>2, <2>3, <2>4
<1>3. ASSUME NEW s \in Stores, at[s] = "count", NEW k \in leftOut[s]
      PROVE  RowsIn(file) + RowsPerKey[k] > FileCapacity
  <2>1. PICK counted \in SUBSET file :
          RowsIn(counted) = used[s] /\ counted \cap ToSet(fresh[s]) = {}
    BY <1>3 DEF StoreInv, CountedAreKeys
  <2>2. /\ ToSet(fresh[s]) \subseteq file
        /\ used[s] + RowsOf(fresh[s]) + RowsPerKey[k] > FileCapacity
    BY <1>3 DEF StoreInv, PutInv
  <2>3. file \in SUBSET Keys /\ IsFiniteSet(file) /\ used[s] \in Nat /\ k \in Keys
    BY <1>1, <1>3 DEF StoreTypes
  <2>4. /\ counted \in SUBSET Keys /\ ToSet(fresh[s]) \in SUBSET Keys
        /\ IsFiniteSet(counted) /\ IsFiniteSet(ToSet(fresh[s]))
        /\ counted \cup ToSet(fresh[s]) \in SUBSET file
    BY <2>2, <2>3, FS_Subset
  <2>5. RowsIn(counted \cup ToSet(fresh[s])) = used[s] + RowsOf(fresh[s])
    BY <2>1, <2>4, RowsOfTwo, StoreRows DEF RowsOf
  <2>6. /\ RowsIn(counted \cup ToSet(fresh[s])) <= RowsIn(file)
        /\ RowsIn(file) \in Nat /\ RowsOf(fresh[s]) \in Nat
    BY <2>3, <2>4, Rows, StoreRows DEF RowsOf
  <2>7. RowsPerKey[k] \in Nat /\ FileCapacity \in Nat
    BY <2>3 DEF StoreAssumption, RowsAreCounted
  <2> QED
    BY <2>2, <2>3, <2>5, <2>6, <2>7
<1> QED
  BY <1>2, <1>3 DEF StaleCountsErrBoundedly

THEOREM StoresErrBoundedly ==
    ASSUME StoreAssumption
    PROVE  StoreSpec => []StaleCountsErrBoundedly
<1>1. StoreInit => StoreInv
  BY StoreInvInit
<1>2. StoreInv /\ [StoreNext]_storeVars => StoreInv'
  BY StoreInvStep
<1>3. StoreInv => StaleCountsErrBoundedly
  BY StoreInvImplies
<1> QED
  BY <1>1, <1>2, <1>3, PTL DEF StoreSpec

-----------------------------------------------------------------------------
(* The slab: lists of keys, what they keep and how they end.               *)

(* a key behind a list                                                     *)
LEMMA AppendKeys ==
  ASSUME NEW K, NEW g \in Seq(K), NEW e \in K
  PROVE  /\ Append(g, e) \in Seq(K) /\ Len(Append(g, e)) = Len(g) + 1
         /\ ToSet(Append(g, e)) = ToSet(g) \cup {e}
         /\ IsInjective(g) /\ e \notin ToSet(g) => IsInjective(Append(g, e))
<1> DEFINE a == Append(g, e)
<1>1. /\ g \in Seq(K) /\ Len(g) \in Nat /\ DOMAIN g = 1..Len(g) /\ DOMAIN a = 1..(Len(g) + 1)
      /\ \A i \in 1..Len(g) : a[i] = g[i]
      /\ a[Len(g) + 1] = e /\ a \in Seq(K) /\ Len(a) = Len(g) + 1
  OBVIOUS
<1> HIDE DEF a
<1>2. 1..(Len(g) + 1) = (1..Len(g)) \cup {Len(g) + 1}
  BY <1>1
<1>3. ToSet(a) = {a[i] : i \in 1..(Len(g) + 1)} /\ ToSet(g) = {g[i] : i \in 1..Len(g)}
  BY <1>1 DEF ToSet
<1>4. ToSet(a) = ToSet(g) \cup {e}
  BY <1>1, <1>2, <1>3
<1>5. ASSUME IsInjective(g), e \notin ToSet(g)
      PROVE  IsInjective(a)
  <2> SUFFICES ASSUME NEW i \in DOMAIN a, NEW j \in DOMAIN a, a[i] = a[j]
               PROVE  i = j
    BY DEF IsInjective
  <2>1. i \in 1..Len(g) \/ i = Len(g) + 1
    BY <1>1, <1>2
  <2>2. j \in 1..Len(g) \/ j = Len(g) + 1
    BY <1>1, <1>2
  <2>3. \A n \in 1..Len(g) : a[n] = g[n] /\ g[n] \in ToSet(g)
    BY <1>1, <1>3
  <2>4. CASE i \in 1..Len(g) /\ j \in 1..Len(g)
    BY <2>3, <2>4, <1>1, <1>5 DEF IsInjective
  <2> QED
    BY <1>1, <1>5, <2>1, <2>2, <2>3, <2>4
<1> QED
  BY <1>1, <1>4, <1>5 DEF a

(* lists behind each other, and the first keys of a longer list            *)
LEMMA JoinKeys ==
  ASSUME NEW K, NEW g \in Seq(K), NEW h \in Seq(K)
  PROVE  /\ g \o h \in Seq(K) /\ Len(g \o h) = Len(g) + Len(h)
         /\ ToSet(g \o h) = ToSet(g) \cup ToSet(h)
         /\ IsInjective(g) /\ IsInjective(h) /\ ToSet(g) \cap ToSet(h) = {}
              => IsInjective(g \o h)
<1> DEFINE a == g \o h
           m == Len(g)
           n == Len(h)
<1>1. /\ m \in Nat /\ n \in Nat /\ DOMAIN g = 1..m /\ DOMAIN h = 1..n
      /\ DOMAIN a = 1..(m + n) /\ a \in Seq(K) /\ Len(a) = m + n
      /\ \A i \in 1..m : a[i] = g[i]
      /\ \A i \in (m + 1)..(m + n) : a[i] = h[i - m]
  OBVIOUS
<1> HIDE DEF a, m, n
<1>2. 1..(m + n) = (1..m) \cup ((m + 1)..(m + n))
  BY <1>1
<1>3. \A i \in (m + 1)..(m + n) : i - m \in 1..n
  BY <1>1
<1>4. \A j \in 1..n : j + m \in (m + 1)..(m + n) /\ (j + m) - m = j
  BY <1>1
<1>5. ToSet(a) = {a[i] : i \in 1..(m + n)} /\ ToSet(g) = {g[i] : i \in 1..m}
      /\ ToSet(h) = {h[i] : i \in 1..n}
  BY <1>1 DEF ToSet
<1>6. ToSet(a) = ToSet(g) \cup ToSet(h)
  <2>1. ToSet(a) \subseteq ToSet(g) \cup ToSet(h)
    BY <1>1, <1>2, <1>3, <1>5
  <2>2. ToSet(g) \subseteq ToSet(a)
    BY <1>1, <1>2, <1>5
  <2>3. \A j \in 1..n : h[j] = a[j + m] /\ j + m \in 1..(m + n)
    BY <1>1, <1>2, <1>4
  <2>4. ToSet(h) \subseteq ToSet(a)
    BY <1>5, <2>3
  <2> QED
    BY <2>1, <2>2, <2>4
<1>7. ASSUME IsInjective(g), IsInjective(h), ToSet(g) \cap ToSet(h) = {}
      PROVE  IsInjective(a)
  <2> SUFFICES ASSUME NEW i \in 1..(m + n), NEW j \in 1..(m + n), a[i] = a[j]
               PROVE  i = j
    BY <1>1 DEF IsInjective
  <2>1. \A x \in 1..m : a[x] = g[x] /\ g[x] \in ToSet(g)
    BY <1>1, <1>5
  <2>2. \A x \in (m + 1)..(m + n) : a[x] = h[x - m] /\ h[x - m] \in ToSet(h)
    BY <1>1, <1>3, <1>5
  <2>3. CASE i \in 1..m /\ j \in 1..m
    BY <2>1, <2>3, <1>1, <1>7 DEF IsInjective
  <2>4. CASE i \in (m + 1)..(m + n) /\ j \in (m + 1)..(m + n)
    <3>1. \A x, y \in 1..n : h[x] = h[y] => x = y
      BY <1>1, <1>7 DEF IsInjective
    <3>2. h[i - m] = h[j - m] /\ i - m \in 1..n /\ j - m \in 1..n
      BY <2>2, <2>4, <1>3
    <3>3. i - m = j - m
      BY <3>1, <3>2
    <3> QED
      BY <3>3, <1>1, <2>4
  <2>5. CASE i \in 1..m /\ j \in (m + 1)..(m + n)
    BY <2>1, <2>2, <2>5, <1>7
  <2>6. CASE j \in 1..m /\ i \in (m + 1)..(m + n)
    BY <2>1, <2>2, <2>6, <1>7
  <2> QED
    BY <1>2, <2>3, <2>4, <2>5, <2>6
<1> QED
  BY <1>1, <1>6, <1>7 DEF a, m, n

(* a part of a list                                                        *)
LEMMA PartKeys ==
  ASSUME NEW K, NEW g \in Seq(K), NEW i \in Int, NEW j \in Int, 1 <= i, j <= Len(g)
  PROVE  /\ SubSeq(g, i, j) \in Seq(K)
         /\ Len(SubSeq(g, i, j)) = IF i <= j THEN j - i + 1 ELSE 0
         /\ ToSet(SubSeq(g, i, j)) = {g[x] : x \in i..j}
         /\ ToSet(SubSeq(g, i, j)) \subseteq ToSet(g)
         /\ IsInjective(g) => IsInjective(SubSeq(g, i, j))
<1> DEFINE a == SubSeq(g, i, j)
           n == IF i <= j THEN j - i + 1 ELSE 0
<1>1. /\ Len(g) \in Nat /\ DOMAIN g = 1..Len(g) /\ \A x \in 1..Len(g) : g[x] \in K
  OBVIOUS
<1>2. /\ a \in Seq(K) /\ Len(a) = n /\ DOMAIN a = 1..n /\ n \in Nat
      /\ \A x \in 1..n : a[x] = g[i + x - 1]
  OBVIOUS
<1>3. /\ \A x \in 1..n : i + x - 1 \in i..j /\ i + x - 1 \in 1..Len(g)
      /\ \A y \in i..j : y - i + 1 \in 1..n /\ i + (y - i + 1) - 1 = y /\ y \in 1..Len(g)
  BY <1>1
<1> HIDE DEF a, n
<1>4. ToSet(a) = {a[x] : x \in 1..n} /\ ToSet(g) = {g[x] : x \in 1..Len(g)}
  BY <1>1, <1>2 DEF ToSet
<1>5. ToSet(a) = {g[x] : x \in i..j}
  <2>1. ToSet(a) \subseteq {g[x] : x \in i..j}
    BY <1>2, <1>3, <1>4
  <2>2. \A y \in i..j : g[y] = a[y - i + 1] /\ y - i + 1 \in 1..n
    BY <1>2, <1>3
  <2> QED
    BY <1>4, <2>1, <2>2
<1>6. ToSet(a) \subseteq ToSet(g)
  BY <1>3, <1>4, <1>5
<1>7. ASSUME IsInjective(g) PROVE IsInjective(a)
  <2> SUFFICES ASSUME NEW x \in 1..n, NEW y \in 1..n, a[x] = a[y]
               PROVE  x = y
    BY <1>2 DEF IsInjective
  <2>1. i + x - 1 = i + y - 1
    BY <1>1, <1>2, <1>3, <1>7 DEF IsInjective
  <2> QED
    BY <2>1
<1> QED
  BY <1>2, <1>5, <1>6, <1>7 DEF a, n

-----------------------------------------------------------------------------
(* Sums over sets of keys, and the folds that go through lists of lists.   *)

(* What is folded of a set of positions, the largest one last. *)
FoldsOf(f, n, V, b, G) ==
    /\ f \in [SUBSET (1..n) -> V]
    /\ f[{}] = b
    /\ \A s \in SUBSET (1..n) : s # {} =>
         /\ Max(s) \in s
         /\ f[s] = G[<<Max(s), f[s \ {Max(s)}]>>]

LEMMA FoldOnSubsets ==
  ASSUME NEW n \in Nat, NEW V, NEW b \in V, NEW G \in [(1..n) \X V -> V]
  PROVE  \E f : FoldsOf(f, n, V, b, G)
<1> DEFINE S == 1..n
           C == MaxOf(S)
<1>1. IsFiniteSet(S) /\ Chooses(C, S)
  BY FS_Interval, MaxChooses
<1>2. PICK f \in [SUBSET S -> V] : IsFold(f, G, C, b, SUBSET S)
  <2> HIDE DEF C
  <2>1. G \in [S \X V -> V]
    OBVIOUS
  <2> HIDE DEF S
  <2> QED
    BY <1>1, <2>1, FoldExists
<1>3. f[{}] = b
  BY <1>2 DEF IsFold
<1>4. ASSUME NEW s \in SUBSET S, s # {}
      PROVE  Max(s) \in s /\ f[s] = G[<<Max(s), f[s \ {Max(s)}]>>]
  <2>1. C[s] = Max(s) /\ Max(s) \in s
    BY <1>1, <1>4 DEF Chooses, MaxOf
  <2> QED
    BY <1>2, <1>4, <2>1 DEF IsFold
<1> QED
  BY <1>2, <1>3, <1>4 DEF FoldsOf

(* What is folded of the first ones, one after another. *)
StepsOf(h, n, V, b, G, last) ==
    /\ h \in [0..n -> V]
    /\ h[0] = b /\ h[n] = last
    /\ \A m \in 1..n : h[m] = G[<<m, h[m - 1]>>]

PrefixesOf(g, n, V, b, G) ==
    /\ g[{}] = b
    /\ \A m \in 1..n : g[1..(m - 1)] \in V => g[1..m] = G[<<m, g[1..(m - 1)]>>]

(* a fold over a list, as the value after each of its elements             *)
LEMMA FoldOfPrefixes ==
  ASSUME NEW n \in Nat, NEW V, NEW b \in V, NEW G \in [(1..n) \X V -> V],
         NEW g, PrefixesOf(g, n, V, b, G)
  PROVE  \E h : StepsOf(h, n, V, b, G, g[1..n])
<1> DEFINE h == [m \in 0..n |-> g[1..m]]
           T == {m \in Nat : m <= n => h[m] \in V}
<1>1. 1..0 = {} /\ 0 \in 0..n /\ n \in 0..n
  OBVIOUS
<1>11. g[{}] = b /\ \A m \in 1..n : g[1..(m - 1)] \in V => g[1..m] = G[<<m, g[1..(m - 1)]>>]
  BY DEF PrefixesOf
<1>2. h[0] = b /\ h[n] = g[1..n]
  <2>1. h[0] = g[1..0] /\ h[n] = g[1..n]
    BY <1>1
  <2> HIDE DEF h
  <2> QED
    BY <1>1, <1>11, <2>1
<1>3. ASSUME NEW m \in 1..n, h[m - 1] \in V
      PROVE  h[m] = G[<<m, h[m - 1]>>]
  <2>1. m \in 0..n /\ m - 1 \in 0..n
    OBVIOUS
  <2>2. h[m] = g[1..m] /\ h[m - 1] = g[1..(m - 1)]
    BY <2>1
  <2> HIDE DEF h
  <2> QED
    BY <1>3, <1>11, <2>2
<1>4. 0 \in T
  <2> HIDE DEF h
  <2> QED
    BY <1>2
<1>5. ASSUME NEW m \in Nat, m \in T PROVE m + 1 \in T
  <2> SUFFICES ASSUME m + 1 <= n PROVE h[m + 1] \in V
    OBVIOUS
  <2> HIDE DEF h
  <2>1. m + 1 \in 1..n /\ (m + 1) - 1 = m /\ m <= n
    OBVIOUS
  <2>2. h[m] \in V
    BY <1>5, <2>1
  <2>3. h[m + 1] = G[<<m + 1, h[m]>>]
    BY <1>3, <2>1, <2>2
  <2> QED
    BY <2>1, <2>2, <2>3
<1>6. Nat \subseteq T
  <2> HIDE DEF T
  <2> QED
    BY <1>4, <1>5, NatInd
<1>7. \A m \in 0..n : h[m] \in V
  <2> HIDE DEF h
  <2> QED
    BY <1>6
<1>8. h \in [0..n -> V]
  BY <1>7
<1>9. \A m \in 1..n : m - 1 \in 0..n
  OBVIOUS
<1> HIDE DEF h
<1>10. StepsOf(h, n, V, b, G, g[1..n])
  BY <1>2, <1>3, <1>7, <1>8, <1>9 DEF StepsOf
<1> QED
  BY <1>2, <1>10

LEMMA FirstOnes ==
  ASSUME NEW n \in Nat, NEW m \in 1..n
  PROVE  /\ 1..m \in SUBSET (1..n) /\ 1..m # {} /\ (1..m) \ {m} = 1..(m - 1)
         /\ Max(1..m) = m
<1>1. Max(1..m) = m
  BY MaxChooses
<1> QED
  BY <1>1

(* Lists put one behind another. *)
FollowedBy(h, seq, seqs, K) ==
    /\ h \in [0..Len(seqs) -> Seq(K)]
    /\ h[0] = seq /\ Followed(seq, seqs) = h[Len(seqs)]
    /\ \A m \in 1..Len(seqs) : h[m] = h[m - 1] \o seqs[m]

(* lists behind a list, one at a time                                      *)
LEMMA FollowedSteps ==
  ASSUME NEW K, NEW seq \in Seq(K), NEW seqs \in Seq(Seq(K))
  PROVE  \E h : FollowedBy(h, seq, seqs, K)
<1> DEFINE n == Len(seqs)
           S == 1..n
           V == Seq(K)
           G == [p \in S \X V |-> p[2] \o seqs[p[1]]]
           Iter(f) == f = [s \in SUBSET S |->
               IF s = {} THEN seq ELSE LET x == Max(s) IN f[s \ {x}] \o seqs[x]]
<1>1. n \in Nat /\ DOMAIN seqs = S /\ seq \in V /\ \A i \in S : seqs[i] \in V
  OBVIOUS
<1>2. Followed(seq, seqs) = (CHOOSE f : Iter(f))[S]
  BY <1>1 DEF Followed, FoldLeft, MapThenFoldSet
<1>3. G \in [S \X V -> V]
  <2>1. \A i \in S : \A v \in V : v \o seqs[i] \in V
    BY <1>1
  <2> HIDE DEF V, S
  <2> QED
    BY <2>1
<1>31. ASSUME NEW m \in S, NEW v \in V
       PROVE  G[<<m, v>>] = v \o seqs[m]
  <2> HIDE DEF V, S
  <2> QED
    OBVIOUS
<1> HIDE DEF G, V
<1>4. PICK f : FoldsOf(f, n, V, seq, G)
  <2> HIDE DEF n, Iter
  <2> QED
    BY <1>1, <1>3, FoldOnSubsets
<1>5. Iter(f)
  <2>1. \A s \in SUBSET S : s # {} =>
          f[s] = LET x == Max(s) IN f[s \ {x}] \o seqs[x]
    BY <1>31, <1>4 DEF FoldsOf
  <2> QED
    BY <1>4, <2>1 DEF FoldsOf
<1>6. PICK g : Iter(g) /\ Followed(seq, seqs) = g[S]
  <2> HIDE DEF Iter
  <2> QED
    BY <1>2, <1>5
<1>7. g[{}] = seq
  BY <1>6
<1>8. ASSUME NEW m \in S, g[1..(m - 1)] \in V
      PROVE  g[1..m] = G[<<m, g[1..(m - 1)]>>]
  <2>1. 1..m \in SUBSET S /\ 1..m # {} /\ (1..m) \ {m} = 1..(m - 1) /\ Max(1..m) = m
    <3>1. n \in Nat
      BY <1>1
    <3> HIDE DEF n, Iter
    <3> QED
      BY <3>1, FirstOnes
  <2>2. g[1..m] = g[1..(m - 1)] \o seqs[m]
    BY <1>6, <2>1
  <2> QED
    BY <1>31, <1>8, <2>2
<1>9. PICK h : StepsOf(h, n, V, seq, G, g[1..n])
  <2> HIDE DEF n, Iter
  <2>1. PrefixesOf(g, n, V, seq, G)
    BY <1>7, <1>8 DEF PrefixesOf
  <2>2. n \in Nat /\ seq \in V /\ G \in [(1..n) \X V -> V]
    BY <1>1, <1>3
  <2> HIDE DEF S
  <2> QED
    BY <2>1, <2>2, FoldOfPrefixes
<1>10. /\ h \in [0..n -> V] /\ h[0] = seq /\ Followed(seq, seqs) = h[n]
       /\ \A m \in S : h[m] = h[m - 1] \o seqs[m]
  <2> HIDE DEF n, Iter
  <2>1. \A m \in S : m - 1 \in 0..n
    BY <1>1
  <2> QED
    BY <1>31, <1>6, <1>9, <2>1 DEF StepsOf
<1> QED
  BY <1>10 DEF V, FollowedBy

(* Lists that share no key with each other nor with one before them. *)
Separate(seq, seqs) ==
    /\ IsInjective(seq)
    /\ \A i \in 1..Len(seqs) : IsInjective(seqs[i]) /\ ToSet(seq) \cap ToSet(seqs[i]) = {}
    /\ \A i, j \in 1..Len(seqs) : i # j => ToSet(seqs[i]) \cap ToSet(seqs[j]) = {}

(* lists apart from each other give one list without repeats               *)
LEMMA FollowedKeys ==
  ASSUME NEW K, NEW seq \in Seq(K), NEW seqs \in Seq(Seq(K))
  PROVE  /\ Followed(seq, seqs) \in Seq(K)
         /\ ToSet(Followed(seq, seqs))
              = ToSet(seq) \cup UNION {ToSet(seqs[i]) : i \in 1..Len(seqs)}
         /\ Separate(seq, seqs) => IsInjective(Followed(seq, seqs))
<1> DEFINE n == Len(seqs)
           F == Followed(seq, seqs)
<1>0. PICK h : FollowedBy(h, seq, seqs, K)
  BY FollowedSteps
<1>1. /\ h \in [0..n -> Seq(K)] /\ h[0] = seq /\ F = h[n]
      /\ \A m \in 1..n : h[m] = h[m - 1] \o seqs[m]
  BY <1>0 DEF FollowedBy
<1>2. n \in Nat /\ \A m \in 1..n : seqs[m] \in Seq(K)
  OBVIOUS
<1> HIDE DEF n, F
<1> DEFINE Keys_(m) == ToSet(seq) \cup UNION {ToSet(seqs[i]) : i \in 1..m}
           T == {m \in Nat : m <= n =>
                   ToSet(h[m]) = Keys_(m) /\ (Separate(seq, seqs) => IsInjective(h[m]))}
<1>3. 0 \in T
  <2>1. Keys_(0) = ToSet(seq)
    OBVIOUS
  <2> QED
    BY <1>1, <2>1 DEF Separate
<1>4. ASSUME NEW m \in Nat, m \in T PROVE m + 1 \in T
  <2> SUFFICES ASSUME m + 1 <= n
               PROVE  /\ ToSet(h[m + 1]) = Keys_(m + 1)
                      /\ Separate(seq, seqs) => IsInjective(h[m + 1])
    OBVIOUS
  <2>1. m + 1 \in 1..n /\ (m + 1) - 1 = m /\ m <= n /\ m \in 0..n
    BY <1>2
  <2>2. /\ h[m] \in Seq(K) /\ seqs[m + 1] \in Seq(K) /\ h[m + 1] = h[m] \o seqs[m + 1]
    BY <1>1, <1>2, <2>1
  <2>3. ToSet(h[m]) = Keys_(m) /\ (Separate(seq, seqs) => IsInjective(h[m]))
    BY <1>4, <2>1
  <2>4. /\ ToSet(h[m + 1]) = ToSet(h[m]) \cup ToSet(seqs[m + 1])
        /\ IsInjective(h[m]) /\ IsInjective(seqs[m + 1])
             /\ ToSet(h[m]) \cap ToSet(seqs[m + 1]) = {} => IsInjective(h[m + 1])
    BY <2>2, JoinKeys
  <2>5. Keys_(m + 1) = Keys_(m) \cup ToSet(seqs[m + 1])
    <3>1. 1..(m + 1) = (1..m) \cup {m + 1}
      OBVIOUS
    <3> QED
      BY <3>1
  <2>6. ASSUME Separate(seq, seqs)
        PROVE  IsInjective(seqs[m + 1]) /\ Keys_(m) \cap ToSet(seqs[m + 1]) = {}
    <3>1. \A i \in 1..m : i \in 1..n /\ i # m + 1
      BY <1>2, <2>1
    <3>2. m + 1 \in 1..Len(seqs) /\ \A i \in 1..m : i \in 1..Len(seqs) /\ i # m + 1
      BY <2>1, <3>1 DEF n
    <3>3. /\ IsInjective(seqs[m + 1]) /\ ToSet(seq) \cap ToSet(seqs[m + 1]) = {}
          /\ \A i \in 1..m : ToSet(seqs[i]) \cap ToSet(seqs[m + 1]) = {}
      BY ONLY <2>6, <3>2 DEF Separate
    <3> QED
      BY <3>3
  <2> HIDE DEF Keys_
  <2> QED
    BY <2>3, <2>4, <2>5, <2>6
<1>5. n \in T
  <2>1. Nat \subseteq T
    <3> HIDE DEF T
    <3> QED
      BY <1>3, <1>4, NatInd
  <2> QED
    BY <1>2, <2>1
<1> QED
  BY <1>1, <1>2, <1>5 DEF n, F

LEMMA WithoutDistinct ==
  ASSUME NEW K, NEW seq \in Seq(K), NEW keys
  PROVE  /\ Len(Without(seq, keys)) <= Len(seq)
         /\ IsInjective(seq) => IsInjective(Without(seq, keys))
<1>0. PICK f : LeavesOf(f, seq, keys, K) /\ Without(seq, keys) = f[Len(seq)]
  BY WithoutSteps
<1>1. /\ f \in [0..Len(seq) -> Seq(K)]
      /\ f[0] = <<>> /\ Without(seq, keys) = f[Len(seq)]
      /\ \A n \in 1..Len(seq) :
           f[n] = IF seq[n] \in keys THEN f[n - 1] ELSE Append(f[n - 1], seq[n])
  BY <1>0 DEF LeavesOf
<1> DEFINE T == {n \in Nat : n <= Len(seq) =>
                   /\ Len(f[n]) <= n /\ ToSet(f[n]) \subseteq {seq[i] : i \in 1..n}
                   /\ IsInjective(seq) => IsInjective(f[n])}
<1>2. Len(seq) \in Nat /\ DOMAIN seq = 1..Len(seq) /\ \A i \in 1..Len(seq) : seq[i] \in K
  OBVIOUS
<1>3. 0 \in T
  <2>1. ToSet(<<>>) = {} /\ IsInjective(<<>>) /\ Len(<<>>) = 0
    BY DEF ToSet, IsInjective
  <2> QED
    BY <1>1, <2>1
<1>4. ASSUME NEW m \in Nat, m \in T PROVE m + 1 \in T
  <2> SUFFICES ASSUME m + 1 <= Len(seq)
               PROVE  /\ Len(f[m + 1]) <= m + 1
                      /\ ToSet(f[m + 1]) \subseteq {seq[i] : i \in 1..(m + 1)}
                      /\ IsInjective(seq) => IsInjective(f[m + 1])
    OBVIOUS
  <2>1. /\ m + 1 \in 1..Len(seq) /\ (m + 1) - 1 = m /\ m <= Len(seq) /\ m \in 0..Len(seq)
        /\ 1..(m + 1) = (1..m) \cup {m + 1}
    BY <1>2
  <2>2. /\ Len(f[m]) <= m /\ ToSet(f[m]) \subseteq {seq[i] : i \in 1..m}
        /\ IsInjective(seq) => IsInjective(f[m])
    BY <1>4, <2>1
  <2>3. f[m] \in Seq(K) /\ seq[m + 1] \in K /\ Len(f[m]) \in Nat
    BY <1>1, <1>2, <2>1
  <2>4. f[m + 1] = IF seq[m + 1] \in keys THEN f[m] ELSE Append(f[m], seq[m + 1])
    BY <1>1, <2>1
  <2>5. /\ Len(Append(f[m], seq[m + 1])) = Len(f[m]) + 1
        /\ ToSet(Append(f[m], seq[m + 1])) = ToSet(f[m]) \cup {seq[m + 1]}
        /\ IsInjective(f[m]) /\ seq[m + 1] \notin ToSet(f[m])
             => IsInjective(Append(f[m], seq[m + 1]))
    BY <2>3, AppendKeys
  <2>6. {seq[i] : i \in 1..(m + 1)} = {seq[i] : i \in 1..m} \cup {seq[m + 1]}
    BY <2>1
  <2>7. IsInjective(seq) => seq[m + 1] \notin {seq[i] : i \in 1..m}
    <3>1. \A i \in 1..m : i \in 1..Len(seq) /\ i # m + 1
      BY <2>1
    <3> QED
      BY <1>2, <2>1, <3>1 DEF IsInjective
  <2>8. Len(f[m + 1]) <= m + 1
    BY <2>2, <2>3, <2>4, <2>5
  <2>9. ToSet(f[m + 1]) \subseteq {seq[i] : i \in 1..(m + 1)}
    BY <2>2, <2>4, <2>5, <2>6
  <2>10. IsInjective(seq) => IsInjective(f[m + 1])
    BY <2>2, <2>4, <2>5, <2>7
  <2> QED
    BY <2>8, <2>9, <2>10
<1>5. Len(seq) \in T
  <2>1. Nat \subseteq T
    <3> HIDE DEF T
    <3> QED
      BY <1>3, <1>4, NatInd
  <2> QED
    BY <1>2, <2>1
<1> QED
  BY <1>1, <1>2, <1>5

LEMMA AmongKeys ==
  ASSUME NEW seq \in Seq(Keys), NEW keys
  PROVE  /\ Among(seq, keys) \in Seq(Keys)
         /\ ToSet(Among(seq, keys)) = ToSet(seq) \cap keys
         /\ IsInjective(seq) => IsInjective(Among(seq, keys))
<1>1. ToSet(seq) \subseteq Keys
  BY KeysOf
<1>2. Among(seq, keys) = Without(seq, Keys \ keys)
  BY DEF Among
<1>3. /\ Without(seq, Keys \ keys) \in Seq(Keys)
      /\ ToSet(Without(seq, Keys \ keys)) = ToSet(seq) \ (Keys \ keys)
  BY WithoutKeys
<1>4. IsInjective(seq) => IsInjective(Without(seq, Keys \ keys))
  BY WithoutDistinct
<1> QED
  BY <1>1, <1>2, <1>3, <1>4

-----------------------------------------------------------------------------
(* Slot policies: a hit keeps every record.                                *)

LEMMA PolicyFields ==
  ASSUME NEW p \in SlotPolicy
  PROVE  /\ p.kind \in Kinds /\ p.remembered \in Nat /\ p.offeredOnce \in Seq(Keys)
         /\ p.buckets \in [0..MaxHits -> Seq(Keys)]
         /\ p = [kind |-> p.kind, remembered |-> p.remembered, buckets |-> p.buckets,
                 offeredOnce |-> p.offeredOnce]
  BY DEF SlotPolicy

(* A policy whose buckets are replaced. *)
Rebucketed(p, b) ==
    [kind |-> p.kind, remembered |-> p.remembered, buckets |-> b,
     offeredOnce |-> p.offeredOnce]

LEMMA RebucketedFields ==
  ASSUME NEW p \in SlotPolicy, NEW b \in [0..MaxHits -> Seq(Keys)]
  PROVE  /\ Rebucketed(p, b) \in SlotPolicy
         /\ Rebucketed(p, b).kind = p.kind /\ Rebucketed(p, b).remembered = p.remembered
         /\ Rebucketed(p, b).buckets = b /\ Rebucketed(p, b).offeredOnce = p.offeredOnce
  BY DEF SlotPolicy, Rebucketed

(* One key moves to the end of a bucket. *)
MovedTo(b, c, h, k) ==
    /\ IsInjective(c[h]) /\ ToSet(c[h]) = ToSet(b[h]) \cup {k}
    /\ \A x \in (0..MaxHits) \ {h} : IsInjective(c[x]) /\ ToSet(c[x]) = ToSet(b[x]) \ {k}

StillRecords(p, q) ==
    /\ q \in SlotPolicy /\ RecordedOnce(q)
    /\ q.kind = p.kind /\ q.remembered = p.remembered /\ q.offeredOnce = p.offeredOnce
    /\ RecordedIn(q) = RecordedIn(p)

LEMMA MovedKeys ==
  ASSUME NEW p \in SlotPolicy, RecordedOnce(p), NEW c \in [0..MaxHits -> Seq(Keys)],
         NEW h \in 0..MaxHits, NEW k \in RecordedIn(p),
         MovedTo(p.buckets, c, h, k), p.kind # "lfu" => \A x \in 1..MaxHits : c[x] = <<>>
  PROVE  StillRecords(p, Rebucketed(p, c))
<1> DEFINE q == Rebucketed(p, c)
           b == p.buckets
<1>1. /\ q \in SlotPolicy /\ q.kind = p.kind /\ q.remembered = p.remembered
      /\ q.buckets = c /\ q.offeredOnce = p.offeredOnce
  BY RebucketedFields
<1>2. \A x, y \in 0..MaxHits : x # y => ToSet(b[x]) \cap ToSet(b[y]) = {}
  BY DEF RecordedOnce
<1>3. /\ RecordedIn(p) = UNION {ToSet(b[x]) : x \in 0..MaxHits}
      /\ RecordedIn(q) = UNION {ToSet(c[x]) : x \in 0..MaxHits}
  BY <1>1 DEF RecordedIn
<1> HIDE DEF q, b
<1>m. MovedTo(b, c, h, k)
  BY DEF b
<1>4. ASSUME NEW x \in 0..MaxHits, NEW y \in 0..MaxHits, x # y
      PROVE  ToSet(c[x]) \cap ToSet(c[y]) = {}
  <2>1. ToSet(b[x]) \cap ToSet(b[y]) = {}
    BY <1>2, <1>4
  <2>2. \A z \in 0..MaxHits :
           IF z = h THEN ToSet(c[z]) = ToSet(b[z]) \cup {k} ELSE ToSet(c[z]) = ToSet(b[z]) \ {k}
    BY <1>m DEF MovedTo
  <2>3. /\ IF x = h THEN ToSet(c[x]) = ToSet(b[x]) \cup {k} ELSE ToSet(c[x]) = ToSet(b[x]) \ {k}
        /\ IF y = h THEN ToSet(c[y]) = ToSet(b[y]) \cup {k} ELSE ToSet(c[y]) = ToSet(b[y]) \ {k}
    BY <2>2
  <2> QED
    BY <1>4, <2>1, <2>3
<1>5. RecordedIn(q) = RecordedIn(p)
  <2>1. RecordedIn(q) \subseteq RecordedIn(p)
    BY <1>3, <1>m DEF MovedTo
  <2>2. ASSUME NEW x \in 0..MaxHits, NEW l \in ToSet(b[x]) PROVE l \in RecordedIn(q)
    BY <1>3, <1>m DEF MovedTo
  <2> QED
    BY <1>3, <2>1, <2>2
<1>6. \A x \in 0..MaxHits : IsInjective(c[x])
  BY <1>m DEF MovedTo
<1>7. RecordedOnce(q)
  BY <1>1, <1>4, <1>6 DEF RecordedOnce
<1> QED
  BY <1>1, <1>5, <1>7 DEF StillRecords, q

LEMMA MovedToNewestEnd ==
  ASSUME MaxHits \in Nat, NEW p \in SlotPolicy, RecordedOnce(p), p.kind # "lfu",
         NEW k \in RecordedIn(p)
  PROVE  StillRecords(p, MoveToNewestEnd(p, k))
<1> DEFINE b == p.buckets
           c == [b EXCEPT ![0] = Append(Without(b[0], {k}), k)]
<1>1. b \in [0..MaxHits -> Seq(Keys)] /\ 0 \in 0..MaxHits
  BY PolicyFields
<1>2. MoveToNewestEnd(p, k) = Rebucketed(p, c)
  <2>1. MoveToNewestEnd(p, k) = [p EXCEPT !.buckets[0] = Append(Without(@, {k}), k)]
    BY DEF MoveToNewestEnd
  <2>2. [p EXCEPT !.buckets[0] = Append(Without(@, {k}), k)] = [p EXCEPT !.buckets = c]
    BY <1>1, PolicyFields
  <2> HIDE DEF c
  <2>3. [p EXCEPT !.buckets = c] = Rebucketed(p, c)
    BY PolicyFields DEF Rebucketed
  <2> QED
    BY <2>1, <2>2, <2>3
<1>3. \A x \in 1..MaxHits : b[x] = <<>>
  BY DEF RecordedOnce
<1>4. k \in ToSet(b[0]) /\ k \in Keys
  <2>1. ToSet(<<>>) = {}
    BY DEF ToSet
  <2>2. 0..MaxHits = {0} \cup 1..MaxHits
    OBVIOUS
  <2>3. PICK x \in 0..MaxHits : k \in ToSet(b[x])
    BY DEF RecordedIn
  <2>4. x = 0
    BY <1>3, <2>1, <2>2, <2>3
  <2> QED
    BY <1>1, <2>3, <2>4, KeysOf
<1>5. /\ Without(b[0], {k}) \in Seq(Keys) /\ ToSet(Without(b[0], {k})) = ToSet(b[0]) \ {k}
      /\ IsInjective(Without(b[0], {k}))
  <2>1. b[0] \in Seq(Keys) /\ IsInjective(b[0])
    BY <1>1 DEF RecordedOnce
  <2> QED
    BY <2>1, WithoutKeys, WithoutDistinct
<1> DEFINE w == Without(b[0], {k})
<1>w. w \in Seq(Keys) /\ ToSet(w) = ToSet(b[0]) \ {k} /\ IsInjective(w)
  BY <1>5
<1>v. c = [b EXCEPT ![0] = Append(w, k)]
  OBVIOUS
<1> HIDE DEF b, w, c
<1>6. /\ Append(w, k) \in Seq(Keys)
      /\ ToSet(Append(w, k)) = ToSet(b[0]) \cup {k}
      /\ IsInjective(Append(w, k))
  <2>1. k \notin ToSet(w) /\ k \in Keys
    BY <1>4, <1>w
  <2>2. ToSet(Append(w, k)) = ToSet(w) \cup {k}
    BY <1>w, <2>1, AppendKeys
  <2> QED
    BY <1>4, <1>w, <2>1, <2>2, AppendKeys
<1>7. /\ c \in [0..MaxHits -> Seq(Keys)] /\ c[0] = Append(w, k)
      /\ \A x \in 1..MaxHits : c[x] = b[x]
  <2>1. 0..MaxHits = {0} \cup 1..MaxHits /\ 0 \notin 1..MaxHits
    OBVIOUS
  <2> QED
    BY <1>1, <1>6, <1>v, <2>1
<1> HIDE DEF c
<1>8. MovedTo(b, c, 0, k)
  <2>1. ASSUME NEW x \in (0..MaxHits) \ {0}
        PROVE  IsInjective(c[x]) /\ ToSet(c[x]) = ToSet(b[x]) \ {k}
    <3>1. x \in 1..MaxHits /\ ToSet(<<>>) = {} /\ IsInjective(<<>>)
      BY DEF ToSet, IsInjective
    <3> QED
      BY <1>3, <1>7, <3>1
  <2> QED
    BY <1>6, <1>7, <2>1 DEF MovedTo
<1>9. \A x \in 1..MaxHits : c[x] = <<>>
  BY <1>3, <1>7
<1> QED
  BY <1>1, <1>2, <1>7, <1>8, <1>9, MovedKeys DEF b

(* The buckets after one more hit of a key. *)
Raised(p, k) ==
    LET h == HitCount(p, k)
    IN  [x \in 0..MaxHits |-> IF x = h THEN Without(p.buckets[h], {k})
                              ELSE IF x = h + 1 THEN Append(p.buckets[h + 1], k)
                              ELSE p.buckets[x]]

LEMMA RaisedBuckets ==
  ASSUME MaxHits \in Nat, NEW p \in SlotPolicy, NEW k \in RecordedIn(p)
  PROVE  /\ HitCount(p, k) \in 0..MaxHits /\ k \in ToSet(p.buckets[HitCount(p, k)])
         /\ k \in Keys
         /\ Raised(p, k) \in [0..MaxHits -> Seq(Keys)]
         /\ MoveUpABucket(p, k) = Rebucketed(p, Raised(p, k))
<1> DEFINE h == HitCount(p, k)
           c == Raised(p, k)
<1>1. p.buckets \in [0..MaxHits -> Seq(Keys)]
  BY PolicyFields
<1>2. h \in 0..MaxHits /\ k \in ToSet(p.buckets[h])
  <2>1. PICK x \in 0..MaxHits : k \in ToSet(p.buckets[x])
    BY DEF RecordedIn
  <2> QED
    BY <2>1 DEF HitCount
<1>3. h + 1 \in Nat /\ h \in Nat /\ h # h + 1
  BY <1>2
<1>4. k \in Keys
  BY <1>1, <1>2, KeysOf
<1>5. c = [x \in 0..MaxHits |-> IF x = h THEN Without(p.buckets[h], {k})
                              ELSE IF x = h + 1 THEN Append(p.buckets[h + 1], k)
                              ELSE p.buckets[x]]
  BY DEF Raised
<1> HIDE DEF h, c
<1>6. c \in [0..MaxHits -> Seq(Keys)]
  <2>1. p.buckets[h] \in Seq(Keys) /\ Without(p.buckets[h], {k}) \in Seq(Keys)
    BY <1>1, <1>2, WithoutKeys
  <2>2. \A x \in 0..MaxHits : c[x] \in Seq(Keys)
    BY <1>1, <1>2, <1>3, <1>4, <1>5, <2>1
  <2> QED
    BY <1>5, <2>2
<1>7. MoveUpABucket(p, k) = Rebucketed(p, c)
  <2>1. MoveUpABucket(p, k)
          = [p EXCEPT !.buckets[h] = Without(@, {k}), !.buckets[h + 1] = Append(@, k)]
    BY DEF MoveUpABucket, h
  <2>2. [p.buckets EXCEPT ![h] = Without(@, {k}), ![h + 1] = Append(@, k)] = c
    BY <1>1, <1>2, <1>3, <1>5
  <2>3. [p EXCEPT !.buckets[h] = Without(@, {k}), !.buckets[h + 1] = Append(@, k)]
          = [p EXCEPT !.buckets = [p.buckets EXCEPT ![h] = Without(@, {k}), ![h + 1] = Append(@, k)]]
    BY <1>1, <1>2, <1>3, PolicyFields
  <2>4. [p EXCEPT !.buckets = c] = Rebucketed(p, c)
    BY PolicyFields DEF Rebucketed
  <2> QED
    BY <2>1, <2>2, <2>3, <2>4
<1> QED
  BY <1>2, <1>4, <1>6, <1>7 DEF h, c

LEMMA MovedUpABucket ==
  ASSUME MaxHits \in Nat, NEW p \in SlotPolicy, RecordedOnce(p), p.kind = "lfu",
         NEW k \in RecordedIn(p), k \notin ToSet(p.buckets[MaxHits])
  PROVE  /\ StillRecords(p, MoveUpABucket(p, k))
         /\ \A l \in Keys \ {k} :
              l \in ToSet(MoveUpABucket(p, k).buckets[MaxHits]) => l \in ToSet(p.buckets[MaxHits])
<1> DEFINE b == p.buckets
           h == HitCount(p, k)
           c == Raised(p, k)
<1>1. b \in [0..MaxHits -> Seq(Keys)] /\ MaxHits \in 0..MaxHits
  BY PolicyFields
<1>2. h \in 0..MaxHits /\ k \in ToSet(b[h])
  BY RaisedBuckets
<1>3. h + 1 \in 0..MaxHits /\ h \in Nat /\ h # h + 1
  BY <1>2
<1>4. MoveUpABucket(p, k) = Rebucketed(p, c) /\ c \in [0..MaxHits -> Seq(Keys)]
  BY RaisedBuckets
<1> HIDE DEF h
<1>5. /\ Without(b[h], {k}) \in Seq(Keys) /\ ToSet(Without(b[h], {k})) = ToSet(b[h]) \ {k}
      /\ IsInjective(Without(b[h], {k}))
  <2>1. b[h] \in Seq(Keys) /\ IsInjective(b[h])
    BY <1>1, <1>2 DEF RecordedOnce
  <2> QED
    BY <2>1, WithoutKeys, WithoutDistinct
<1>d. \A x, y \in 0..MaxHits : x # y => ToSet(b[x]) \cap ToSet(b[y]) = {}
  BY DEF RecordedOnce
<1>6. /\ Append(b[h + 1], k) \in Seq(Keys) /\ ToSet(Append(b[h + 1], k)) = ToSet(b[h + 1]) \cup {k}
      /\ IsInjective(Append(b[h + 1], k))
  <2>1. b[h + 1] \in Seq(Keys) /\ IsInjective(b[h + 1])
    BY <1>1, <1>3 DEF RecordedOnce
  <2>2. k \in Keys /\ k \notin ToSet(b[h + 1])
    BY <1>1, <1>2, <1>3, <1>d, KeysOf
  <2> QED
    BY <2>1, <2>2, AppendKeys
<1>7. /\ c \in [0..MaxHits -> Seq(Keys)]
      /\ c[h] = Without(b[h], {k}) /\ c[h + 1] = Append(b[h + 1], k)
      /\ \A x \in (0..MaxHits) \ {h, h + 1} : c[x] = b[x]
  BY <1>2, <1>3, <1>4 DEF Raised, h
<1> HIDE DEF c
<1>8. MovedTo(b, c, h + 1, k)
  <2>1. ASSUME NEW x \in (0..MaxHits) \ {h + 1}
        PROVE  IsInjective(c[x]) /\ ToSet(c[x]) = ToSet(b[x]) \ {k}
    <3>1. CASE x = h
      BY <1>5, <1>7, <3>1
    <3>2. CASE x # h
      <4>1. c[x] = b[x] /\ IsInjective(b[x])
        BY <1>7, <3>2 DEF RecordedOnce
      <4>2. k \notin ToSet(b[x])
        BY <1>2, <1>d, <3>2
      <4> QED
        BY <4>1, <4>2
    <3> QED
      BY <3>1, <3>2
  <2> QED
    BY <1>6, <1>7, <2>1 DEF MovedTo
<1>9. StillRecords(p, Rebucketed(p, c))
  BY <1>1, <1>3, <1>7, <1>8, MovedKeys
<1>10. Rebucketed(p, c).buckets = c
  BY <1>7, RebucketedFields
<1>11. \A l \in Keys \ {k} : l \in ToSet(c[MaxHits]) => l \in ToSet(b[MaxHits])
  BY <1>1, <1>8 DEF MovedTo
<1> QED
  BY <1>4, <1>9, <1>10, <1>11

(* one hit keeps every record, and moves at most its own key               *)
LEMMA HitStep ==
  ASSUME MaxHits \in Nat, NEW p \in SlotPolicy, NEW k \in Keys
  PROVE  /\ RecordHit(p, k) \in SlotPolicy
         /\ RecordedOnce(p) /\ (p.kind = "lfu" => k \notin ToSet(p.buckets[MaxHits])) =>
              /\ StillRecords(p, RecordHit(p, k))
              /\ p.kind = "lfu" => \A l \in Keys \ {k} :
                   l \in ToSet(RecordHit(p, k).buckets[MaxHits]) => l \in ToSet(p.buckets[MaxHits])
<1>1. p.kind \in {"fill", "fifo", "lru", "lfu"}
  BY PolicyFields DEF Kinds
<1>2. CASE k \notin RecordedIn(p) \/ p.kind \in {"fill", "fifo"}
  <2>1. RecordHit(p, k) = p
    BY <1>2 DEF RecordHit
  <2> QED
    BY <2>1 DEF StillRecords
<1>3. CASE k \in RecordedIn(p) /\ p.kind = "lru"
  <2>1. RecordHit(p, k) = MoveToNewestEnd(p, k)
    BY <1>3 DEF RecordHit
  <2>2. MoveToNewestEnd(p, k) \in SlotPolicy
    <3> DEFINE c == [p.buckets EXCEPT ![0] = Append(Without(p.buckets[0], {k}), k)]
    <3>1. p.buckets \in [0..MaxHits -> Seq(Keys)] /\ 0 \in 0..MaxHits
      BY PolicyFields
    <3>2. Without(p.buckets[0], {k}) \in Seq(Keys)
      BY <3>1, WithoutKeys
    <3>3. Append(Without(p.buckets[0], {k}), k) \in Seq(Keys)
      BY <3>2, AppendKeys
    <3>4. c \in [0..MaxHits -> Seq(Keys)]
      BY <3>1, <3>3
    <3>5. MoveToNewestEnd(p, k) = [p EXCEPT !.buckets = c]
      BY <3>1, PolicyFields DEF MoveToNewestEnd
    <3> HIDE DEF c
    <3>6. [p EXCEPT !.buckets = c] = Rebucketed(p, c)
      BY PolicyFields DEF Rebucketed
    <3> QED
      BY <3>4, <3>5, <3>6, RebucketedFields
  <2> QED
    BY <1>3, <2>1, <2>2, MovedToNewestEnd
<1>4. CASE k \in RecordedIn(p) /\ p.kind = "lfu"
  <2>1. RecordHit(p, k) = MoveUpABucket(p, k)
    BY <1>4 DEF RecordHit
  <2>2. MoveUpABucket(p, k) \in SlotPolicy
    BY <1>4, RaisedBuckets, RebucketedFields
  <2> QED
    BY <1>4, <2>1, <2>2, MovedUpABucket
<1> QED
  BY <1>1, <1>2, <1>3, <1>4

(* Hits recorded one after another. *)
HitsOf(h, p, keys) ==
    /\ h \in [0..Len(keys) -> SlotPolicy]
    /\ h[0] = p /\ RecordHits(p, keys) = h[Len(keys)]
    /\ \A m \in 1..Len(keys) : h[m] = RecordHit(h[m - 1], keys[m])

LEMMA RecordHitsSteps ==
  ASSUME MaxHits \in Nat, NEW p \in SlotPolicy, NEW keys \in Seq(Keys)
  PROVE  \E h : HitsOf(h, p, keys)
<1> DEFINE n == Len(keys)
           S == 1..n
           V == SlotPolicy
           G == [x \in S \X V |-> RecordHit(x[2], keys[x[1]])]
           Iter(f) == f = [s \in SUBSET S |->
               IF s = {} THEN p ELSE LET x == Max(s) IN RecordHit(f[s \ {x}], keys[x])]
<1>1. n \in Nat /\ DOMAIN keys = S /\ p \in V /\ \A i \in S : keys[i] \in Keys
  OBVIOUS
<1>2. RecordHits(p, keys) = (CHOOSE f : Iter(f))[S]
  BY <1>1 DEF RecordHits, FoldLeft, MapThenFoldSet
<1>3. G \in [S \X V -> V]
  <2>1. \A i \in S : \A v \in V : RecordHit(v, keys[i]) \in V
    BY <1>1, HitStep
  <2> HIDE DEF V, S
  <2> QED
    BY <2>1
<1>31. ASSUME NEW m \in S, NEW v \in V
       PROVE  G[<<m, v>>] = RecordHit(v, keys[m])
  <2> HIDE DEF V, S
  <2> QED
    OBVIOUS
<1> HIDE DEF G, V
<1>4. PICK f : FoldsOf(f, n, V, p, G)
  <2> HIDE DEF n, Iter
  <2> QED
    BY <1>1, <1>3, FoldOnSubsets
<1>5. Iter(f)
  <2>1. \A s \in SUBSET S : s # {} =>
          f[s] = LET x == Max(s) IN RecordHit(f[s \ {x}], keys[x])
    BY <1>31, <1>4 DEF FoldsOf
  <2> QED
    BY <1>4, <2>1 DEF FoldsOf
<1>6. PICK g : Iter(g) /\ RecordHits(p, keys) = g[S]
  <2> HIDE DEF Iter
  <2> QED
    BY <1>2, <1>5
<1>7. g[{}] = p
  BY <1>6
<1>8. ASSUME NEW m \in S, g[1..(m - 1)] \in V
      PROVE  g[1..m] = G[<<m, g[1..(m - 1)]>>]
  <2>1. 1..m \in SUBSET S /\ 1..m # {} /\ (1..m) \ {m} = 1..(m - 1) /\ Max(1..m) = m
    <3>1. n \in Nat
      BY <1>1
    <3> HIDE DEF n, Iter
    <3> QED
      BY <3>1, FirstOnes
  <2>2. g[1..m] = RecordHit(g[1..(m - 1)], keys[m])
    BY <1>6, <2>1
  <2> QED
    BY <1>31, <1>8, <2>2
<1>9. PICK h : StepsOf(h, n, V, p, G, g[1..n])
  <2> HIDE DEF n, Iter
  <2>1. PrefixesOf(g, n, V, p, G)
    BY <1>7, <1>8 DEF PrefixesOf
  <2>2. n \in Nat /\ p \in V /\ G \in [(1..n) \X V -> V]
    BY <1>1, <1>3
  <2> HIDE DEF S
  <2> QED
    BY <2>1, <2>2, FoldOfPrefixes
<1>10. /\ h \in [0..n -> V] /\ h[0] = p /\ RecordHits(p, keys) = h[n]
       /\ \A m \in S : h[m] = RecordHit(h[m - 1], keys[m])
  <2> HIDE DEF n, Iter
  <2>1. \A m \in S : m - 1 \in 0..n
    BY <1>1
  <2> QED
    BY <1>31, <1>6, <1>9, <2>1 DEF StepsOf
<1> QED
  BY <1>10 DEF V, HitsOf

(* any number of hits keep every record                                    *)
LEMMA HitsKeepRecords ==
  ASSUME MaxHits \in Nat, NEW p \in SlotPolicy, RecordedOnce(p),
         NEW keys \in Seq(Keys), IsInjective(keys),
         p.kind = "lfu" => ToSet(keys) \cap ToSet(p.buckets[MaxHits]) = {}
  PROVE  StillRecords(p, RecordHits(p, keys))
<1> DEFINE n == Len(keys)
<1>0. PICK h : HitsOf(h, p, keys)
  BY RecordHitsSteps
<1>1. /\ h \in [0..n -> SlotPolicy] /\ h[0] = p /\ RecordHits(p, keys) = h[n]
      /\ \A m \in 1..n : h[m] = RecordHit(h[m - 1], keys[m])
  BY <1>0 DEF HitsOf
<1>2. n \in Nat /\ \A i \in 1..n : keys[i] \in Keys /\ keys[i] \in ToSet(keys)
  BY KeysOf
<1>3. \A x, y \in 1..n : keys[x] = keys[y] => x = y
  BY DEF IsInjective
<1> HIDE DEF n
<1> DEFINE T == {m \in Nat : m <= n =>
                   /\ StillRecords(p, h[m])
                   /\ p.kind = "lfu" => \A x \in (m + 1)..n : keys[x] \notin ToSet(h[m].buckets[MaxHits])}
<1>4. 0 \in T
  <2>1. StillRecords(p, p)
    BY DEF StillRecords
  <2>2. p.kind = "lfu" => \A x \in 1..n : keys[x] \notin ToSet(p.buckets[MaxHits])
    BY <1>2
  <2> QED
    BY <1>1, <2>1, <2>2
<1>5. ASSUME NEW m \in Nat, m \in T PROVE m + 1 \in T
  <2> SUFFICES ASSUME m + 1 <= n
               PROVE  /\ StillRecords(p, h[m + 1])
                      /\ p.kind = "lfu" => \A x \in ((m + 1) + 1)..n :
                           keys[x] \notin ToSet(h[m + 1].buckets[MaxHits])
    OBVIOUS
  <2>1. m + 1 \in 1..n /\ (m + 1) - 1 = m /\ m <= n /\ m \in 0..n /\ m + 1 \in (m + 1)..n
    BY <1>2
  <2>2. /\ StillRecords(p, h[m])
        /\ p.kind = "lfu" => \A x \in (m + 1)..n : keys[x] \notin ToSet(h[m].buckets[MaxHits])
    BY <1>5, <2>1
  <2> DEFINE k == keys[m + 1]
             q == h[m]
  <2>3. q \in SlotPolicy /\ k \in Keys /\ h[m + 1] = RecordHit(q, k) /\ RecordedOnce(q)
        /\ q.kind = p.kind
    BY <1>1, <1>2, <2>1, <2>2 DEF StillRecords
  <2>4. q.kind = "lfu" => k \notin ToSet(q.buckets[MaxHits])
    BY <2>1, <2>2, <2>3
  <2> HIDE DEF k, q
  <2>5. /\ StillRecords(q, h[m + 1])
        /\ q.kind = "lfu" => \A l \in Keys \ {k} :
             l \in ToSet(h[m + 1].buckets[MaxHits]) => l \in ToSet(q.buckets[MaxHits])
    BY <2>3, <2>4, HitStep
  <2>6. StillRecords(p, h[m + 1])
    BY <2>2, <2>5 DEF StillRecords, q
  <2>7. ASSUME p.kind = "lfu", NEW x \in ((m + 1) + 1)..n
        PROVE  keys[x] \notin ToSet(h[m + 1].buckets[MaxHits])
    <3>1. x \in 1..n /\ x # m + 1 /\ x \in (m + 1)..n
      BY <1>2
    <3>2. keys[x] \in Keys \ {k}
      BY <1>2, <1>3, <2>1, <3>1 DEF k
    <3>3. keys[x] \notin ToSet(q.buckets[MaxHits])
      BY <2>2, <2>7, <3>1 DEF q
    <3> QED
      BY <2>3, <2>5, <2>7, <3>2, <3>3
  <2> QED
    BY <2>6, <2>7
<1>6. n \in T
  <2>1. Nat \subseteq T
    <3> HIDE DEF T
    <3> QED
      BY <1>4, <1>5, NatInd
  <2> QED
    BY <1>2, <2>1
<1> QED
  BY <1>1, <1>2, <1>6

-----------------------------------------------------------------------------
(* Slot policies: what fits, who goes, in which order.                     *)

LEMMA MaxOfSome ==
  ASSUME NEW n \in Nat, NEW T \in SUBSET (0..n), T # {}
  PROVE  Max(T) \in T
<1>1. PICK x \in T : \A y \in T : y <= x
  BY LargestOf
<1>2. \A y \in T : x >= y
  BY <1>1
<1> QED
  BY <1>2 DEF Max

LEMMA MinOfSome ==
  ASSUME NEW n \in Nat, NEW T \in SUBSET (0..n), T # {}
  PROVE  /\ Min(T) \in T /\ \A y \in T : Min(T) <= y
<1>0. T \subseteq Nat
  OBVIOUS
<1>1. PICK x \in T : \A y \in T : x <= y
  BY <1>0, LeastOf
<1> QED
  BY <1>1 DEF Min

LEMMA MaxOfTwo ==
  ASSUME NEW a \in Int, NEW b \in Int
  PROVE  /\ Max({a, b}) \in {a, b} /\ Max({a, b}) >= a /\ Max({a, b}) >= b
<1>1. \E x \in {a, b} : \A y \in {a, b} : x >= y
  OBVIOUS
<1> QED
  BY <1>1 DEF Max

LEMMA MinOfTwo ==
  ASSUME NEW a \in Int, NEW b \in Int
  PROVE  /\ Min({a, b}) \in {a, b} /\ Min({a, b}) <= a /\ Min({a, b}) <= b
<1>1. \E x \in {a, b} : \A y \in {a, b} : x =< y
  OBVIOUS
<1> QED
  BY <1>1 DEF Min

(* Part of a list of keys. *)
PartOf(part, keys) ==
    /\ part \in Seq(Keys) /\ ToSet(part) \subseteq ToSet(keys)
    /\ IsFiniteSet(ToSet(part)) /\ ToSet(part) \in SUBSET Keys /\ RowsOf(part) \in Nat
    /\ IsInjective(keys) => IsInjective(part)

LEMMA FirstKeys ==
  ASSUME RowsAreCounted, NEW keys \in Seq(Keys), NEW m \in 0..Len(keys)
  PROVE  PartOf(SubSeq(keys, 1, m), keys)
<1>1. Len(keys) \in Nat
  OBVIOUS
<1> DEFINE part == SubSeq(keys, 1, m)
<1>2. part \in Seq(Keys) /\ ToSet(part) \subseteq ToSet(keys) /\ (IsInjective(keys) => IsInjective(part))
  <2>1. 1 \in Int /\ m \in Int /\ 1 <= 1 /\ m <= Len(keys)
    BY <1>1
  <2> QED
    BY <2>1, PartKeys
<1> HIDE DEF part
<1>3. IsFiniteSet(ToSet(part)) /\ ToSet(part) \in SUBSET Keys
  BY <1>2, KeysOf
<1>4. RowsOf(part) \in Nat
  BY <1>3, Rows DEF RowsOf
<1> QED
  BY <1>2, <1>3, <1>4 DEF PartOf, part

LEMMA NoKeys ==
  ASSUME RowsAreCounted
  PROVE  /\ <<>> \in Seq(Keys) /\ ToSet(<<>>) = {} /\ RowsOf(<<>>) = 0 /\ IsInjective(<<>>)
         /\ \A keys \in Seq(Keys) : SubSeq(keys, 1, 0) = <<>>
<1>1. ToSet(<<>>) = {} /\ IsInjective(<<>>)
  BY DEF ToSet, IsInjective
<1>2. RowsIn({}) = 0
  BY Rows, FS_EmptySet
<1>3. RowsOf(<<>>) = 0
  BY <1>1, <1>2 DEF RowsOf
<1>4. \A keys \in Seq(Keys) : SubSeq(keys, 1, 0) = <<>>
  OBVIOUS
<1> QED
  BY <1>1, <1>3, <1>4

(* the longest beginning of an offer that fits is part of it and fits      *)
LEMMA FittingPart ==
  ASSUME RowsAreCounted, NEW offer \in Seq(Keys), NEW rows \in Nat
  PROVE  LET part == SubSeq(offer, 1, FittingPrefix(offer, rows))
         IN  PartOf(part, offer) /\ RowsOf(part) <= rows
<1> DEFINE fits == {m \in 0..Len(offer) : RowsOf(SubSeq(offer, 1, m)) <= rows}
           n == FittingPrefix(offer, rows)
<1>1. 0 \in fits
  <2>1. SubSeq(offer, 1, 0) = <<>> /\ 0 <= rows /\ 0 \in 0..Len(offer)
    OBVIOUS
  <2>2. RowsOf(<<>>) = 0
    BY NoKeys
  <2> HIDE DEF fits
  <2>3. RowsOf(SubSeq(offer, 1, 0)) = 0
    BY <2>1, <2>2, Zenon
  <2> QED
    BY <2>1, <2>3 DEF fits
<1>2. n \in fits
  <2>1. fits \in SUBSET (0..Len(offer)) /\ fits # {} /\ Len(offer) \in Nat /\ n = Max(fits)
    BY <1>1 DEF FittingPrefix
  <2> HIDE DEF fits, n
  <2> QED
    BY <2>1, MaxOfSome
<1>3. n \in 0..Len(offer) /\ RowsOf(SubSeq(offer, 1, n)) <= rows
  BY <1>2
<1> HIDE DEF n, fits
<1>4. PartOf(SubSeq(offer, 1, n), offer)
  BY <1>3, FirstKeys
<1> QED
  BY <1>3, <1>4 DEF n

(* victims are unpinned candidates, and enough when enough is to be had    *)
LEMMA Victims ==
  ASSUME RowsAreCounted, NEW candidates \in Seq(Keys), IsInjective(candidates),
         NEW rows \in Nat, NEW pinned, RowsIn(ToSet(candidates) \ pinned) >= rows
  PROVE  LET victims == TakeVictims(candidates, rows, pinned)
         IN  /\ victims \in Seq(Keys) /\ IsInjective(victims)
             /\ ToSet(victims) \subseteq ToSet(candidates) \ pinned
             /\ RowsOf(victims) >= rows
             /\ rows = 0 => victims = <<>>
<1> DEFINE u == Without(candidates, pinned)
           enough == {n \in 0..Len(u) : n = Len(u) \/ RowsOf(SubSeq(u, 1, n)) >= rows}
           n == Min(enough)
<1>1. u \in Seq(Keys) /\ ToSet(u) = ToSet(candidates) \ pinned /\ IsInjective(u) /\ Len(u) \in Nat
  BY WithoutKeys, WithoutDistinct
<1>2. TakeVictims(candidates, rows, pinned) = SubSeq(u, 1, n)
  BY DEF TakeVictims
<1> HIDE DEF u
<1>3. Len(u) \in enough
  BY <1>1
<1>4. n \in enough /\ \A y \in enough : n <= y
  <2>1. enough \in SUBSET (0..Len(u)) /\ enough # {}
    BY <1>3
  <2> HIDE DEF enough
  <2> QED
    BY <1>1, <2>1, MinOfSome
<1> HIDE DEF n
<1>5. n \in 0..Len(u) /\ (n = Len(u) \/ RowsOf(SubSeq(u, 1, n)) >= rows)
  BY <1>4
<1>6. PartOf(SubSeq(u, 1, n), u)
  BY <1>1, <1>5, FirstKeys
<1>7. RowsOf(SubSeq(u, 1, n)) >= rows
  <2>1. CASE n = Len(u)
    <3>1. SubSeq(u, 1, Len(u)) = u
      BY <1>1
    <3>2. RowsOf(u) >= rows
      BY <1>1 DEF RowsOf
    <3> QED
      BY <2>1, <3>1, <3>2
  <2> QED
    BY <1>5, <2>1
<1>8. rows = 0 => n = 0
  <2> HAVE rows = 0
  <2>1. 0 \in enough
    <3>1. SubSeq(u, 1, 0) = <<>> /\ 0 \in 0..Len(u)
      BY <1>1
    <3>2. RowsOf(<<>>) = 0
      BY NoKeys
    <3> HIDE DEF enough
    <3>3. RowsOf(SubSeq(u, 1, 0)) = 0
      BY <3>1, <3>2, Zenon
    <3> QED
      BY <3>1, <3>3 DEF enough
  <2> QED
    BY <1>4, <1>5, <2>1
<1>9. rows = 0 => SubSeq(u, 1, n) = <<>>
  BY <1>8, NoKeys
<1> QED
  BY <1>1, <1>2, <1>6, <1>7, <1>9 DEF PartOf

(* the eviction order names every recorded key once                        *)
LEMMA EvictionOrderKeys ==
  ASSUME MaxHits \in Nat, NEW p \in SlotPolicy, RecordedOnce(p)
  PROVE  /\ EvictionOrder(p) \in Seq(Keys) /\ IsInjective(EvictionOrder(p))
         /\ ToSet(EvictionOrder(p)) = RecordedIn(p)
<1> DEFINE seqs == [i \in 1..(MaxHits + 1) |-> p.buckets[i - 1]]
<1>1. /\ \A i \in 1..(MaxHits + 1) : i - 1 \in 0..MaxHits
      /\ \A h \in 0..MaxHits : h + 1 \in 1..(MaxHits + 1) /\ (h + 1) - 1 = h
  OBVIOUS
<1>2. p.buckets \in [0..MaxHits -> Seq(Keys)]
  BY PolicyFields
<1>3. seqs \in Seq(Seq(Keys)) /\ Len(seqs) = MaxHits + 1
  <2>1. \A i \in 1..(MaxHits + 1) : p.buckets[i - 1] \in Seq(Keys)
    BY <1>1, <1>2
  <2> QED
    BY <2>1
<1>4. \A i \in 1..(MaxHits + 1) : seqs[i] = p.buckets[i - 1]
  OBVIOUS
<1>5. EvictionOrder(p) = Followed(<<>>, seqs)
  BY DEF EvictionOrder
<1> HIDE DEF seqs
<1>6. ToSet(<<>>) = {} /\ <<>> \in Seq(Keys) /\ IsInjective(<<>>)
  BY DEF ToSet, IsInjective
<1>7. Separate(<<>>, seqs)
  <2>1. ASSUME NEW i \in 1..Len(seqs) PROVE IsInjective(seqs[i])
    BY <1>1, <1>3, <1>4 DEF RecordedOnce
  <2>2. ASSUME NEW i \in 1..Len(seqs), NEW j \in 1..Len(seqs), i # j
        PROVE  ToSet(seqs[i]) \cap ToSet(seqs[j]) = {}
    <3>1. i \in 1..(MaxHits + 1) /\ j \in 1..(MaxHits + 1)
      BY <1>3
    <3>2. i - 1 # j - 1 /\ i - 1 \in 0..MaxHits /\ j - 1 \in 0..MaxHits
      BY ONLY <1>1, <2>2, <3>1
    <3>3. ToSet(p.buckets[i - 1]) \cap ToSet(p.buckets[j - 1]) = {}
      BY <3>2 DEF RecordedOnce
    <3>4. seqs[i] = p.buckets[i - 1] /\ seqs[j] = p.buckets[j - 1]
      BY <1>4, <3>1
    <3> QED
      BY ONLY <3>3, <3>4
  <2> QED
    BY <1>6, <2>1, <2>2 DEF Separate
<1>8. /\ Followed(<<>>, seqs) \in Seq(Keys) /\ IsInjective(Followed(<<>>, seqs))
      /\ ToSet(Followed(<<>>, seqs)) = ToSet(<<>>) \cup UNION {ToSet(seqs[i]) : i \in 1..Len(seqs)}
  <2> DEFINE none == <<>>
  <2>1. none \in Seq(Keys) /\ seqs \in Seq(Seq(Keys)) /\ Separate(none, seqs)
    BY <1>3, <1>6, <1>7
  <2> HIDE DEF none
  <2>2. /\ Followed(none, seqs) \in Seq(Keys)
        /\ ToSet(Followed(none, seqs))
             = ToSet(none) \cup UNION {ToSet(seqs[i]) : i \in 1..Len(seqs)}
        /\ Separate(none, seqs) => IsInjective(Followed(none, seqs))
    BY ONLY <2>1, FollowedKeys
  <2> QED
    BY <2>1, <2>2 DEF none
<1>9. UNION {ToSet(seqs[i]) : i \in 1..Len(seqs)} = RecordedIn(p)
  <2>1. \A i \in 1..Len(seqs) : ToSet(seqs[i]) \subseteq RecordedIn(p)
    BY <1>1, <1>3, <1>4 DEF RecordedIn
  <2>2. \A h \in 0..MaxHits : ToSet(p.buckets[h]) = ToSet(seqs[h + 1]) /\ h + 1 \in 1..Len(seqs)
    BY <1>1, <1>3, <1>4
  <2> QED
    BY <2>1, <2>2 DEF RecordedIn
<1> QED
  BY <1>5, <1>6, <1>8, <1>9

-----------------------------------------------------------------------------
(* Slot policies: the decision of every policy is one the slab can take.   *)

(* A decision the slab accepts, and the policy it leaves. *)
SoundDecision(d, p, offer, free, pinned) ==
    /\ d.policy \in SlotPolicy /\ RecordedOnce(d.policy)
    /\ d.policy.kind = p.kind /\ d.policy.remembered = p.remembered
    /\ PartOf(d.admitted, offer) /\ IsInjective(d.admitted)
    /\ d.evicted \in Seq(Keys) /\ IsInjective(d.evicted)
    /\ ToSet(d.evicted) \subseteq IF p.kind = "fill" THEN {} ELSE RecordedIn(p) \ pinned
    /\ RowsOf(d.admitted) <= free + RowsOf(d.evicted)
    /\ d.admitted = <<>> => d.evicted = <<>>
    /\ p.kind # "fill" =>
         RecordedIn(d.policy) = (RecordedIn(p) \ ToSet(d.evicted)) \cup ToSet(d.admitted)

AdmitAssumption(p, offer, free) ==
    /\ SlotPolicyAssumption
    /\ p \in SlotPolicy /\ RecordedOnce(p)
    /\ offer \in Seq(Keys) /\ IsInjective(offer)
    /\ p.kind # "fill" => ToSet(offer) \cap RecordedIn(p) = {}
    /\ free \in Nat

(* FillUntilFull evicts nothing and admits what fits                       *)
LEMMA FillAdmits ==
  ASSUME NEW p, NEW offer, NEW free, NEW pinned, AdmitAssumption(p, offer, free), p.kind = "fill"
  PROVE  LET d == FillUntilFullAdmit(p, offer, free)
         IN  SoundDecision(d, p, offer, free, pinned) /\ d.policy = p
<1> DEFINE part == SubSeq(offer, 1, FittingPrefix(offer, free))
           d == FillUntilFullAdmit(p, offer, free)
<1>1. d.policy = p /\ d.evicted = <<>> /\ d.admitted = part
  BY DEF FillUntilFullAdmit, Decision
<1>2. PartOf(part, offer) /\ RowsOf(part) <= free
  BY FittingPart DEF AdmitAssumption, SlotPolicyAssumption
<1>3. <<>> \in Seq(Keys) /\ ToSet(<<>>) = {} /\ RowsOf(<<>>) = 0 /\ IsInjective(<<>>)
  BY NoKeys DEF AdmitAssumption, SlotPolicyAssumption
<1> HIDE DEF d, part
<1>4. RowsOf(d.admitted) <= free + RowsOf(d.evicted)
  BY <1>1, <1>2, <1>3 DEF AdmitAssumption
<1>5. SoundDecision(d, p, offer, free, pinned)
  BY <1>1, <1>2, <1>3, <1>4 DEF SoundDecision, AdmitAssumption, PartOf
<1> QED
  BY <1>1, <1>5 DEF d

(* The buckets after a decision. *)
LEMMA RecordedDecision ==
  ASSUME MaxHits \in Nat, NEW p \in SlotPolicy, RecordedOnce(p), NEW evicted \in Seq(Keys),
         NEW admitted \in Seq(Keys), IsInjective(admitted), ToSet(admitted) \cap RecordedIn(p) = {}
  PROVE  LET q == Recorded(p, evicted, admitted)
         IN  /\ q \in SlotPolicy /\ RecordedOnce(q)
             /\ q.kind = p.kind /\ q.remembered = p.remembered /\ q.offeredOnce = p.offeredOnce
             /\ RecordedIn(q) = (RecordedIn(p) \ ToSet(evicted)) \cup ToSet(admitted)
<1> DEFINE b == p.buckets
           left(h) == Without(b[h], ToSet(evicted))
           more(h) == IF h = 0 THEN admitted ELSE <<>>
           c == [h \in 0..MaxHits |-> left(h) \o more(h)]
           q == Recorded(p, evicted, admitted)
<1>1. b \in [0..MaxHits -> Seq(Keys)] /\ 0 \in 0..MaxHits
  BY PolicyFields
<1>2. ASSUME NEW h \in 0..MaxHits
      PROVE  /\ c[h] \in Seq(Keys) /\ IsInjective(c[h])
             /\ ToSet(c[h]) = (ToSet(b[h]) \ ToSet(evicted)) \cup ToSet(more(h))
             /\ ToSet(b[h]) \subseteq RecordedIn(p)
             /\ ToSet(more(h)) = IF h = 0 THEN ToSet(admitted) ELSE {}
             /\ b[h] = <<>> /\ h # 0 => c[h] = <<>>
  <2>1. b[h] \in Seq(Keys) /\ IsInjective(b[h]) /\ ToSet(b[h]) \subseteq RecordedIn(p)
    BY <1>1 DEF RecordedOnce, RecordedIn
  <2>2. /\ left(h) \in Seq(Keys) /\ IsInjective(left(h)) /\ Len(left(h)) <= Len(b[h])
        /\ ToSet(left(h)) = ToSet(b[h]) \ ToSet(evicted)
    BY <2>1, WithoutKeys, WithoutDistinct
  <2>3. more(h) \in Seq(Keys) /\ IsInjective(more(h))
        /\ ToSet(more(h)) = IF h = 0 THEN ToSet(admitted) ELSE {}
    BY DEF IsInjective, ToSet
  <2>4. ToSet(left(h)) \cap ToSet(more(h)) = {}
    BY <2>1, <2>2, <2>3
  <2>5. c[h] = left(h) \o more(h)
    OBVIOUS
  <2>6. b[h] = <<>> /\ h # 0 => c[h] = <<>>
    <3> HAVE b[h] = <<>> /\ h # 0
    <3>1. Len(left(h)) = 0
      <4>1. Len(b[h]) = 0
        OBVIOUS
      <4> HIDE DEF left
      <4> QED
        BY <2>2, <4>1
    <3>2. left(h) = <<>>
      <4> HIDE DEF left
      <4> QED
        BY <2>2, <3>1
    <3>3. more(h) = <<>>
      OBVIOUS
    <3>4. <<>> \o <<>> = <<>>
      OBVIOUS
    <3> HIDE DEF left, more, c
    <3> QED
      BY <2>5, <3>2, <3>3, <3>4
  <2> HIDE DEF left, more, c
  <2>7. /\ left(h) \o more(h) \in Seq(Keys)
        /\ ToSet(left(h) \o more(h)) = ToSet(left(h)) \cup ToSet(more(h))
        /\ IsInjective(left(h) \o more(h))
    BY <2>2, <2>3, <2>4, JoinKeys
  <2> QED
    BY <2>1, <2>2, <2>3, <2>5, <2>6, <2>7
<1>3. c \in [0..MaxHits -> Seq(Keys)]
  BY <1>2
<1>4. q = Rebucketed(p, c)
  <2>1. q = [p EXCEPT !.buckets = c]
    BY DEF Recorded
  <2> HIDE DEF c, q
  <2> QED
    BY <2>1, PolicyFields DEF Rebucketed
<1> HIDE DEF c, q, more, left
<1>5. /\ q \in SlotPolicy /\ q.kind = p.kind /\ q.remembered = p.remembered
      /\ q.offeredOnce = p.offeredOnce /\ q.buckets = c
  BY <1>3, <1>4, RebucketedFields
<1>6. ASSUME NEW x \in 0..MaxHits, NEW y \in 0..MaxHits, x # y
      PROVE  ToSet(c[x]) \cap ToSet(c[y]) = {}
  <2>1. ToSet(b[x]) \cap ToSet(b[y]) = {}
    BY <1>6 DEF RecordedOnce
  <2>2. /\ ToSet(c[x]) = (ToSet(b[x]) \ ToSet(evicted)) \cup ToSet(more(x))
        /\ ToSet(b[x]) \subseteq RecordedIn(p)
        /\ ToSet(more(x)) = IF x = 0 THEN ToSet(admitted) ELSE {}
        /\ ToSet(c[y]) = (ToSet(b[y]) \ ToSet(evicted)) \cup ToSet(more(y))
        /\ ToSet(b[y]) \subseteq RecordedIn(p)
        /\ ToSet(more(y)) = IF y = 0 THEN ToSet(admitted) ELSE {}
    BY <1>2
  <2> HIDE DEF b
  <2> QED
    BY <1>6, <2>1, <2>2
<1>7. q.kind # "lfu" => \A h \in 1..MaxHits : c[h] = <<>>
  <2>1. p.kind # "lfu" => \A h \in 1..MaxHits : b[h] = <<>>
    BY DEF RecordedOnce
  <2>2. \A h \in 1..MaxHits : h \in 0..MaxHits /\ h # 0
    OBVIOUS
  <2> QED
    BY <1>2, <1>5, <2>1, <2>2
<1>8. RecordedOnce(q)
  BY <1>2, <1>5, <1>6, <1>7 DEF RecordedOnce
<1>9. RecordedIn(q) = (RecordedIn(p) \ ToSet(evicted)) \cup ToSet(admitted)
  <2>1. RecordedIn(q) = UNION {ToSet(c[h]) : h \in 0..MaxHits}
        /\ RecordedIn(p) = UNION {ToSet(b[h]) : h \in 0..MaxHits}
    BY <1>5 DEF RecordedIn
  <2> HIDE DEF b
  <2>2. RecordedIn(q) \subseteq (RecordedIn(p) \ ToSet(evicted)) \cup ToSet(admitted)
    BY <1>2, <2>1
  <2>3. ToSet(admitted) \subseteq RecordedIn(q)
    BY <1>1, <1>2, <2>1
  <2>4. RecordedIn(p) \ ToSet(evicted) \subseteq RecordedIn(q)
    BY <1>2, <2>1
  <2> QED
    BY <2>2, <2>3, <2>4
<1> QED
  BY <1>5, <1>8, <1>9 DEF q

(* the evicting policies make room for what they admit, and no more is     *)
(* asked of pins than they can give                                        *)
LEMMA EvictingAdmits ==
  ASSUME NEW p, NEW offer, NEW free, NEW pinned, AdmitAssumption(p, offer, free), p.kind # "fill"
  PROVE  LET d == EvictingAdmit(p, offer, free, pinned)
         IN  SoundDecision(d, p, offer, free, pinned) /\ d.policy.offeredOnce = p.offeredOnce
<1> DEFINE held_ == RecordedIn(p)
           wanted == SubSeq(offer, 1, FittingPrefix(offer, Capacity))
           room == free + RowsIn(held_) - RowsIn(held_ \cap pinned)
           admitted == SubSeq(wanted, 1, FittingPrefix(wanted, room))
           short == Max({0, RowsOf(admitted) - free})
           evicted == TakeVictims(EvictionOrder(p), short, pinned)
           q == Recorded(p, evicted, admitted)
           d == EvictingAdmit(p, offer, free, pinned)
<1>0. /\ RowsAreCounted /\ Capacity \in Nat /\ MaxHits \in Nat /\ p \in SlotPolicy
      /\ RecordedOnce(p) /\ offer \in Seq(Keys) /\ IsInjective(offer)
      /\ ToSet(offer) \cap held_ = {} /\ free \in Nat
  BY DEF AdmitAssumption, SlotPolicyAssumption
<1>1. d = [policy |-> q, evicted |-> evicted, admitted |-> admitted]
  BY DEF EvictingAdmit, Decision
<1> HIDE DEF d, q
<1>2. /\ EvictionOrder(p) \in Seq(Keys) /\ IsInjective(EvictionOrder(p))
      /\ ToSet(EvictionOrder(p)) = held_
  BY <1>0, EvictionOrderKeys
<1>3. /\ held_ \in SUBSET Keys /\ IsFiniteSet(held_)
  BY <1>2, KeysOf
<1> HIDE DEF held_
<1>4. /\ RowsIn(held_) = RowsIn(held_ \cap pinned) + RowsIn(held_ \ pinned)
      /\ RowsIn(held_) \in Nat /\ RowsIn(held_ \cap pinned) \in Nat /\ RowsIn(held_ \ pinned) \in Nat
  <2>1. held_ = (held_ \cap pinned) \cup (held_ \ pinned) /\ (held_ \cap pinned) \cap (held_ \ pinned) = {}
    OBVIOUS
  <2>2. IsFiniteSet(held_ \cap pinned) /\ IsFiniteSet(held_ \ pinned)
    BY <1>3, FS_Subset
  <2>3. RowsIn((held_ \cap pinned) \cup (held_ \ pinned)) = RowsIn(held_ \cap pinned) + RowsIn(held_ \ pinned)
    BY <1>0, <1>3, <2>1, <2>2, RowsOfTwo
  <2> QED
    BY <1>0, <1>3, <2>1, <2>3, Rows
<1>5. room \in Nat /\ room = free + RowsIn(held_ \ pinned)
  BY <1>0, <1>4
<1>6. PartOf(wanted, offer) /\ IsInjective(wanted)
  BY <1>0, FittingPart DEF PartOf
<1> HIDE DEF wanted, room
<1>7. PartOf(admitted, wanted) /\ RowsOf(admitted) <= room
  BY <1>0, <1>5, <1>6, FittingPart DEF PartOf
<1>8. PartOf(admitted, offer) /\ IsInjective(admitted) /\ RowsOf(admitted) \in Nat
  BY <1>6, <1>7 DEF PartOf
<1> HIDE DEF admitted
<1>9. /\ short \in Nat /\ short >= RowsOf(admitted) - free /\ short <= RowsIn(held_ \ pinned)
      /\ RowsOf(admitted) = 0 => short = 0
  <2> DEFINE e == RowsOf(admitted) - free
  <2>1. e \in Int /\ 0 \in Int
    BY <1>0, <1>8
  <2>2. short \in {0, e} /\ short >= 0 /\ short >= e
    BY <2>1, MaxOfTwo
  <2>3. e <= RowsIn(held_ \ pinned) /\ 0 <= RowsIn(held_ \ pinned)
    BY <1>0, <1>4, <1>5, <1>7, <1>8
  <2>4. RowsOf(admitted) = 0 => e <= 0
    BY <1>0
  <2> HIDE DEF short, e
  <2>5. short \in Nat /\ short <= RowsIn(held_ \ pinned)
    BY <1>4, <2>1, <2>2, <2>3
  <2>6. RowsOf(admitted) = 0 => short = 0
    BY <2>1, <2>2, <2>4
  <2> QED
    BY <2>2, <2>5, <2>6 DEF e
<1> HIDE DEF short
<1>10. /\ evicted \in Seq(Keys) /\ IsInjective(evicted)
       /\ ToSet(evicted) \subseteq held_ \ pinned /\ RowsOf(evicted) >= short
       /\ short = 0 => evicted = <<>>
  BY <1>0, <1>2, <1>4, <1>9, Victims
<1> HIDE DEF evicted
<1>11. RowsOf(admitted) <= free + RowsOf(evicted)
  <2>1. RowsOf(evicted) \in Nat
    BY <1>0, <1>10, KeysOf, Rows DEF RowsOf
  <2> QED
    BY <1>0, <1>8, <1>9, <1>10, <2>1
<1>12. admitted = <<>> => evicted = <<>>
  BY <1>0, <1>9, <1>10, NoKeys
<1>13. admitted \in Seq(Keys) /\ ToSet(admitted) \cap held_ = {}
  BY <1>0, <1>8 DEF PartOf
<1>14. /\ q \in SlotPolicy /\ RecordedOnce(q)
       /\ q.kind = p.kind /\ q.remembered = p.remembered /\ q.offeredOnce = p.offeredOnce
       /\ RecordedIn(q) = (held_ \ ToSet(evicted)) \cup ToSet(admitted)
  BY <1>0, <1>8, <1>10, <1>13, RecordedDecision DEF q, held_
<1>15. d.policy = q /\ d.evicted = evicted /\ d.admitted = admitted
  BY <1>1
<1>16. SoundDecision(d, p, offer, free, pinned)
  BY <1>8, <1>10, <1>11, <1>12, <1>14, <1>15 DEF SoundDecision, held_
<1> QED
  BY <1>14, <1>15, <1>16 DEF d

(* A policy whose memory of offers is replaced. *)
Remembering(p, memory) ==
    [kind |-> p.kind, remembered |-> p.remembered, buckets |-> p.buckets, offeredOnce |-> memory]

LEMMA RememberingFields ==
  ASSUME NEW p \in SlotPolicy, NEW memory \in Seq(Keys)
  PROVE  /\ [p EXCEPT !.offeredOnce = memory] = Remembering(p, memory)
         /\ Remembering(p, memory) \in SlotPolicy
         /\ Remembering(p, memory).kind = p.kind
         /\ Remembering(p, memory).remembered = p.remembered
         /\ Remembering(p, memory).offeredOnce = memory
         /\ RecordedIn(Remembering(p, memory)) = RecordedIn(p)
         /\ RecordedOnce(p) => RecordedOnce(Remembering(p, memory))
<1> DEFINE q == Remembering(p, memory)
<1>1. [p EXCEPT !.offeredOnce = memory] = q
  BY PolicyFields DEF Remembering
<1>2. /\ q \in SlotPolicy /\ q.kind = p.kind /\ q.remembered = p.remembered
      /\ q.offeredOnce = memory /\ q.buckets = p.buckets
  BY DEF SlotPolicy, Remembering
<1> HIDE DEF q
<1>3. RecordedIn(q) = RecordedIn(p)
  BY <1>2 DEF RecordedIn
<1>4. RecordedOnce(p) => RecordedOnce(q)
  BY <1>2 DEF RecordedOnce
<1> QED
  BY <1>1, <1>2, <1>3, <1>4 DEF q

(* an inner policy's decision is sound whichever it is                     *)
LEMMA InnerAdmits ==
  ASSUME NEW p, NEW offer, NEW free, NEW pinned, AdmitAssumption(p, offer, free)
  PROVE  LET d == InnerAdmit(p, offer, free, pinned)
         IN  /\ SoundDecision(d, p, offer, free, pinned)
             /\ d.policy.offeredOnce = p.offeredOnce
             /\ d = Decision(d.policy, d.evicted, d.admitted)
<1>1. CASE p.kind = "fill"
  <2> DEFINE d == FillUntilFullAdmit(p, offer, free)
  <2>1. d = Decision(d.policy, d.evicted, d.admitted)
    BY DEF FillUntilFullAdmit, Decision
  <2>2. SoundDecision(d, p, offer, free, pinned) /\ d.policy = p
    BY <1>1, FillAdmits
  <2>3. InnerAdmit(p, offer, free, pinned) = d
    BY <1>1 DEF InnerAdmit
  <2> QED
    BY <2>1, <2>2, <2>3
<1>2. CASE p.kind # "fill"
  <2> DEFINE d == EvictingAdmit(p, offer, free, pinned)
  <2>1. d = Decision(d.policy, d.evicted, d.admitted)
    BY DEF EvictingAdmit, Decision
  <2>2. SoundDecision(d, p, offer, free, pinned) /\ d.policy.offeredOnce = p.offeredOnce
    BY <1>2, EvictingAdmits
  <2>3. InnerAdmit(p, offer, free, pinned) = d
    BY <1>2 DEF InnerAdmit
  <2> QED
    BY <2>1, <2>2, <2>3
<1> QED
  BY <1>1, <1>2

(* the filter remembers no more than it may                                *)
LEMMA NewestRemembered ==
  ASSUME NEW memory \in Seq(Keys), NEW firstOffers \in Seq(Keys), NEW size \in Nat
  PROVE  LET newest == RememberNewest(memory, firstOffers, size)
         IN  /\ newest \in Seq(Keys) /\ Len(newest) <= size
             /\ ToSet(newest) \subseteq ToSet(memory) \cup ToSet(firstOffers)
<1> DEFINE all == memory \o firstOffers
           first == Max({1, Len(all) - size + 1})
           newest == SubSeq(all, first, Len(all))
<1>1. all \in Seq(Keys) /\ ToSet(all) = ToSet(memory) \cup ToSet(firstOffers)
  BY JoinKeys
<1> HIDE DEF all
<1>2. Len(all) \in Nat
  BY <1>1
<1>3. first \in Int /\ first >= 1 /\ first >= Len(all) - size + 1
  <2> DEFINE e == Len(all) - size + 1
  <2>1. e \in Int /\ 1 \in Int
    BY <1>2
  <2> HIDE DEF e
  <2>2. Max({1, e}) \in {1, e} /\ Max({1, e}) >= 1 /\ Max({1, e}) >= e
    BY <2>1, MaxOfTwo
  <2> QED
    BY <2>1, <2>2 DEF e
<1> HIDE DEF first
<1>4. /\ newest \in Seq(Keys) /\ ToSet(newest) \subseteq ToSet(all)
      /\ Len(newest) = IF first <= Len(all) THEN Len(all) - first + 1 ELSE 0
  <2>1. first \in Int /\ Len(all) \in Int /\ 1 <= first /\ Len(all) <= Len(all)
    BY <1>2, <1>3
  <2> HIDE DEF newest
  <2> QED
    BY <1>1, <2>1, PartKeys DEF newest
<1> HIDE DEF newest
<1>5. Len(newest) <= size
  BY <1>2, <1>3, <1>4
<1>6. RememberNewest(memory, firstOffers, size) = newest
  BY DEF RememberNewest, newest, all, first
<1> QED
  BY <1>1, <1>4, <1>5, <1>6

(* What the admission filter remembers after a decision. *)
MemorySound(d, p, offer) ==
    /\ Len(d.policy.offeredOnce) <= d.policy.remembered
    /\ ToSet(d.policy.offeredOnce) \subseteq ToSet(p.offeredOnce) \cup ToSet(offer)
    /\ ToSet(d.policy.offeredOnce) \cap ToSet(d.admitted) = {}

(* a decision behind the filter is sound, and so is its memory             *)
LEMMA SecondOfferAdmits ==
  ASSUME NEW p, NEW offer, NEW free, NEW pinned, AdmitAssumption(p, offer, free)
  PROVE  LET d == SecondOfferAdmit(p, offer, free, pinned)
         IN  SoundDecision(d, p, offer, free, pinned) /\ MemorySound(d, p, offer)
<1> DEFINE seen == ToSet(p.offeredOnce)
           repeats == Among(offer, seen)
           firstOffers == Without(offer, seen)
           newest == RememberNewest(p.offeredOnce, firstOffers, p.remembered)
           q == Remembering(p, newest)
           inner == InnerAdmit(q, repeats, free, pinned)
           kept == Without(inner.policy.offeredOnce, ToSet(inner.admitted))
           d == SecondOfferAdmit(p, offer, free, pinned)
<1>0. /\ SlotPolicyAssumption /\ RowsAreCounted /\ p \in SlotPolicy /\ RecordedOnce(p)
      /\ offer \in Seq(Keys) /\ IsInjective(offer) /\ free \in Nat
      /\ p.kind # "fill" => ToSet(offer) \cap RecordedIn(p) = {}
  BY DEF AdmitAssumption, SlotPolicyAssumption
<1>1. p.offeredOnce \in Seq(Keys) /\ p.remembered \in Nat
  BY <1>0, PolicyFields
<1>2. /\ repeats \in Seq(Keys) /\ IsInjective(repeats) /\ ToSet(repeats) \subseteq ToSet(offer)
  <2> HIDE DEF seen
  <2> QED
    BY <1>0, AmongKeys
<1>3. firstOffers \in Seq(Keys) /\ ToSet(firstOffers) \subseteq ToSet(offer)
  <2> HIDE DEF seen
  <2> QED
    BY <1>0, WithoutKeys
<1>p. [p EXCEPT !.offeredOnce = RememberNewest(@, Without(offer, ToSet(p.offeredOnce)), p.remembered)]
        = [p EXCEPT !.offeredOnce = newest]
  BY <1>0, PolicyFields
<1>def. d = IF repeats = <<>> THEN Decision([p EXCEPT !.offeredOnce = newest], <<>>, <<>>)
            ELSE LET i == InnerAdmit([p EXCEPT !.offeredOnce = newest], repeats, free, pinned)
                 IN [i EXCEPT !.policy.offeredOnce = ForgetAdmitted(@, i.admitted)]
  BY <1>p DEF SecondOfferAdmit
<1> HIDE DEF firstOffers, repeats, d
<1>4. /\ newest \in Seq(Keys) /\ Len(newest) <= p.remembered
      /\ ToSet(newest) \subseteq ToSet(p.offeredOnce) \cup ToSet(firstOffers)
  BY <1>1, <1>3, NewestRemembered
<1> HIDE DEF newest
<1>5. /\ [p EXCEPT !.offeredOnce = newest] = q
      /\ q \in SlotPolicy /\ q.kind = p.kind /\ q.remembered = p.remembered
      /\ q.offeredOnce = newest /\ RecordedIn(q) = RecordedIn(p) /\ RecordedOnce(q)
  BY <1>0, <1>4, RememberingFields
<1> HIDE DEF q
<1>6. CASE repeats = <<>>
  <2>1. d.policy = q /\ d.evicted = <<>> /\ d.admitted = <<>>
    BY <1>5, <1>6, <1>def DEF Decision
  <2>2. <<>> \in Seq(Keys) /\ ToSet(<<>>) = {} /\ RowsOf(<<>>) = 0 /\ IsInjective(<<>>)
    BY <1>0, NoKeys
  <2>3. RowsOf(d.admitted) <= free + RowsOf(d.evicted)
    BY <1>0, <2>1, <2>2
  <2>4. PartOf(d.admitted, offer)
    <3>1. IsFiniteSet({}) /\ {} \in SUBSET Keys /\ {} \subseteq ToSet(offer)
      BY FS_EmptySet
    <3>2. PartOf(<<>>, offer)
      BY <2>2, <3>1 DEF PartOf
    <3> QED
      BY <2>1, <3>2
  <2>5. SoundDecision(d, p, offer, free, pinned)
    BY <1>5, <2>1, <2>2, <2>3, <2>4 DEF SoundDecision
  <2>6. MemorySound(d, p, offer)
    BY <1>3, <1>4, <1>5, <2>1, <2>2 DEF MemorySound
  <2> QED
    BY <2>5, <2>6 DEF d
<1>7. CASE repeats # <<>>
  <2>1. AdmitAssumption(q, repeats, free)
    BY <1>0, <1>2, <1>5 DEF AdmitAssumption
  <2>2. /\ SoundDecision(inner, q, repeats, free, pinned)
        /\ inner.policy.offeredOnce = newest
        /\ inner = Decision(inner.policy, inner.evicted, inner.admitted)
    BY <1>5, <2>1, InnerAdmits
  <2>3. d = [inner EXCEPT !.policy.offeredOnce = ForgetAdmitted(@, inner.admitted)]
    BY <1>5, <1>7, <1>def
  <2> HIDE DEF inner
  <2>4. /\ inner.policy \in SlotPolicy /\ RecordedOnce(inner.policy)
        /\ inner.policy.kind = p.kind /\ inner.policy.remembered = p.remembered
        /\ PartOf(inner.admitted, repeats) /\ IsInjective(inner.admitted)
        /\ inner.evicted \in Seq(Keys) /\ IsInjective(inner.evicted)
        /\ ToSet(inner.evicted) \subseteq IF p.kind = "fill" THEN {} ELSE RecordedIn(p) \ pinned
        /\ RowsOf(inner.admitted) <= free + RowsOf(inner.evicted)
        /\ inner.admitted = <<>> => inner.evicted = <<>>
        /\ p.kind # "fill" => RecordedIn(inner.policy)
             = (RecordedIn(p) \ ToSet(inner.evicted)) \cup ToSet(inner.admitted)
    BY <1>5, <2>2 DEF SoundDecision
  <2>5. /\ kept \in Seq(Keys) /\ Len(kept) <= Len(newest)
        /\ ToSet(kept) = ToSet(newest) \ ToSet(inner.admitted)
    BY <1>4, <2>2, WithoutKeys, WithoutDistinct
  <2>6. /\ [inner.policy EXCEPT !.offeredOnce = kept] = Remembering(inner.policy, kept)
        /\ Remembering(inner.policy, kept) \in SlotPolicy
        /\ Remembering(inner.policy, kept).kind = p.kind
        /\ Remembering(inner.policy, kept).remembered = p.remembered
        /\ Remembering(inner.policy, kept).offeredOnce = kept
        /\ RecordedIn(Remembering(inner.policy, kept)) = RecordedIn(inner.policy)
        /\ RecordedOnce(Remembering(inner.policy, kept))
    BY <2>4, <2>5, RememberingFields
  <2>7. d = Decision(Remembering(inner.policy, kept), inner.evicted, inner.admitted)
    <3>1. ForgetAdmitted(inner.policy.offeredOnce, inner.admitted) = kept
      BY DEF ForgetAdmitted
    <3>2. [inner EXCEPT !.policy.offeredOnce = ForgetAdmitted(@, inner.admitted)]
            = [inner EXCEPT !.policy = [inner.policy EXCEPT !.offeredOnce = kept]]
      <4> HIDE DEF kept
      <4> DEFINE x == inner.policy
      <4>1. inner = [policy |-> x, evicted |-> inner.evicted, admitted |-> inner.admitted]
        BY <2>2 DEF Decision
      <4>2. x \in SlotPolicy /\ ForgetAdmitted(x.offeredOnce, inner.admitted) = kept
        BY <2>4, <3>1
      <4> QED
        BY <4>1, <4>2 DEF SlotPolicy
    <3> HIDE DEF kept
    <3>3. [inner EXCEPT !.policy = Remembering(inner.policy, kept)]
            = Decision(Remembering(inner.policy, kept), inner.evicted, inner.admitted)
      BY <2>2 DEF Decision
    <3> QED
      BY <2>3, <2>6, <3>2, <3>3
  <2> HIDE DEF kept
  <2>8. /\ d.policy = Remembering(inner.policy, kept) /\ d.evicted = inner.evicted
        /\ d.admitted = inner.admitted
    BY <2>7 DEF Decision
  <2>9. PartOf(inner.admitted, offer)
    BY <1>0, <1>2, <2>4 DEF PartOf
  <2>10. SoundDecision(d, p, offer, free, pinned)
    BY <2>4, <2>6, <2>8, <2>9 DEF SoundDecision
  <2>11. Len(kept) <= p.remembered
    <3>1. Len(kept) \in Nat /\ Len(newest) \in Nat
      BY <1>4, <2>5
    <3> QED
      BY <1>1, <1>4, <2>5, <3>1
  <2>12. MemorySound(d, p, offer)
    BY <1>3, <1>4, <2>5, <2>6, <2>8, <2>11 DEF MemorySound
  <2> QED
    BY <2>10, <2>12 DEF d
<1> QED
  BY <1>6, <1>7

(* every policy's decision is sound                                        *)
LEMMA Admits ==
  ASSUME NEW p, NEW offer, NEW free, NEW pinned, AdmitAssumption(p, offer, free),
         Len(p.offeredOnce) <= p.remembered
  PROVE  LET d == Admit(p, offer, free, pinned)
         IN  SoundDecision(d, p, offer, free, pinned) /\ MemorySound(d, p, offer)
<1>1. CASE p.remembered = 0
  <2> DEFINE d == InnerAdmit(p, offer, free, pinned)
  <2>1. SoundDecision(d, p, offer, free, pinned) /\ d.policy.offeredOnce = p.offeredOnce
    BY InnerAdmits
  <2>2. p.offeredOnce = <<>>
    <3>1. p.offeredOnce \in Seq(Keys) /\ Len(p.offeredOnce) <= 0
      BY <1>1, PolicyFields DEF AdmitAssumption
    <3> QED
      BY <3>1
  <2>3. Admit(p, offer, free, pinned) = d
    BY <1>1 DEF Admit
  <2> HIDE DEF d
  <2>4. ToSet(<<>>) = {}
    BY DEF ToSet
  <2>5. MemorySound(d, p, offer)
    BY <2>1, <2>2, <2>4 DEF MemorySound, SoundDecision
  <2> QED
    BY <2>1, <2>3, <2>5
<1>2. CASE p.remembered # 0
  BY <1>2, SecondOfferAdmits DEF Admit
<1> QED
  BY <1>1, <1>2

-----------------------------------------------------------------------------
(* The index of rows: evictions give rows back, admissions take them.      *)

(* An index of the rows of the held keys, its free stack and its unused    *)
(* mark: every row below the mark is in one place, and counted.            *)
Places(x, D) == UNION {ToSet(x.rowsOf[k]) : k \in D}

RowsApart(x, D) ==
    /\ \A k \in D : /\ x.rowsOf[k] \in Seq(Nat) /\ Len(x.rowsOf[k]) = RowsPerKey[k]
                    /\ IsInjective(x.rowsOf[k])
    /\ \A k, l \in D : k # l => ToSet(x.rowsOf[k]) \cap ToSet(x.rowsOf[l]) = {}

IndexSound(x, D) ==
    /\ D \in SUBSET Keys /\ IsFiniteSet(D) /\ DOMAIN x.rowsOf = D
    /\ RowsApart(x, D)
    /\ x.released \in Seq(Nat) /\ IsInjective(x.released)
    /\ Places(x, D) \cap ToSet(x.released) = {}
    /\ x.next \in Nat
    /\ Places(x, D) \cup ToSet(x.released) = 0..(x.next - 1)
    /\ RowsIn(D) + Len(x.released) = x.next

(* the rows of one key more                                                *)
LEMMA RowsOfOne ==
  ASSUME RowsAreCounted, NEW S \in SUBSET Keys, IsFiniteSet(S), NEW k \in Keys \ S
  PROVE  /\ IsFiniteSet(S \cup {k}) /\ RowsIn(S \cup {k}) = RowsIn(S) + RowsPerKey[k]
         /\ RowsPerKey[k] \in Nat \ {0}
<1>1. RowsPerKey \in [Keys -> Nat] /\ RowsPerKey[k] \in Nat \ {0}
  BY DEF RowsAreCounted
<1>2. IsFiniteSet(S \cup {k}) /\ S \cup {k} \in SUBSET Keys /\ k \in S \cup {k}
  BY FS_AddElement
<1>3. (S \cup {k}) \ {k} = S
  OBVIOUS
<1>4. RowsIn(S \cup {k}) = RowsPerKey[k] + RowsIn(S)
  BY <1>1, <1>2, <1>3, SumTakesOut, RowsAreSums
<1>5. RowsIn(S) \in Nat
  BY Rows
<1> QED
  BY <1>1, <1>2, <1>4, <1>5

(* The rows of evicted keys, counted. *)
LEMMA FollowedLength ==
  ASSUME RowsAreCounted, NEW seq \in Seq(Nat), NEW evicted \in Seq(Keys), IsInjective(evicted),
         NEW seqs \in Seq(Seq(Nat)), Len(seqs) = Len(evicted),
         \A i \in 1..Len(evicted) : Len(seqs[i]) = RowsPerKey[evicted[i]]
  PROVE  Len(Followed(seq, seqs)) = Len(seq) + RowsOf(evicted)
<1> DEFINE n == Len(seqs)
           first(m) == {evicted[i] : i \in 1..m}
<1>0. PICK h : FollowedBy(h, seq, seqs, Nat)
  BY FollowedSteps
<1>1. /\ h \in [0..n -> Seq(Nat)] /\ h[0] = seq /\ Followed(seq, seqs) = h[n]
      /\ \A m \in 1..n : h[m] = h[m - 1] \o seqs[m]
  BY <1>0 DEF FollowedBy
<1>2. /\ n \in Nat /\ \A m \in 1..n : seqs[m] \in Seq(Nat) /\ evicted[m] \in Keys
      /\ \A x, y \in 1..n : evicted[x] = evicted[y] => x = y
  <2>1. n \in Nat /\ \A m \in 1..n : seqs[m] \in Seq(Nat)
    OBVIOUS
  <2>2. n = Len(evicted) /\ DOMAIN evicted = 1..Len(evicted)
        /\ \A m \in 1..Len(evicted) : evicted[m] \in Keys
    OBVIOUS
  <2> HIDE DEF n
  <2> QED
    BY <2>1, <2>2 DEF IsInjective
<1>3. \A i \in 1..n : Len(seqs[i]) = RowsPerKey[evicted[i]]
  OBVIOUS
<1>4. first(n) = ToSet(evicted)
  BY KeysOf
<1> HIDE DEF n
<1> DEFINE T == {m \in Nat : m <= n =>
                   /\ first(m) \in SUBSET Keys /\ IsFiniteSet(first(m))
                   /\ Len(h[m]) = Len(seq) + RowsIn(first(m))}
<1>5. 0 \in T
  <2>1. first(0) = {}
    OBVIOUS
  <2>2. RowsIn({}) = 0 /\ IsFiniteSet({})
    BY FS_EmptySet, Rows
  <2>3. Len(seq) \in Nat
    OBVIOUS
  <2> HIDE DEF first
  <2>4. Len(h[0]) = Len(seq) + RowsIn(first(0))
    <3>1. RowsIn(first(0)) = 0
      BY <2>1, <2>2, Zenon
    <3> QED
      BY <1>1, <2>3, <3>1
  <2>5. first(0) \in SUBSET Keys /\ IsFiniteSet(first(0))
    BY <2>1, <2>2
  <2> QED
    BY <2>4, <2>5
<1>6. ASSUME NEW m \in Nat, m \in T PROVE m + 1 \in T
  <2> SUFFICES ASSUME m + 1 <= n
               PROVE  /\ first(m + 1) \in SUBSET Keys /\ IsFiniteSet(first(m + 1))
                      /\ Len(h[m + 1]) = Len(seq) + RowsIn(first(m + 1))
    OBVIOUS
  <2>1. /\ m + 1 \in 1..n /\ (m + 1) - 1 = m /\ m <= n /\ m \in 0..n
        /\ 1..(m + 1) = (1..m) \cup {m + 1}
    BY <1>2
  <2>2. /\ first(m) \in SUBSET Keys /\ IsFiniteSet(first(m))
        /\ Len(h[m]) = Len(seq) + RowsIn(first(m))
    BY <1>6, <2>1
  <2> DEFINE k == evicted[m + 1]
  <2>3. first(m + 1) = first(m) \cup {k}
    BY <2>1
  <2>4. k \in Keys \ first(m)
    <3>1. \A i \in 1..m : i \in 1..n /\ i # m + 1
      BY <1>2, <2>1
    <3>2. \A i \in 1..m : evicted[i] # k
      BY <1>2, <2>1, <3>1
    <3> QED
      BY <1>2, <2>1, <3>2
  <2> HIDE DEF first
  <2>5. /\ h[m] \in Seq(Nat) /\ seqs[m + 1] \in Seq(Nat) /\ h[m + 1] = h[m] \o seqs[m + 1]
    BY <1>1, <1>2, <2>1
  <2>6. Len(h[m + 1]) = Len(h[m]) + RowsPerKey[k]
    <3>1. Len(h[m] \o seqs[m + 1]) = Len(h[m]) + Len(seqs[m + 1])
      BY <2>5, JoinKeys
    <3>2. Len(seqs[m + 1]) = RowsPerKey[k]
      BY <1>3, <2>1
    <3> QED
      BY <2>5, <3>1, <3>2
  <2> HIDE DEF k
  <2>7. /\ IsFiniteSet(first(m) \cup {k}) /\ RowsIn(first(m) \cup {k}) = RowsIn(first(m)) + RowsPerKey[k]
        /\ RowsPerKey[k] \in Nat
    BY <2>2, <2>4, RowsOfOne
  <2>8. Len(seq) \in Nat /\ RowsIn(first(m)) \in Nat
    BY <2>2, Rows
  <2>9. first(m + 1) \in SUBSET Keys
    BY <2>2, <2>3, <2>4
  <2>10. Len(h[m + 1]) = Len(seq) + RowsIn(first(m + 1))
    <3>1. RowsIn(first(m + 1)) = RowsIn(first(m)) + RowsPerKey[k]
      BY <2>3, <2>7, Zenon
    <3> QED
      BY <2>2, <2>6, <2>7, <2>8, <3>1
  <2> QED
    BY <2>3, <2>7, <2>9, <2>10
<1>7. n \in T
  <2>1. Nat \subseteq T
    <3> HIDE DEF T
    <3> QED
      BY <1>5, <1>6, NatInd
  <2> QED
    BY <1>2, <2>1
<1>8. Len(h[n]) = Len(seq) + RowsIn(first(n))
  BY <1>2, <1>7
<1> QED
  BY <1>1, <1>4, <1>8 DEF RowsOf

(* the rows of the keys that go are not of those that stay                 *)
LEMMA Apart ==
  ASSUME NEW x, NEW D, RowsApart(x, D), NEW E \in SUBSET D
  PROVE  /\ Places(x, D) = Places(x, D \ E) \cup Places(x, E)
         /\ Places(x, D \ E) \cap Places(x, E) = {}
<1>1. \A k \in D \ E : \A l \in E : ToSet(x.rowsOf[k]) \cap ToSet(x.rowsOf[l]) = {}
  BY DEF RowsApart
<1> QED
  BY <1>1 DEF Places

(* An index after keys were evicted: their rows are on the stack. *)
VacatedFrom(y, x, D, evicted) ==
    /\ y.rowsOf = Restrict(x.rowsOf, D \ ToSet(evicted))
    /\ y.released = Followed(x.released, [i \in DOMAIN evicted |-> x.rowsOf[evicted[i]]])
    /\ y.next = x.next

LEMMA VacatedIsSound ==
  ASSUME RowsAreCounted, NEW x, NEW D, IndexSound(x, D),
         NEW evicted \in Seq(Keys), IsInjective(evicted), ToSet(evicted) \subseteq D,
         NEW y, VacatedFrom(y, x, D, evicted)
  PROVE  /\ IndexSound(y, D \ ToSet(evicted))
         /\ \A k \in D \ ToSet(evicted) : y.rowsOf[k] = x.rowsOf[k]
<1> DEFINE E == ToSet(evicted)
           seqs == [i \in DOMAIN evicted |-> x.rowsOf[evicted[i]]]
           n == Len(evicted)
<1>1. /\ n \in Nat /\ DOMAIN evicted = 1..n /\ E = {evicted[i] : i \in 1..n}
      /\ E \in SUBSET Keys /\ IsFiniteSet(E)
      /\ \A i, j \in 1..n : evicted[i] = evicted[j] => i = j
  BY KeysOf DEF IsInjective
<1>2. \A i \in 1..n : evicted[i] \in E /\ evicted[i] \in D
  BY <1>1
<1>3. /\ seqs \in Seq(Seq(Nat)) /\ Len(seqs) = n
      /\ \A i \in 1..n : seqs[i] = x.rowsOf[evicted[i]]
  <2>1. \A i \in 1..n : x.rowsOf[evicted[i]] \in Seq(Nat)
    BY <1>2 DEF IndexSound, RowsApart
  <2>2. seqs = [i \in 1..n |-> x.rowsOf[evicted[i]]]
    BY <1>1
  <2> HIDE DEF n
  <2> QED
    BY <1>1, <2>1, <2>2
<1> HIDE DEF seqs, n, E
<1>4. /\ D \in SUBSET Keys /\ IsFiniteSet(D) /\ RowsApart(x, D) /\ x.released \in Seq(Nat)
      /\ IsInjective(x.released) /\ Places(x, D) \cap ToSet(x.released) = {}
      /\ x.next \in Nat /\ Places(x, D) \cup ToSet(x.released) = 0..(x.next - 1)
      /\ RowsIn(D) + Len(x.released) = x.next
  BY DEF IndexSound
<1>5. Separate(x.released, seqs)
  <2>1. \A i \in 1..n : ToSet(x.rowsOf[evicted[i]]) \subseteq Places(x, D)
    BY <1>2 DEF Places
  <2>2. ASSUME NEW i \in 1..n
        PROVE  IsInjective(seqs[i]) /\ ToSet(x.released) \cap ToSet(seqs[i]) = {}
    BY <1>2, <1>3, <1>4, <2>1 DEF RowsApart
  <2>3. ASSUME NEW i \in 1..n, NEW j \in 1..n, i # j
        PROVE  ToSet(seqs[i]) \cap ToSet(seqs[j]) = {}
    <3>1. evicted[i] \in D /\ evicted[j] \in D /\ evicted[i] # evicted[j]
      BY <1>1, <1>2, <2>3
    <3>2. ToSet(x.rowsOf[evicted[i]]) \cap ToSet(x.rowsOf[evicted[j]]) = {}
      BY <1>4, <3>1 DEF RowsApart
    <3> QED
      BY <1>3, <3>2
  <2> QED
    BY <1>3, <1>4, <2>2, <2>3 DEF Separate
<1>6. y.released = Followed(x.released, seqs) /\ y.next = x.next
  BY DEF seqs, VacatedFrom
<1>7. /\ y.released \in Seq(Nat) /\ IsInjective(y.released)
      /\ ToSet(y.released) = ToSet(x.released) \cup UNION {ToSet(seqs[i]) : i \in 1..n}
  <2> DEFINE f == Followed(x.released, seqs)
  <2>1. /\ f \in Seq(Nat) /\ (Separate(x.released, seqs) => IsInjective(f))
        /\ ToSet(f) = ToSet(x.released) \cup UNION {ToSet(seqs[i]) : i \in 1..Len(seqs)}
    <3>1. x.released \in Seq(Nat) /\ seqs \in Seq(Seq(Nat))
      BY <1>3, <1>4
    <3> QED
      BY ONLY <3>1, FollowedKeys DEF f
  <2> HIDE DEF f
  <2>2. y.released = f /\ Len(seqs) = n
    BY <1>3, <1>6 DEF f
  <2> QED
    BY <1>5, <2>1, <2>2
<1>8. UNION {ToSet(seqs[i]) : i \in 1..n} = Places(x, E)
  <2>1. \A i \in 1..n : ToSet(seqs[i]) \subseteq Places(x, E)
    <3>1. \A i \in 1..n : evicted[i] \in E /\ seqs[i] = x.rowsOf[evicted[i]]
      BY <1>2, <1>3
    <3> QED
      BY ONLY <3>1 DEF Places
  <2>2. ASSUME NEW k \in E
        PROVE  \E i \in 1..n : ToSet(x.rowsOf[k]) = ToSet(seqs[i])
    <3>1. PICK i \in 1..n : k = evicted[i]
      BY <1>1
    <3> QED
      BY <1>3, <3>1
  <2> QED
    BY <2>1, <2>2 DEF Places
<1>9. Len(y.released) = Len(x.released) + RowsIn(E)
  <2>1. \A i \in 1..Len(evicted) : Len(seqs[i]) = RowsPerKey[evicted[i]]
    BY <1>2, <1>3, <1>4 DEF RowsApart, n
  <2>2. Len(seqs) = Len(evicted)
    BY <1>3 DEF n
  <2>3. Len(Followed(x.released, seqs)) = Len(x.released) + RowsOf(evicted)
    BY <1>3, <1>4, <2>1, <2>2, FollowedLength
  <2> QED
    BY <1>6, <2>3 DEF RowsOf, E
<1>10. /\ DOMAIN y.rowsOf = D \ E /\ \A k \in D \ E : y.rowsOf[k] = x.rowsOf[k]
  BY DEF Restrict, E, VacatedFrom
<1>11. RowsApart(y, D \ E)
  BY <1>4, <1>10 DEF RowsApart
<1>12. Places(y, D \ E) = Places(x, D \ E)
  BY <1>10 DEF Places
<1>13. E \in SUBSET D
  BY DEF E
<1>14. /\ Places(x, D) = Places(x, D \ E) \cup Places(x, E)
       /\ Places(x, D \ E) \cap Places(x, E) = {}
  BY <1>4, <1>13, Apart
<1>15. /\ Places(y, D \ E) \cap ToSet(y.released) = {}
       /\ Places(y, D \ E) \cup ToSet(y.released) = 0..(y.next - 1)
  BY <1>4, <1>6, <1>7, <1>8, <1>12, <1>14
<1>16. RowsIn(D \ E) + Len(y.released) = y.next
  <2>1. D = E \cup (D \ E) /\ E \cap (D \ E) = {} /\ D \ E \in SUBSET Keys /\ IsFiniteSet(D \ E)
    BY <1>4, <1>13, FS_Subset
  <2>2. RowsIn(E \cup (D \ E)) = RowsIn(E) + RowsIn(D \ E)
    BY <1>1, <2>1, RowsOfTwo
  <2>3. RowsIn(E) \in Nat /\ RowsIn(D \ E) \in Nat /\ Len(x.released) \in Nat
    BY <1>1, <1>4, <2>1, Rows
  <2>4. RowsIn(D) = RowsIn(E) + RowsIn(D \ E)
    BY <2>1, <2>2, Zenon
  <2> QED
    BY <1>4, <1>6, <1>9, <2>3, <2>4
<1>17. D \ E \in SUBSET Keys /\ IsFiniteSet(D \ E)
  BY <1>4, FS_Subset
<1>18. IndexSound(y, D \ E)
  BY <1>4, <1>6, <1>7, <1>10, <1>11, <1>15, <1>16, <1>17 DEF IndexSound
<1> QED
  BY <1>10, <1>18 DEF E

(* What a key gets: some of the stack's top, and some rows never used. *)
LEMMA ClaimedRows ==
  ASSUME RowsAreCounted, NEW x, NEW D, IndexSound(x, D), NEW k \in Keys \ D
  PROVE  LET reused == Min({RowsPerKey[k], Len(x.released)})
             unclaimed == RowsPerKey[k] - reused
             top == SubSeq(x.released, Len(x.released) - reused + 1, Len(x.released))
             rows == top \o UnusedRows(x, unclaimed)
             left == PoppedOff(x, reused)
         IN  /\ reused \in Nat /\ unclaimed \in Nat
             /\ reused <= RowsPerKey[k] /\ reused <= Len(x.released)
             /\ unclaimed > 0 => reused = Len(x.released)
             /\ rows \in Seq(Nat) /\ Len(rows) = RowsPerKey[k] /\ IsInjective(rows)
             /\ left \in Seq(Nat) /\ Len(left) = Len(x.released) - reused /\ IsInjective(left)
             /\ ToSet(rows) \cap ToSet(left) = {}
             /\ ToSet(rows) \cup ToSet(left)
                  = ToSet(x.released) \cup (x.next .. (x.next + unclaimed - 1))
             /\ ToSet(rows) \cap Places(x, D) = {} /\ ToSet(left) \subseteq ToSet(x.released)
<1> DEFINE stack == x.released
           s == Len(stack)
           size == RowsPerKey[k]
           reused == Min({size, s})
           unclaimed == size - reused
           top == SubSeq(stack, s - reused + 1, s)
           unused == UnusedRows(x, unclaimed)
           left == SubSeq(stack, 1, s - reused)
           rows == top \o unused
<1>1. /\ stack \in Seq(Nat) /\ IsInjective(stack) /\ s \in Nat /\ size \in Nat /\ x.next \in Nat
      /\ Places(x, D) \cap ToSet(stack) = {} /\ Places(x, D) \cup ToSet(stack) = 0..(x.next - 1)
  BY DEF IndexSound, RowsAreCounted
<1>2. reused \in {size, s} /\ reused <= size /\ reused <= s
  <2>1. size \in Int /\ s \in Int
    BY <1>1
  <2> HIDE DEF s, size
  <2>2. /\ Min({size, s}) \in {size, s} /\ Min({size, s}) <= size /\ Min({size, s}) <= s
    BY ONLY <2>1, MinOfTwo
  <2> QED
    BY <2>2
<1>u. PoppedOff(x, reused) = left
  BY DEF PoppedOff
<1> HIDE DEF reused, size
<1>3. reused \in Nat /\ unclaimed \in Nat /\ (unclaimed > 0 => reused = s) /\ reused + unclaimed = size
  BY <1>1, <1>2
<1>4. unused = [i \in 1..unclaimed |-> x.next + i - 1]
  BY DEF UnusedRows
<1> HIDE DEF unused
<1>5. /\ unused \in Seq(Nat) /\ Len(unused) = unclaimed /\ IsInjective(unused)
      /\ ToSet(unused) = x.next .. (x.next + unclaimed - 1)
  <2>0. unclaimed \in Nat /\ x.next \in Nat
    BY <1>1, <1>3
  <2> HIDE DEF unclaimed
  <2>1. \A i \in 1..unclaimed : x.next + i - 1 \in Nat /\ x.next + i - 1 \in x.next .. (x.next + unclaimed - 1)
    BY <2>0
  <2>2. unused \in Seq(Nat) /\ Len(unused) = unclaimed /\ DOMAIN unused = 1..unclaimed
    BY <1>4, <2>0, <2>1
  <2>3. \A i \in 1..unclaimed : unused[i] = x.next + i - 1
    BY <1>4
  <2>4. IsInjective(unused)
    <3> SUFFICES ASSUME NEW i \in 1..unclaimed, NEW j \in 1..unclaimed, unused[i] = unused[j]
                 PROVE  i = j
      BY <2>2 DEF IsInjective
    <3>1. x.next + i - 1 = x.next + j - 1
      BY <2>3
    <3> QED
      BY <2>0, <3>1
  <2>5. ToSet(unused) = {unused[i] : i \in 1..unclaimed}
    BY <2>2 DEF ToSet
  <2>6. ASSUME NEW r \in x.next .. (x.next + unclaimed - 1) PROVE r \in ToSet(unused)
    <3>1. r - x.next + 1 \in 1..unclaimed /\ x.next + (r - x.next + 1) - 1 = r
      BY <2>0
    <3> QED
      BY <2>3, <2>5, <3>1
  <2>7. ToSet(unused) \subseteq x.next .. (x.next + unclaimed - 1)
    BY <2>1, <2>3, <2>5
  <2> QED
    BY <2>2, <2>4, <2>6, <2>7
<1>6. /\ top \in Seq(Nat) /\ Len(top) = reused /\ IsInjective(top)
      /\ ToSet(top) = {stack[i] : i \in (s - reused + 1)..s}
  <2>1. s - reused + 1 \in Int /\ s \in Int /\ 1 <= s - reused + 1 /\ s <= s
        /\ (IF s - reused + 1 <= s THEN s - (s - reused + 1) + 1 ELSE 0) = reused
    BY <1>1, <1>2, <1>3
  <2> HIDE DEF stack
  <2> DEFINE i == s - reused + 1
  <2>2. i \in Int /\ s \in Int /\ 1 <= i /\ s <= Len(stack)
    BY <2>1
  <2> HIDE DEF i
  <2>3. /\ SubSeq(stack, i, s) \in Seq(Nat)
        /\ Len(SubSeq(stack, i, s)) = IF i <= s THEN s - i + 1 ELSE 0
        /\ ToSet(SubSeq(stack, i, s)) = {stack[j] : j \in i..s}
        /\ IsInjective(stack) => IsInjective(SubSeq(stack, i, s))
    BY <1>1, <2>2, PartKeys
  <2> QED
    BY <1>1, <2>1, <2>3 DEF i
<1>7. /\ left \in Seq(Nat) /\ Len(left) = s - reused /\ IsInjective(left)
      /\ ToSet(left) = {stack[i] : i \in 1..(s - reused)}
      /\ ToSet(left) \subseteq ToSet(stack)
  <2> HIDE DEF stack
  <2> DEFINE j == s - reused
  <2>1. j \in Int /\ 1 \in Int /\ 1 <= 1 /\ j <= Len(stack)
        /\ (IF 1 <= j THEN j - 1 + 1 ELSE 0) = j
    BY <1>1, <1>2, <1>3
  <2> HIDE DEF j
  <2>2. /\ SubSeq(stack, 1, j) \in Seq(Nat)
        /\ Len(SubSeq(stack, 1, j)) = IF 1 <= j THEN j - 1 + 1 ELSE 0
        /\ ToSet(SubSeq(stack, 1, j)) = {stack[i] : i \in 1..j}
        /\ ToSet(SubSeq(stack, 1, j)) \subseteq ToSet(stack)
        /\ IsInjective(stack) => IsInjective(SubSeq(stack, 1, j))
    BY <1>1, <2>1, PartKeys
  <2> QED
    BY <1>1, <2>1, <2>2 DEF j
<1>8. ToSet(top) \cup ToSet(left) = ToSet(stack) /\ ToSet(top) \cap ToSet(left) = {}
  <2>1. 1..s = (1..(s - reused)) \cup ((s - reused + 1)..s)
        /\ (1..(s - reused)) \cap ((s - reused + 1)..s) = {}
    BY <1>1, <1>2, <1>3
  <2>2. ToSet(stack) = {stack[i] : i \in 1..s}
    BY <1>1, KeysOf
  <2>3. \A i, j \in 1..s : stack[i] = stack[j] => i = j
    BY <1>1 DEF IsInjective
  <2> HIDE DEF stack, s, top, left
  <2>4. ToSet(top) \cup ToSet(left) = ToSet(stack)
    BY <1>6, <1>7, <2>1, <2>2
  <2>5. ASSUME NEW r \in ToSet(top), r \in ToSet(left) PROVE FALSE
    <3>1. PICK i \in (s - reused + 1)..s : r = stack[i]
      BY <1>6
    <3>2. PICK j \in 1..(s - reused) : r = stack[j]
      BY <1>7, <2>5
    <3>3. i \in 1..s /\ j \in 1..s /\ i # j
      BY <2>1
    <3> QED
      BY <2>3, <3>1, <3>2, <3>3
  <2> QED
    BY <2>4, <2>5
<1>9. ToSet(unused) \cap ToSet(stack) = {} /\ ToSet(unused) \cap Places(x, D) = {}
  <2>1. (x.next .. (x.next + unclaimed - 1)) \cap (0..(x.next - 1)) = {}
    BY <1>1, <1>3
  <2> HIDE DEF stack, s, unclaimed
  <2> QED
    BY <1>1, <1>5, <2>1
<1> HIDE DEF top, left, stack, unclaimed, s
<1>10. /\ rows \in Seq(Nat) /\ Len(rows) = reused + unclaimed
       /\ ToSet(rows) = ToSet(top) \cup ToSet(unused) /\ IsInjective(rows)
  <2>1. ToSet(top) \cap ToSet(unused) = {}
    BY <1>8, <1>9
  <2>2. top \in Seq(Nat) /\ unused \in Seq(Nat)
    BY <1>5, <1>6
  <2>3. /\ top \o unused \in Seq(Nat) /\ Len(top \o unused) = Len(top) + Len(unused)
        /\ ToSet(top \o unused) = ToSet(top) \cup ToSet(unused)
        /\ IsInjective(top) /\ IsInjective(unused) /\ ToSet(top) \cap ToSet(unused) = {}
             => IsInjective(top \o unused)
    BY ONLY <2>2, JoinKeys
  <2> QED
    BY <1>5, <1>6, <2>1, <2>3
<1> HIDE DEF rows
<1>11. /\ ToSet(rows) \cap ToSet(left) = {}
       /\ ToSet(rows) \cup ToSet(left) = ToSet(stack) \cup (x.next .. (x.next + unclaimed - 1))
       /\ ToSet(rows) \cap Places(x, D) = {}
  BY <1>1, <1>5, <1>7, <1>8, <1>9, <1>10
<1>12. /\ reused \in Nat /\ unclaimed \in Nat /\ reused <= size /\ reused <= s
       /\ unclaimed > 0 => reused = s
       /\ rows \in Seq(Nat) /\ Len(rows) = size /\ IsInjective(rows)
       /\ left \in Seq(Nat) /\ Len(left) = s - reused /\ IsInjective(left)
       /\ ToSet(left) \subseteq ToSet(stack)
  BY <1>2, <1>3, <1>7, <1>10
<1> QED
  BY <1>u, <1>11, <1>12 DEF rows, top, left, unused, stack, s, size, reused, unclaimed

(* a key claims rows no other key and not the stack has                    *)
LEMMA ClaimIsSound ==
  ASSUME RowsAreCounted, NEW x, NEW D, IndexSound(x, D), NEW k \in Keys \ D
  PROVE  LET y == ClaimRows(x, k)
         IN  /\ IndexSound(y, D \cup {k})
             /\ \A l \in D : y.rowsOf[l] = x.rowsOf[l]
             /\ \A c \in Nat : x.next <= c /\ RowsIn(D \cup {k}) <= c => y.next <= c
<1> DEFINE reused == Min({RowsPerKey[k], Len(x.released)})
           unclaimed == RowsPerKey[k] - reused
           rows == SubSeq(x.released, Len(x.released) - reused + 1, Len(x.released))
                     \o UnusedRows(x, unclaimed)
           left == PoppedOff(x, reused)
           y == ClaimRows(x, k)
           E == D \cup {k}
<1>1. /\ reused \in Nat /\ unclaimed \in Nat
      /\ reused <= RowsPerKey[k] /\ reused <= Len(x.released)
      /\ unclaimed > 0 => reused = Len(x.released)
      /\ rows \in Seq(Nat) /\ Len(rows) = RowsPerKey[k] /\ IsInjective(rows)
      /\ left \in Seq(Nat) /\ Len(left) = Len(x.released) - reused /\ IsInjective(left)
      /\ ToSet(rows) \cap ToSet(left) = {}
      /\ ToSet(rows) \cup ToSet(left)
           = ToSet(x.released) \cup (x.next .. (x.next + unclaimed - 1))
      /\ ToSet(rows) \cap Places(x, D) = {} /\ ToSet(left) \subseteq ToSet(x.released)
  BY ClaimedRows
<1>2. /\ D \in SUBSET Keys /\ IsFiniteSet(D) /\ RowsApart(x, D) /\ x.released \in Seq(Nat)
      /\ IsInjective(x.released) /\ Places(x, D) \cap ToSet(x.released) = {}
      /\ x.next \in Nat /\ Places(x, D) \cup ToSet(x.released) = 0..(x.next - 1)
      /\ RowsIn(D) + Len(x.released) = x.next /\ DOMAIN x.rowsOf = D
  BY DEF IndexSound
<1>3. y = [rowsOf |-> [key \in E |-> IF key = k THEN rows ELSE x.rowsOf[key]],
           released |-> left, next |-> x.next + unclaimed]
  BY <1>2 DEF ClaimRows
<1> HIDE DEF y, rows, left, unclaimed, reused
<1>4. /\ DOMAIN y.rowsOf = E /\ y.released = left /\ y.next = x.next + unclaimed
      /\ y.rowsOf[k] = rows /\ \A l \in D : y.rowsOf[l] = x.rowsOf[l]
  BY <1>3
<1>5. E \in SUBSET Keys /\ IsFiniteSet(E) /\ RowsIn(E) = RowsIn(D) + RowsPerKey[k]
      /\ RowsPerKey[k] \in Nat /\ RowsIn(D) \in Nat
  BY <1>2, RowsOfOne, Rows
<1>6. RowsApart(y, E)
  <2>1. \A l \in D : ToSet(x.rowsOf[l]) \subseteq Places(x, D)
    BY DEF Places
  <2>2. \A l \in D : ToSet(rows) \cap ToSet(x.rowsOf[l]) = {}
    BY <1>1, <2>1
  <2>3. ASSUME NEW l \in E
        PROVE  /\ y.rowsOf[l] \in Seq(Nat) /\ Len(y.rowsOf[l]) = RowsPerKey[l]
               /\ IsInjective(y.rowsOf[l])
    <3>1. CASE l = k
      BY <1>1, <1>4, <3>1
    <3>2. CASE l \in D
      BY <1>2, <1>4, <3>2 DEF RowsApart
    <3> QED
      BY <3>1, <3>2
  <2>4. ASSUME NEW l \in E, NEW m \in E, l # m
        PROVE  ToSet(y.rowsOf[l]) \cap ToSet(y.rowsOf[m]) = {}
    <3>1. CASE l = k
      BY <1>4, <2>2, <2>4, <3>1
    <3>2. CASE m = k
      BY <1>4, <2>2, <2>4, <3>2
    <3>3. CASE l \in D /\ m \in D
      BY <1>2, <1>4, <2>4, <3>3 DEF RowsApart
    <3> QED
      BY <3>1, <3>2, <3>3
  <2> QED
    BY <2>3, <2>4 DEF RowsApart
<1>7. Places(y, E) = Places(x, D) \cup ToSet(rows)
  BY <1>4 DEF Places
<1>8. Places(y, E) \cap ToSet(left) = {}
  BY <1>1, <1>2, <1>7
<1>9. Places(y, E) \cup ToSet(left) = 0..(y.next - 1)
  <2>1. 0..(y.next - 1) = (0..(x.next - 1)) \cup (x.next .. (x.next + unclaimed - 1))
    BY <1>1, <1>2, <1>4
  <2> QED
    BY <1>1, <1>2, <1>7, <2>1
<1>10. RowsIn(E) + Len(left) = y.next
  <2>1. Len(x.released) \in Nat /\ unclaimed = RowsPerKey[k] - reused
    BY <1>2 DEF unclaimed
  <2> QED
    BY <1>1, <1>2, <1>4, <1>5, <2>1
<1>11. y.next \in Nat
  BY <1>1, <1>2, <1>4
<1>12. IndexSound(y, E)
  BY <1>1, <1>4, <1>5, <1>6, <1>8, <1>9, <1>10, <1>11 DEF IndexSound
<1>13. ASSUME NEW c \in Nat, x.next <= c, RowsIn(E) <= c
       PROVE  y.next <= c
  <2>1. CASE unclaimed = 0
    BY <1>2, <1>4, <1>13, <2>1
  <2>2. CASE unclaimed > 0
    <3>1. Len(left) = 0
      BY <1>1, <1>2, <2>2
    <3> QED
      BY <1>5, <1>10, <1>13, <3>1
  <2> QED
    BY <1>1, <2>1, <2>2
<1> QED
  BY <1>4, <1>12, <1>13 DEF y

SlabIndex ==
    [rowsOf : UNION {[S -> Seq(Nat)] : S \in SUBSET Keys}, released : Seq(Nat), next : Nat]

LEMMA ClaimType ==
  ASSUME RowsAreCounted, NEW x \in SlabIndex, NEW k \in Keys
  PROVE  ClaimRows(x, k) \in SlabIndex
<1> DEFINE stack == x.released
           s == Len(stack)
           size == RowsPerKey[k]
           reused == Min({size, s})
           unclaimed == size - reused
           top == SubSeq(stack, s - reused + 1, s)
           unused == UnusedRows(x, unclaimed)
           left == PoppedOff(x, reused)
           S == DOMAIN x.rowsOf
           E == S \cup {k}
           rows == top \o unused
           f == [key \in E |-> IF key = k THEN rows ELSE x.rowsOf[key]]
<1>1. /\ stack \in Seq(Nat) /\ s \in Nat /\ size \in Nat /\ x.next \in Nat
      /\ S \in SUBSET Keys /\ x.rowsOf \in [S -> Seq(Nat)]
  BY DEF SlabIndex, RowsAreCounted
<1>2. reused \in Nat /\ reused <= size /\ reused <= s /\ unclaimed \in Nat
  <2>1. size \in Int /\ s \in Int
    BY <1>1
  <2> HIDE DEF s, size
  <2>2. /\ Min({size, s}) \in {size, s} /\ Min({size, s}) <= size /\ Min({size, s}) <= s
    BY ONLY <2>1, MinOfTwo
  <2>3. size \in Nat /\ s \in Nat
    BY <1>1
  <2> QED
    BY <2>2, <2>3
<1>def. ClaimRows(x, k) = [rowsOf |-> f, released |-> left, next |-> x.next + unclaimed]
  BY DEF ClaimRows
<1> HIDE DEF reused
<1>3. left \in Seq(Nat)
  <2>1. left = SubSeq(stack, 1, s - reused)
    BY DEF PoppedOff
  <2> DEFINE j == s - reused
  <2>2. j \in Int /\ 1 \in Int /\ 1 <= 1 /\ j <= Len(stack)
    BY <1>1, <1>2
  <2> HIDE DEF j, stack
  <2>3. SubSeq(stack, 1, j) \in Seq(Nat)
    BY <1>1, <2>2, PartKeys
  <2> QED
    BY <2>1, <2>3 DEF j
<1>4. top \in Seq(Nat)
  <2> DEFINE i == s - reused + 1
  <2>2. i \in Int /\ s \in Int /\ 1 <= i /\ s <= Len(stack)
    BY <1>1, <1>2
  <2>1. top = SubSeq(stack, i, s)
    OBVIOUS
  <2> HIDE DEF i, stack, top, s
  <2>3. SubSeq(stack, i, s) \in Seq(Nat)
    BY <1>1, <2>2, PartKeys DEF s
  <2> QED
    BY <2>1, <2>3
<1>5. unused \in Seq(Nat)
  <2>1. unused = [i \in 1..unclaimed |-> x.next + i - 1]
    BY DEF UnusedRows
  <2> HIDE DEF unclaimed, unused
  <2>2. \A i \in 1..unclaimed : x.next + i - 1 \in Nat
    BY <1>1, <1>2
  <2> QED
    BY <1>2, <2>1, <2>2
<1> HIDE DEF top, unused, left, unclaimed
<1>6. rows \in Seq(Nat)
  BY <1>4, <1>5, JoinKeys
<1> HIDE DEF rows
<1>7. f \in [E -> Seq(Nat)] /\ E \in SUBSET Keys
  <2>1. \A key \in E : f[key] \in Seq(Nat)
    BY <1>1, <1>6
  <2> QED
    BY <1>1, <2>1
<1>8. x.next + unclaimed \in Nat
  BY <1>1, <1>2
<1> HIDE DEF f, E
<1>9. f \in UNION {[T -> Seq(Nat)] : T \in SUBSET Keys}
  BY <1>7
<1> QED
  BY <1>def, <1>3, <1>8, <1>9 DEF SlabIndex

(* Rows claimed for one key after another. *)
ClaimsOf(h, x, keys) ==
    /\ h \in [0..Len(keys) -> SlabIndex]
    /\ h[0] = x /\ FoldLeft(ClaimRows, x, keys) = h[Len(keys)]
    /\ \A m \in 1..Len(keys) : h[m] = ClaimRows(h[m - 1], keys[m])

(* claims, one key at a time                                               *)
LEMMA ClaimSteps ==
  ASSUME RowsAreCounted, NEW p \in SlabIndex, NEW keys \in Seq(Keys)
  PROVE  \E h : ClaimsOf(h, p, keys)
<1> DEFINE n == Len(keys)
           S == 1..n
           V == SlabIndex
           G == [x \in S \X V |-> ClaimRows(x[2], keys[x[1]])]
           Iter(f) == f = [s \in SUBSET S |->
               IF s = {} THEN p ELSE LET x == Max(s) IN ClaimRows(f[s \ {x}], keys[x])]
           last == FoldLeft(ClaimRows, p, keys)
<1>1. n \in Nat /\ DOMAIN keys = S /\ p \in V /\ \A i \in S : keys[i] \in Keys
  OBVIOUS
<1>2. last = (CHOOSE f : Iter(f))[S]
  BY <1>1 DEF FoldLeft, MapThenFoldSet
<1>3. G \in [S \X V -> V]
  <2>1. \A i \in S : \A v \in V : ClaimRows(v, keys[i]) \in V
    BY <1>1, ClaimType
  <2> HIDE DEF V, S
  <2> QED
    BY <2>1
<1>31. ASSUME NEW m \in S, NEW v \in V
       PROVE  G[<<m, v>>] = ClaimRows(v, keys[m])
  <2> HIDE DEF V, S
  <2> QED
    OBVIOUS
<1> HIDE DEF G, V, last
<1>4. PICK f : FoldsOf(f, n, V, p, G)
  <2> HIDE DEF n, Iter
  <2> QED
    BY <1>1, <1>3, FoldOnSubsets
<1>5. Iter(f)
  <2>1. \A s \in SUBSET S : s # {} =>
          f[s] = LET x == Max(s) IN ClaimRows(f[s \ {x}], keys[x])
    BY <1>31, <1>4 DEF FoldsOf
  <2> QED
    BY <1>4, <2>1 DEF FoldsOf
<1>6. PICK g : Iter(g) /\ last = g[S]
  <2> HIDE DEF Iter
  <2> QED
    BY <1>2, <1>5
<1>7. g[{}] = p
  BY <1>6
<1>8. ASSUME NEW m \in S, g[1..(m - 1)] \in V
      PROVE  g[1..m] = G[<<m, g[1..(m - 1)]>>]
  <2>1. 1..m \in SUBSET S /\ 1..m # {} /\ (1..m) \ {m} = 1..(m - 1) /\ Max(1..m) = m
    <3>1. n \in Nat
      BY <1>1
    <3> HIDE DEF n, Iter
    <3> QED
      BY <3>1, FirstOnes
  <2>2. g[1..m] = ClaimRows(g[1..(m - 1)], keys[m])
    BY <1>6, <2>1
  <2> QED
    BY <1>31, <1>8, <2>2
<1>9. PICK h : StepsOf(h, n, V, p, G, g[1..n])
  <2> HIDE DEF n, Iter
  <2>1. PrefixesOf(g, n, V, p, G)
    BY <1>7, <1>8 DEF PrefixesOf
  <2>2. n \in Nat /\ p \in V /\ G \in [(1..n) \X V -> V]
    BY <1>1, <1>3
  <2> HIDE DEF S
  <2> QED
    BY <2>1, <2>2, FoldOfPrefixes
<1>10. /\ h \in [0..n -> V] /\ h[0] = p /\ last = h[n]
       /\ \A m \in S : h[m] = ClaimRows(h[m - 1], keys[m])
  <2> HIDE DEF n, Iter
  <2>1. \A m \in S : m - 1 \in 0..n
    BY <1>1
  <2> QED
    BY <1>31, <1>6, <1>9, <2>1 DEF StepsOf
<1> QED
  BY <1>10 DEF V, ClaimsOf, last

(* a sound index is an index                                               *)
LEMMA SoundIndexType ==
  ASSUME NEW x, NEW D, IndexSound(x, D), x.rowsOf = [k \in D |-> x.rowsOf[k]],
         x = [rowsOf |-> x.rowsOf, released |-> x.released, next |-> x.next]
  PROVE  x \in SlabIndex
<1>1. \A k \in D : x.rowsOf[k] \in Seq(Nat)
  BY DEF IndexSound, RowsApart
<1>2. x.rowsOf \in [D -> Seq(Nat)] /\ D \in SUBSET Keys /\ x.released \in Seq(Nat) /\ x.next \in Nat
  BY <1>1 DEF IndexSound
<1> QED
  BY <1>2 DEF SlabIndex

(* The index after a decision: sound, with every kept key's rows.          *)
KeepsRows(x, y, D) == \A l \in D : y.rowsOf[l] = x.rowsOf[l]

ClaimAssumption(x, D, admitted, c) ==
    /\ RowsAreCounted /\ x \in SlabIndex /\ IndexSound(x, D)
    /\ admitted \in Seq(Keys) /\ IsInjective(admitted) /\ ToSet(admitted) \cap D = {}
    /\ c \in Nat /\ x.next <= c /\ RowsIn(D \cup ToSet(admitted)) <= c

LEMMA ClaimedIsSound ==
  ASSUME NEW x, NEW D, NEW admitted, NEW c, ClaimAssumption(x, D, admitted, c),
         NEW h, ClaimsOf(h, x, admitted), NEW y, y = h[Len(admitted)]
  PROVE  /\ y \in SlabIndex /\ IndexSound(y, D \cup ToSet(admitted))
         /\ y.next <= c /\ KeepsRows(x, y, D)
<1> DEFINE n == Len(admitted)
           with(m) == D \cup {admitted[i] : i \in 1..m}
<1> USE DEF ClaimAssumption
<1>1. /\ h \in [0..n -> SlabIndex] /\ h[0] = x /\ y = h[n]
      /\ \A m \in 1..n : h[m] = ClaimRows(h[m - 1], admitted[m])
  BY DEF ClaimsOf
<1>2. /\ n \in Nat /\ \A i \in 1..n : admitted[i] \in Keys
      /\ \A i, j \in 1..n : admitted[i] = admitted[j] => i = j
      /\ ToSet(admitted) = {admitted[i] : i \in 1..n} /\ ToSet(admitted) \in SUBSET Keys
      /\ IsFiniteSet(ToSet(admitted))
  BY KeysOf DEF IsInjective
<1> HIDE DEF n
<1>3. D \in SUBSET Keys /\ IsFiniteSet(D)
  BY DEF IndexSound
<1>4. with(n) = D \cup ToSet(admitted)
  BY <1>2
<1>5. IsFiniteSet(with(n)) /\ with(n) \in SUBSET Keys
  BY <1>2, <1>3, <1>4, FS_Union
<1>6. ASSUME NEW m \in 0..n
      PROVE  RowsIn(with(m)) <= c
  <2>1. 1..m \subseteq 1..n
    BY <1>2
  <2>2. with(m) \subseteq with(n)
    BY <2>1
  <2>3. RowsIn(with(n)) <= c
    BY <1>4, Zenon
  <2> HIDE DEF with
  <2>4. RowsIn(with(m)) \in Nat /\ RowsIn(with(m)) <= RowsIn(with(n)) /\ RowsIn(with(n)) \in Nat
    BY <1>5, <2>2, Rows
  <2> QED
    BY <2>3, <2>4
<1> DEFINE T == {m \in Nat : m <= n =>
                   /\ IndexSound(h[m], with(m)) /\ h[m].next <= c
                   /\ \A l \in D : h[m].rowsOf[l] = x.rowsOf[l]}
<1>7. 0 \in T
  <2>1. with(0) = D
    OBVIOUS
  <2> HIDE DEF with
  <2> QED
    BY <1>1, <2>1
<1>8. ASSUME NEW m \in Nat, m \in T PROVE m + 1 \in T
  <2> SUFFICES ASSUME m + 1 <= n
               PROVE  /\ IndexSound(h[m + 1], with(m + 1)) /\ h[m + 1].next <= c
                      /\ \A l \in D : h[m + 1].rowsOf[l] = x.rowsOf[l]
    OBVIOUS
  <2>1. /\ m + 1 \in 1..n /\ (m + 1) - 1 = m /\ m <= n /\ m \in 0..n /\ m + 1 \in 0..n
        /\ 1..(m + 1) = (1..m) \cup {m + 1}
    BY <1>2
  <2>2. /\ IndexSound(h[m], with(m)) /\ h[m].next <= c
        /\ \A l \in D : h[m].rowsOf[l] = x.rowsOf[l]
    BY <1>8, <2>1
  <2> DEFINE k == admitted[m + 1]
  <2>3. with(m + 1) = with(m) \cup {k} /\ D \subseteq with(m)
    BY <2>1
  <2>4. k \in Keys \ with(m)
    <3>1. \A i \in 1..m : i \in 1..n /\ i # m + 1
      BY <1>2, <2>1
    <3>2. \A i \in 1..m : admitted[i] # k
      BY <1>2, <2>1, <3>1
    <3>3. k \in Keys /\ k \notin D
      BY <1>2, <2>1
    <3> QED
      BY <3>2, <3>3
  <2>5. h[m + 1] = ClaimRows(h[m], k) /\ h[m] \in SlabIndex
    BY <1>1, <2>1
  <2>6. RowsIn(with(m + 1)) <= c
    BY <1>6, <2>1
  <2> HIDE DEF with, k
  <2> DEFINE z == h[m]
             w == h[m + 1]
  <2>7. w = ClaimRows(z, k) /\ IndexSound(z, with(m)) /\ z.next <= c
        /\ \A l \in D : z.rowsOf[l] = x.rowsOf[l]
    BY <2>2, <2>5
  <2> HIDE DEF w, z
  <2>8. /\ IndexSound(w, with(m) \cup {k})
        /\ \A l \in with(m) : w.rowsOf[l] = z.rowsOf[l]
        /\ z.next <= c /\ RowsIn(with(m) \cup {k}) <= c => w.next <= c
    <3> DEFINE Z == ClaimRows(z, k)
               S == with(m)
    <3>1. IndexSound(z, S) /\ k \in Keys \ S
      BY <2>4, <2>7
    <3> HIDE DEF S
    <3>2. /\ IndexSound(Z, S \cup {k})
          /\ \A l \in S : Z.rowsOf[l] = z.rowsOf[l]
          /\ \A d \in Nat : z.next <= d /\ RowsIn(S \cup {k}) <= d => Z.next <= d
      BY <3>1, ClaimIsSound
    <3> HIDE DEF Z
    <3>3. Z = w
      BY <2>7 DEF Z
    <3> QED
      BY <3>2, <3>3 DEF S
  <2>9. IndexSound(w, with(m + 1))
    BY <2>3, <2>8, Zenon
  <2>10. RowsIn(with(m) \cup {k}) <= c
    BY <2>3, <2>6, Zenon
  <2>11. w.next <= c
    BY <2>7, <2>8, <2>10
  <2>12. \A l \in D : w.rowsOf[l] = x.rowsOf[l]
    BY <2>3, <2>7, <2>8
  <2> QED
    BY <2>9, <2>11, <2>12 DEF w
<1>9. n \in T
  <2>1. Nat \subseteq T
    <3> HIDE DEF T
    <3> QED
      BY <1>7, <1>8, NatInd
  <2> QED
    BY <1>2, <2>1
<1>10. /\ IndexSound(h[n], with(n)) /\ h[n].next <= c
       /\ \A l \in D : h[n].rowsOf[l] = x.rowsOf[l]
  BY <1>2, <1>9
<1>11. h[n] \in SlabIndex
  BY <1>1, <1>2
<1> HIDE DEF with
<1>12. IndexSound(y, D \cup ToSet(admitted))
  BY <1>1, <1>4, <1>10, Zenon
<1> QED
  BY <1>1, <1>10, <1>11, <1>12 DEF KeepsRows

-----------------------------------------------------------------------------
(* What the rows hold after a put.                                         *)

(* An index is of the rows there are, and the rows hold what it says.      *)
Tables(x, D, rows) ==
    /\ IndexSound(x, D) /\ x.next <= Capacity
    /\ \A k \in D : \A i \in 1..RowsPerKey[k] : rows[x.rowsOf[k][i]] = <<k, i>>

(* a list of some elements is one of others that has them                  *)
LEMMA ListIn ==
  ASSUME NEW S, NEW T, NEW s \in Seq(S)
  PROVE  /\ Len(s) \in Nat /\ DOMAIN s = 1..Len(s)
         /\ S \subseteq T \/ (\A i \in 1..Len(s) : s[i] \in T) => s \in Seq(T)
<1>1. Len(s) \in Nat /\ DOMAIN s = 1..Len(s) /\ \A i \in 1..Len(s) : s[i] \in S
  OBVIOUS
<1>2. ASSUME \A i \in 1..Len(s) : s[i] \in T
      PROVE  s \in Seq(T)
  <2>1. s = [i \in 1..Len(s) |-> s[i]]
    OBVIOUS
  <2> QED
    BY <1>1, <1>2, <2>1
<1> QED
  BY <1>1, <1>2

(* no two rows of features share a place                                   *)
LEMMA RowsDiffer ==
  ASSUME NEW x, NEW D, RowsApart(x, D), NEW k \in D, NEW l \in D,
         NEW i \in 1..RowsPerKey[k], NEW j \in 1..RowsPerKey[l], RowsAreCounted, D \in SUBSET Keys,
         x.rowsOf[k][i] = x.rowsOf[l][j]
  PROVE  k = l /\ i = j
<1>1. RowsPerKey[k] \in Nat /\ RowsPerKey[l] \in Nat
  BY DEF RowsAreCounted
<1>2. /\ DOMAIN x.rowsOf[k] = 1..RowsPerKey[k] /\ DOMAIN x.rowsOf[l] = 1..RowsPerKey[l]
      /\ IsInjective(x.rowsOf[k])
  BY DEF RowsApart
<1>3. x.rowsOf[k][i] \in ToSet(x.rowsOf[k]) /\ x.rowsOf[l][j] \in ToSet(x.rowsOf[l])
  BY <1>2 DEF ToSet
<1>4. k = l
  BY <1>3 DEF RowsApart
<1>5. i = j
  BY <1>2, <1>4 DEF IsInjective
<1> QED
  BY <1>4, <1>5

(* a feature's rows are rows of the slab                                   *)
LEMMA RowIsThere ==
  ASSUME RowsAreCounted, Capacity \in Nat, NEW x, NEW D, IndexSound(x, D), x.next <= Capacity,
         NEW k \in D, NEW i \in 1..RowsPerKey[k]
  PROVE  /\ x.rowsOf[k][i] \in AllRows /\ i \in 1..Capacity /\ i \in Nat
         /\ x.rowsOf[k] \in Seq(AllRows)
<1>1. /\ D \in SUBSET Keys /\ IsFiniteSet(D) /\ RowsPerKey[k] \in Nat /\ k \in Keys
      /\ x.rowsOf[k] \in Seq(Nat) /\ Len(x.rowsOf[k]) = RowsPerKey[k] /\ x.next \in Nat
      /\ Places(x, D) \subseteq 0..(x.next - 1)
      /\ RowsIn(D) + Len(x.released) = x.next /\ x.released \in Seq(Nat)
  BY DEF IndexSound, RowsApart, RowsAreCounted
<1>2. 0..(x.next - 1) \subseteq AllRows
  BY <1>1 DEF AllRows
<1>3. \A j \in 1..RowsPerKey[k] : x.rowsOf[k][j] \in AllRows
  <2> SUFFICES ASSUME NEW j \in 1..RowsPerKey[k] PROVE x.rowsOf[k][j] \in AllRows
    OBVIOUS
  <2>1. x.rowsOf[k][j] \in ToSet(x.rowsOf[k])
    BY <1>1, KeysOf
  <2> QED
    BY <1>1, <1>2, <2>1 DEF Places
<1>4. RowsPerKey[k] <= Capacity
  <2>1. /\ IsFiniteSet(D \ {k}) /\ D \ {k} \in SUBSET Keys /\ k \in Keys \ (D \ {k})
        /\ (D \ {k}) \cup {k} = D
    BY <1>1, FS_Subset
  <2>2. RowsIn((D \ {k}) \cup {k}) = RowsIn(D \ {k}) + RowsPerKey[k]
    BY <2>1, RowsOfOne
  <2>3. RowsIn(D) = RowsIn(D \ {k}) + RowsPerKey[k]
    BY <2>1, <2>2, Zenon
  <2>4. RowsIn(D \ {k}) \in Nat /\ Len(x.released) \in Nat
    BY <1>1, <2>1, Rows
  <2> QED
    BY <1>1, <2>3, <2>4
<1>5. x.rowsOf[k] \in Seq(AllRows)
  BY <1>1, <1>3, ListIn
<1> QED
  BY <1>1, <1>3, <1>4, <1>5

(* What a put leaves in the rows: the admitted features in theirs, and     *)
(* every other row as it was.                                              *)
Written(rows, y, A) ==
    LET writes == {w \in A \X (1..Capacity) : w[2] <= RowsPerKey[w[1]]}
    IN  [r \in AllRows |->
           LET here == {w \in writes : y.rowsOf[w[1]][w[2]] = r}
           IN  IF here = {} THEN rows[r] ELSE CHOOSE w \in here : TRUE]

(* a put writes the admitted features' rows and no others                  *)
LEMMA WrittenRows ==
  ASSUME RowsAreCounted, Capacity \in Nat, NEW D, NEW A, D \cap A = {},
         NEW x, NEW y, IndexSound(y, D \cup A), y.next <= Capacity,
         NEW rows \in [AllRows -> (Keys \X Nat) \cup {None}],
         \A k \in D : y.rowsOf[k] = x.rowsOf[k],
         \A k \in D : \A i \in 1..RowsPerKey[k] : rows[x.rowsOf[k][i]] = <<k, i>>
  PROVE  /\ Written(rows, y, A) \in [AllRows -> (Keys \X Nat) \cup {None}]
         /\ Tables(y, D \cup A, Written(rows, y, A))
<1> DEFINE writes == {w \in A \X (1..Capacity) : w[2] <= RowsPerKey[w[1]]}
           here(r) == {w \in writes : y.rowsOf[w[1]][w[2]] = r}
           after == Written(rows, y, A)
           all == D \cup A
<1>0. /\ all \in SUBSET Keys /\ RowsApart(y, all)
      /\ \A k \in all : RowsPerKey[k] \in Nat
  BY DEF IndexSound, RowsAreCounted
<1>1. \A r \in AllRows : after[r] = IF here(r) = {} THEN rows[r] ELSE CHOOSE w \in here(r) : TRUE
  BY DEF Written
<1>2. \A w \in writes : /\ w[1] \in A /\ w[1] \in all /\ w[2] \in 1..RowsPerKey[w[1]]
                        /\ w[2] \in Nat /\ w = <<w[1], w[2]>>
  BY <1>0
<1>3. ASSUME NEW r \in AllRows
      PROVE  after[r] \in (Keys \X Nat) \cup {None}
  <2>1. CASE here(r) = {}
    <3>1. after[r] = rows[r]
      BY <1>1, <2>1
    <3> HIDE DEF after, here
    <3> QED
      BY <3>1
  <2>2. CASE here(r) # {}
    <3>1. PICK w \in here(r) : after[r] = w
      <4>1. after[r] = CHOOSE w \in here(r) : TRUE
        BY <1>1, <2>2
      <4> HIDE DEF after, here
      <4> QED
        BY <2>2, <4>1
    <3>2. w \in writes
      OBVIOUS
    <3>3. w[1] \in Keys /\ w[2] \in Nat /\ w = <<w[1], w[2]>>
      BY <1>0, <1>2, <3>2
    <3> HIDE DEF after, here, writes
    <3> QED
      BY <3>1, <3>3
  <2> QED
    BY <2>1, <2>2
<1>4. after = [r \in AllRows |-> after[r]]
  BY DEF Written
<1>5. after \in [AllRows -> (Keys \X Nat) \cup {None}]
  <2> HIDE DEF after
  <2> QED
    BY <1>3, <1>4
<1> HIDE DEF after, writes
<1>6. ASSUME NEW k \in all, NEW i \in 1..RowsPerKey[k]
      PROVE  after[y.rowsOf[k][i]] = <<k, i>>
  <2> DEFINE r == y.rowsOf[k][i]
  <2>1. r \in AllRows /\ i \in 1..Capacity /\ i \in Nat
    BY RowIsThere
  <2>2. \A w \in here(r) : w = <<k, i>>
    <3> SUFFICES ASSUME NEW w \in here(r) PROVE w = <<k, i>>
      OBVIOUS
    <3>1. w \in writes /\ y.rowsOf[w[1]][w[2]] = y.rowsOf[k][i]
      OBVIOUS
    <3>2. w[1] = k /\ w[2] = i
      BY <1>0, <1>2, <3>1, RowsDiffer
    <3> QED
      BY <1>2, <3>1, <3>2
  <2>3. CASE k \in A
    <3>1. <<k, i>> \in writes
      BY <2>1, <2>3, <1>0 DEF writes
    <3>2. <<k, i>> \in here(r)
      BY <3>1
    <3>3. here(r) = {<<k, i>>}
      BY <2>2, <3>2
    <3>4. after[r] = CHOOSE w \in {<<k, i>>} : TRUE
      BY <1>1, <2>1, <3>3
    <3> HIDE DEF r
    <3> QED
      BY <3>4 DEF r
  <2>4. CASE k \in D
    <3>1. \A w \in here(r) : w[1] \in A
      BY <1>2
    <3>2. here(r) = {}
      <4>1. ASSUME NEW w \in here(r) PROVE FALSE
        <5>1. w = <<k, i>> /\ w[1] \in A
          BY <2>2, <3>1
        <5>2. k \in A
          BY <5>1
        <5> QED
          BY <2>4, <5>2
      <4> QED
        BY <4>1
    <3>3. after[r] = rows[r] /\ r = x.rowsOf[k][i]
      BY <1>1, <2>1, <2>4, <3>2
    <3> QED
      BY <2>4, <3>3
  <2> QED
    BY <2>3, <2>4
<1>7. Tables(y, all, after)
  BY <1>6 DEF Tables
<1> QED
  BY <1>5, <1>7 DEF after

(* The tables, as the slab keeps them. *)
OnePlace(ro, rel, nxt, rows) ==
    LET taken == UNION {ToSet(ro[k]) : k \in DOMAIN ro}
    IN  /\ \A k \in DOMAIN ro : ro[k] \in Seq(AllRows)
        /\ rel \in Seq(AllRows)
        /\ nxt \in 0..Capacity
        /\ IsInjective(rel)
        /\ taken \cap ToSet(rel) = {}
        /\ taken \cup ToSet(rel) = 0..(nxt - 1)
        /\ RowsIn(DOMAIN ro) + Len(rel) = nxt
        /\ \A k \in DOMAIN ro :
             [i \in 1..RowsPerKey[k] |-> <<k, i>>] = [i \in DOMAIN ro[k] |-> rows[ro[k][i]]]

IndexOf(ro, rel, nxt) == [rowsOf |-> ro, released |-> rel, next |-> nxt]

(* the slab's tables as an index                                           *)
LEMMA TablesOfOnePlace ==
  ASSUME RowsAreCounted, Capacity \in Nat, NEW ro, NEW rel, NEW nxt, NEW rows,
         DOMAIN ro \in SUBSET Keys, IsFiniteSet(DOMAIN ro), OnePlace(ro, rel, nxt, rows)
  PROVE  Tables(IndexOf(ro, rel, nxt), DOMAIN ro, rows)
<1> DEFINE x == IndexOf(ro, rel, nxt)
           D == DOMAIN ro
<1>1. x.rowsOf = ro /\ x.released = rel /\ x.next = nxt
  BY DEF IndexOf
<1> HIDE DEF x
<1>2. AllRows \subseteq Nat
  BY DEF AllRows
<1>3. ASSUME NEW k \in D
      PROVE  /\ ro[k] \in Seq(Nat) /\ Len(ro[k]) = RowsPerKey[k] /\ DOMAIN ro[k] = 1..RowsPerKey[k]
             /\ \A i \in 1..RowsPerKey[k] : rows[ro[k][i]] = <<k, i>>
  <2>1. ro[k] \in Seq(AllRows) /\ RowsPerKey[k] \in Nat
    BY DEF OnePlace, RowsAreCounted
  <2>2. ro[k] \in Seq(Nat) /\ DOMAIN ro[k] = 1..Len(ro[k]) /\ Len(ro[k]) \in Nat
    BY <1>2, <2>1, ListIn
  <2> DEFINE f == [i \in 1..RowsPerKey[k] |-> <<k, i>>]
             g == [i \in DOMAIN ro[k] |-> rows[ro[k][i]]]
  <2>3. f = g
    BY DEF OnePlace
  <2>4. DOMAIN f = 1..RowsPerKey[k] /\ DOMAIN g = DOMAIN ro[k]
        /\ (\A i \in 1..RowsPerKey[k] : f[i] = <<k, i>>)
        /\ (\A i \in DOMAIN ro[k] : g[i] = rows[ro[k][i]])
    OBVIOUS
  <2> HIDE DEF f, g
  <2>5. DOMAIN ro[k] = 1..RowsPerKey[k]
    BY <2>3, <2>4
  <2>6. \A i \in 1..RowsPerKey[k] : rows[ro[k][i]] = <<k, i>>
    BY <2>3, <2>4, <2>5
  <2>7. Len(ro[k]) = RowsPerKey[k]
    BY <2>1, <2>2, <2>5
  <2> QED
    BY <2>2, <2>5, <2>6, <2>7
<1>4. RowsApart(x, D)
  <2>1. ASSUME NEW k \in D PROVE IsInjective(ro[k])
    <3> SUFFICES ASSUME NEW i \in 1..RowsPerKey[k], NEW j \in 1..RowsPerKey[k], ro[k][i] = ro[k][j]
                 PROVE  i = j
      BY <1>3 DEF IsInjective
    <3>1. <<k, i>> = <<k, j>>
      BY <1>3
    <3> QED
      BY <3>1
  <2>2. ASSUME NEW k \in D, NEW l \in D, k # l, NEW r \in ToSet(ro[k]), r \in ToSet(ro[l])
        PROVE  FALSE
    <3>1. PICK i \in 1..RowsPerKey[k] : r = ro[k][i]
      BY <1>3 DEF ToSet
    <3>2. PICK j \in 1..RowsPerKey[l] : r = ro[l][j]
      BY <1>3, <2>2 DEF ToSet
    <3>3. rows[r] = <<k, i>> /\ rows[r] = <<l, j>>
      BY <1>3, <3>1, <3>2
    <3> QED
      BY <2>2, <3>3
  <2> QED
    BY <1>1, <1>3, <2>1, <2>2 DEF RowsApart
<1>5. Places(x, D) = UNION {ToSet(ro[k]) : k \in D}
  BY <1>1 DEF Places
<1>6. /\ rel \in Seq(Nat) /\ IsInjective(rel) /\ nxt \in Nat /\ nxt <= Capacity
      /\ Places(x, D) \cap ToSet(rel) = {} /\ Places(x, D) \cup ToSet(rel) = 0..(nxt - 1)
      /\ RowsIn(D) + Len(rel) = nxt
  <2>1. rel \in Seq(AllRows) /\ nxt \in 0..Capacity
    BY DEF OnePlace
  <2>2. rel \in Seq(Nat)
    BY <1>2, <2>1, ListIn
  <2>3. nxt \in Nat /\ nxt <= Capacity
    BY <2>1
  <2> QED
    BY <1>5, <2>2, <2>3 DEF OnePlace
<1>7. IndexSound(x, D)
  BY <1>1, <1>4, <1>6 DEF IndexSound
<1>8. Tables(x, D, rows)
  BY <1>1, <1>3, <1>6, <1>7 DEF Tables
<1> QED
  BY <1>8 DEF x

(* an index as the slab's tables                                           *)
LEMMA OnePlaceOfTables ==
  ASSUME RowsAreCounted, Capacity \in Nat, NEW x, NEW D, NEW rows, Tables(x, D, rows)
  PROVE  OnePlace(x.rowsOf, x.released, x.next, rows)
<1> DEFINE ro == x.rowsOf
           rel == x.released
           nxt == x.next
<1>1. /\ DOMAIN ro = D /\ D \in SUBSET Keys /\ rel \in Seq(Nat) /\ IsInjective(rel) /\ nxt \in Nat
      /\ nxt <= Capacity /\ IndexSound(x, D)
      /\ Places(x, D) \cap ToSet(rel) = {} /\ Places(x, D) \cup ToSet(rel) = 0..(nxt - 1)
      /\ RowsIn(D) + Len(rel) = nxt
  BY DEF Tables, IndexSound
<1>2. Places(x, D) = UNION {ToSet(ro[k]) : k \in D}
  BY DEF Places
<1>3. ASSUME NEW k \in D
      PROVE  /\ ro[k] \in Seq(AllRows)
             /\ [i \in 1..RowsPerKey[k] |-> <<k, i>>] = [i \in DOMAIN ro[k] |-> rows[ro[k][i]]]
  <2>1. RowsPerKey[k] \in Nat \ {0} /\ ro[k] \in Seq(Nat) /\ Len(ro[k]) = RowsPerKey[k]
    BY <1>1 DEF RowsAreCounted, IndexSound, RowsApart
  <2>2. 1 \in 1..RowsPerKey[k] /\ DOMAIN ro[k] = 1..RowsPerKey[k]
    BY <2>1
  <2>3. ro[k] \in Seq(AllRows)
    BY <1>1, <2>2, RowIsThere
  <2>4. \A i \in 1..RowsPerKey[k] : rows[ro[k][i]] = <<k, i>>
    BY DEF Tables
  <2> QED
    BY <2>2, <2>3, <2>4
<1>4. rel \in Seq(AllRows)
  <2>1. 0..(nxt - 1) \subseteq AllRows
    BY <1>1 DEF AllRows
  <2>2. \A i \in 1..Len(rel) : rel[i] \in ToSet(rel)
    BY <1>1, KeysOf
  <2>3. \A i \in 1..Len(rel) : rel[i] \in AllRows
    BY <1>1, <2>1, <2>2
  <2> HIDE DEF rel
  <2> QED
    BY <1>1, <2>3
<1> HIDE DEF ro, rel, nxt
<1>5. nxt \in 0..Capacity
  BY <1>1
<1>6. OnePlace(ro, rel, nxt, rows)
  BY <1>1, <1>2, <1>3, <1>4, <1>5 DEF OnePlace
<1> QED
  BY <1>6 DEF ro, rel, nxt

-----------------------------------------------------------------------------
(* The slab's invariant, and that its steps keep it.                       *)

SlabInv == PolicyAgreesWithSlab /\ IsFiniteSet(Held)

(* the slab begins in order                                                *)
LEMMA SlabInitInv ==
  ASSUME SlotPolicyAssumption, FeatureSlabAssumption, SlabInit
  PROVE  SlabInv
<1>1. PICK p \in Policies : policy = NewPolicy(p[1], p[2])
  BY DEF SlabInit
<1>2. p[1] \in Kinds /\ p[2] \in Nat /\ Capacity \in Nat /\ MaxHits \in Nat /\ RowsAreCounted
  BY DEF FeatureSlabAssumption, SlotPolicyAssumption
<1>3. /\ policy.kind = p[1] /\ policy.remembered = p[2] /\ policy.offeredOnce = <<>>
      /\ \A h \in 0..MaxHits : policy.buckets[h] = <<>>
      /\ policy.buckets = [h \in 0..MaxHits |-> <<>>]
      /\ policy = [kind |-> p[1], remembered |-> p[2], buckets |-> policy.buckets,
                   offeredOnce |-> <<>>]
  BY <1>1 DEF NewPolicy
<1>4. <<>> \in Seq(Keys) /\ ToSet(<<>>) = {} /\ IsInjective(<<>>) /\ RowsOf(<<>>) = 0
  BY <1>2, NoKeys
<1>5. policy \in SlotPolicy
  <2>1. policy.buckets \in [0..MaxHits -> Seq(Keys)]
    BY <1>3, <1>4
  <2> QED
    BY <1>2, <1>3, <1>4, <2>1 DEF SlotPolicy
<1>6. RecordedIn(policy) = {} /\ RecordedOnce(policy)
  <2>1. \A h \in 1..MaxHits : h \in 0..MaxHits
    OBVIOUS
  <2> QED
    BY <1>3, <1>4, <2>1 DEF RecordedIn, RecordedOnce
<1>7. /\ Held = {} /\ releasedRows = <<>> /\ nextUnusedRow = 0 /\ refusal = FALSE
      /\ content = [r \in AllRows |-> None] /\ slabPins = [k \in Keys |-> 0]
  BY DEF SlabInit, Held
<1>8. SlabTypes
  <2>1. releasedRows \in Seq(AllRows)
    BY <1>7
  <2>2. /\ nextUnusedRow \in 0..Capacity /\ slabPins \in [Keys -> Nat] /\ refusal \in BOOLEAN
        /\ content \in [AllRows -> (Keys \X Nat) \cup {None}]
    <3>3. nextUnusedRow \in 0..Capacity
      BY <1>2, <1>7
    <3>1. slabPins \in [Keys -> Nat] /\ refusal \in BOOLEAN
      BY <1>7
    <3>2. content \in [AllRows -> (Keys \X Nat) \cup {None}]
      BY <1>7
    <3> QED
      BY <3>1, <3>2, <3>3
  <2> QED
    BY <1>5, <1>7, <2>1, <2>2 DEF SlabTypes
<1>9. EveryRowHasOnePlace
  <2>1. RowsIn({}) = 0 /\ Len(<<>>) = 0
    BY <1>2, FS_EmptySet, Rows
  <2>2. RowsIn(Held) + Len(releasedRows) = nextUnusedRow
    <3>1. RowsIn(Held) = 0
      BY <1>7, <2>1, Zenon
    <3> QED
      BY <1>7, <2>1, <3>1
  <2>3. 0..(nextUnusedRow - 1) = {}
    BY <1>7
  <2>4. ToSet(releasedRows) = {} /\ IsInjective(releasedRows)
    BY <1>4, <1>7
  <2>5. UNION {ToSet(rowsOf[k]) : k \in Held} = {}
    BY <1>7
  <2>6. \A k \in Held : [i \in 1..RowsPerKey[k] |-> <<k, i>>]
                          = [i \in DOMAIN rowsOf[k] |-> content[rowsOf[k][i]]]
    BY <1>7
  <2> QED
    BY <1>8, <2>2, <2>3, <2>4, <2>5, <2>6 DEF EveryRowHasOnePlace
<1>10. Len(policy.offeredOnce) <= policy.remembered /\ ToSet(policy.offeredOnce) \cap Held = {}
  BY <1>2, <1>3, <1>7
<1>11. IsFiniteSet(Held)
  BY <1>7, FS_EmptySet
<1> QED
  BY <1>6, <1>7, <1>9, <1>10, <1>11 DEF SlabInv, PolicyAgreesWithSlab

(* what is offered are cards                                               *)
LEMMA OfferedKeys ==
  ASSUME FeatureSlabAssumption, NEW offer \in Offers
  PROVE  offer \in Seq(Keys) /\ IsInjective(offer) /\ ToSet(offer) \in SUBSET Keys
  BY KeysOf DEF FeatureSlabAssumption

(* the invariant as a fact about the tables, before a step                 *)
LEMMA OnePlaceNow ==
  ASSUME EveryRowHasOnePlace
  PROVE  OnePlace(rowsOf, releasedRows, nextUnusedRow, content)
<1>1. /\ \A k \in DOMAIN rowsOf : rowsOf[k] \in Seq(AllRows)
      /\ releasedRows \in Seq(AllRows) /\ nextUnusedRow \in 0..Capacity
  BY DEF EveryRowHasOnePlace, SlabTypes, Held
<1> QED
  BY <1>1 DEF EveryRowHasOnePlace, OnePlace, Held

(* and after it                                                            *)
LEMMA OnePlaceNext ==
  ASSUME SlabTypes', OnePlace(rowsOf', releasedRows', nextUnusedRow', content')
  PROVE  EveryRowHasOnePlace'
  BY DEF EveryRowHasOnePlace, OnePlace, Held

(* the tables are in order while nothing touches them                      *)
LEMMA TablesStand ==
  ASSUME EveryRowHasOnePlace, SlabTypes',
         UNCHANGED <<rowsOf, releasedRows, nextUnusedRow, content>>
  PROVE  EveryRowHasOnePlace'
<1>1. OnePlace(rowsOf, releasedRows, nextUnusedRow, content)
  BY OnePlaceNow
<1>2. OnePlace(rowsOf', releasedRows', nextUnusedRow', content')
  BY <1>1
<1> QED
  BY <1>2, OnePlaceNext

(* a lookup                                                                *)
LEMMA LookupStep ==
  ASSUME SlotPolicyAssumption, FeatureSlabAssumption, SlabInv, NEW offer \in Offers, Lookup(offer)
  PROVE  SlabInv'
<1> DEFINE hits == Among(offer, Held)
<1>1. hits \in Seq(Keys) /\ IsInjective(hits)
  <2> HIDE DEF hits
  <2> QED
    BY OfferedKeys, AmongKeys DEF hits
<1>2. /\ policy' = RecordHits(policy, hits)
      /\ policy.kind = "lfu" => \A k \in ToSet(hits) : k \notin ToSet(policy.buckets[MaxHits])
      /\ UNCHANGED <<rowsOf, releasedRows, nextUnusedRow, content, slabPins, refusal>>
  BY DEF Lookup
<1> HIDE DEF hits
<1>3. policy \in SlotPolicy /\ RecordedOnce(policy) /\ MaxHits \in Nat
  BY DEF SlabInv, PolicyAgreesWithSlab, EveryRowHasOnePlace, SlabTypes, SlotPolicyAssumption
<1>4. policy.kind = "lfu" => ToSet(hits) \cap ToSet(policy.buckets[MaxHits]) = {}
  BY <1>2
<1>5. StillRecords(policy, policy')
  BY <1>1, <1>2, <1>3, <1>4, HitsKeepRecords
<1>6. /\ policy' \in SlotPolicy /\ RecordedOnce(policy') /\ policy'.kind = policy.kind
      /\ policy'.remembered = policy.remembered /\ policy'.offeredOnce = policy.offeredOnce
      /\ RecordedIn(policy') = RecordedIn(policy)
  BY <1>5 DEF StillRecords
<1>7. Held' = Held
  BY <1>2 DEF Held
<1>8. SlabTypes'
  BY <1>2, <1>6, <1>7 DEF SlabInv, PolicyAgreesWithSlab, EveryRowHasOnePlace, SlabTypes
<1>9. UNCHANGED <<rowsOf, releasedRows, nextUnusedRow, content>>
  BY <1>2
<1>10. EveryRowHasOnePlace'
  BY <1>8, <1>9, TablesStand DEF SlabInv, PolicyAgreesWithSlab
<1> QED
  BY <1>2, <1>6, <1>7, <1>10 DEF SlabInv, PolicyAgreesWithSlab

(* a step that only counts pins                                            *)
LEMMA PinsStep ==
  ASSUME SlabInv, slabPins' \in [Keys -> Nat],
         UNCHANGED <<rowsOf, releasedRows, nextUnusedRow, content, policy, refusal>>
  PROVE  SlabInv'
<1>1. Held' = Held
  BY DEF Held
<1>2. SlabTypes'
  BY <1>1 DEF SlabInv, PolicyAgreesWithSlab, EveryRowHasOnePlace, SlabTypes
<1>3. EveryRowHasOnePlace'
  BY <1>2, TablesStand DEF SlabInv, PolicyAgreesWithSlab
<1> QED
  BY <1>1, <1>3 DEF SlabInv, PolicyAgreesWithSlab

(* a pin or an unpin                                                       *)
LEMMA PinStep ==
  ASSUME SlabInv, NEW keys, SlabPin(keys) \/ SlabUnpin(keys), keys \in SUBSET Keys
  PROVE  SlabInv'
<1>1. slabPins \in [Keys -> Nat]
  BY DEF SlabInv, PolicyAgreesWithSlab, EveryRowHasOnePlace, SlabTypes
<1>2. slabPins' \in [Keys -> Nat]
  BY <1>1 DEF SlabPin, SlabUnpin, DropOnePin
<1> QED
  BY <1>2, PinsStep DEF SlabPin, SlabUnpin

(* What the slab holds after a decision fits it, and is a put's outcome.   *)
LEMMA HeldAfter ==
  ASSUME RowsAreCounted, Capacity \in Nat, NEW H \in SUBSET Keys, IsFiniteSet(H), NEW pinned,
         NEW evicted \in Seq(Keys), ToSet(evicted) \subseteq H \ pinned,
         NEW admitted \in Seq(Keys), ToSet(admitted) \cap H = {},
         NEW free \in Nat, RowsIn(H) + free <= Capacity,
         RowsOf(admitted) <= free + RowsOf(evicted),
         admitted = <<>> => evicted = <<>>
  PROVE  /\ RowsIn((H \ ToSet(evicted)) \cup ToSet(admitted)) <= Capacity
         /\ IsFiniteSet((H \ ToSet(evicted)) \cup ToSet(admitted))
         /\ \A offer \in SUBSET Keys : ToSet(admitted) \subseteq offer =>
              (H \ ToSet(evicted)) \cup ToSet(admitted) \in PutOutcomes(H, pinned, offer, Capacity)
<1> DEFINE E == ToSet(evicted)
           A == ToSet(admitted)
           L == H \ E
           after == L \cup A
<1>1. /\ E \in SUBSET Keys /\ IsFiniteSet(E) /\ A \in SUBSET Keys /\ IsFiniteSet(A)
      /\ L \in SUBSET Keys /\ IsFiniteSet(L) /\ E \subseteq H
  BY KeysOf, FS_Subset
<1>2. RowsOf(evicted) = RowsIn(E) /\ RowsOf(admitted) = RowsIn(A)
  BY DEF RowsOf
<1>3. admitted = <<>> \/ A # {}
  <2>1. Len(admitted) \in Nat /\ \A i \in 1..Len(admitted) : admitted[i] \in A
    BY KeysOf
  <2>2. CASE Len(admitted) = 0
    BY <2>2
  <2>3. CASE Len(admitted) # 0
    <3>1. 1 \in 1..Len(admitted)
      BY <2>1, <2>3
    <3> QED
      BY <2>1, <3>1
  <2> QED
    BY <2>2, <2>3
<1>4. evicted = <<>> => E = {}
  BY DEF ToSet
<1> HIDE DEF E, A
<1>5. RowsIn(H) = RowsIn(L) + RowsIn(E)
  <2>1. RowsIn(L \cup E) = RowsIn(L) + RowsIn(E)
    BY <1>1, RowsOfTwo
  <2>2. L \cup E = H
    BY <1>1
  <2> QED
    BY <2>1, <2>2, Zenon
<1>6. L \cap A = {}
  BY DEF A
<1> HIDE DEF L
<1>7. RowsIn(after) = RowsIn(L) + RowsIn(A)
  BY <1>1, <1>6, RowsOfTwo
<1>8. RowsIn(L) \in Nat /\ RowsIn(A) \in Nat /\ RowsIn(E) \in Nat
  BY <1>1, Rows
<1>9. RowsIn(after) <= Capacity
  BY <1>2, <1>5, <1>7, <1>8
<1>10. IsFiniteSet(after)
  BY <1>1, FS_Union
<1>11. ASSUME NEW offer \in SUBSET Keys, A \subseteq offer
       PROVE  after \in PutOutcomes(H, pinned, offer, Capacity)
  <2>1. CASE A = {}
    <3>1. after = H
      BY <1>3, <1>4, <2>1 DEF L
    <3> HIDE DEF after
    <3> QED
      BY <3>1 DEF PutOutcomes
  <2>2. CASE A # {}
    <3>1. /\ after \in SUBSET (H \cup offer) /\ after \ H # {} /\ H \cap pinned \subseteq after
      BY <1>1, <1>11, <2>2 DEF L, E, A
    <3> HIDE DEF after
    <3> QED
      BY <1>9, <3>1 DEF PutOutcomes
  <2> QED
    BY <2>1, <2>2
<1> QED
  BY <1>9, <1>10, <1>11 DEF L, E, A

(* A put: its decision is sound, fits, and leaves the slab in order.       *)
LEMMA PutStep ==
  ASSUME SlotPolicyAssumption, FeatureSlabAssumption, SlabInv, NEW offer \in Offers, PutMany(offer)
  PROVE  /\ SlabInv'
         /\ Held' \in PutOutcomes(Held, SlabPinned, ToSet(Without(offer, Held)), Capacity)
         /\ UNCHANGED slabPins
<1> DEFINE fresh_ == Without(offer, Held)
           free == FreeRowCount
           d == Admit(policy, fresh_, free, SlabPinned)
           E == ToSet(d.evicted)
           A == ToSet(d.admitted)
           x == Vacated(d.evicted)
           y == FoldLeft(ClaimRows, x, d.admitted)
           now == IndexOf(rowsOf, releasedRows, nextUnusedRow)
<1>1. /\ RowsAreCounted /\ Capacity \in Nat /\ MaxHits \in Nat
  BY DEF SlotPolicyAssumption
<1>2. /\ EveryRowHasOnePlace /\ SlabTypes /\ RecordedOnce(policy) /\ IsFiniteSet(Held) /\ ~refusal
      /\ policy.kind # "fill" => RecordedIn(policy) = Held
      /\ Len(policy.offeredOnce) <= policy.remembered
      /\ ToSet(policy.offeredOnce) \cap Held = {}
  BY DEF SlabInv, PolicyAgreesWithSlab, EveryRowHasOnePlace
<1>3. /\ Held \in SUBSET Keys /\ policy \in SlotPolicy /\ nextUnusedRow \in 0..Capacity
      /\ content \in [AllRows -> (Keys \X Nat) \cup {None}] /\ slabPins \in [Keys -> Nat]
      /\ releasedRows \in Seq(AllRows)
  BY <1>2 DEF SlabTypes
<1>4. /\ fresh_ \in Seq(Keys) /\ IsInjective(fresh_) /\ ToSet(fresh_) = ToSet(offer) \ Held
      /\ ToSet(fresh_) \in SUBSET Keys
  <2>1. fresh_ \in Seq(Keys) /\ IsInjective(fresh_) /\ ToSet(fresh_) = ToSet(offer) \ Held
    BY OfferedKeys, WithoutKeys, WithoutDistinct
  <2> HIDE DEF fresh_
  <2> QED
    BY <2>1, KeysOf
<1>5. /\ policy' = d.policy
      /\ UNCHANGED slabPins
      /\ DecisionFits(d) =>
           /\ rowsOf' = y.rowsOf /\ releasedRows' = y.released /\ nextUnusedRow' = y.next
           /\ content' = Written(content, y, A) /\ refusal' = (refusal \/ FALSE)
  <2>0. CarryOut(d)
    BY DEF PutMany
  <2> HIDE DEF d
  <2>1. policy' = d.policy /\ UNCHANGED slabPins
    BY <2>0 DEF CarryOut
  <2>2. ASSUME DecisionFits(d)
        PROVE  /\ rowsOf' = y.rowsOf /\ releasedRows' = y.released /\ nextUnusedRow' = y.next
               /\ content' = Written(content, y, A)
    <3> DEFINE out == IF DecisionFits(d) THEN d.evicted ELSE <<>>
               in == IF DecisionFits(d) THEN d.admitted ELSE <<>>
               z == FoldLeft(ClaimRows, Vacated(out), in)
    <3>1. /\ rowsOf' = z.rowsOf /\ releasedRows' = z.released /\ nextUnusedRow' = z.next
          /\ content' = Written(content, z, ToSet(in))
      BY <2>0 DEF CarryOut, Written
    <3>2. out = d.evicted /\ in = d.admitted
      BY <2>2
    <3> HIDE DEF out, in
    <3>3. z = y /\ ToSet(in) = A
      BY <3>2, Zenon
    <3> HIDE DEF y, z, A
    <3> QED
      BY <3>1, <3>3
  <2>3. ASSUME DecisionFits(d)
        PROVE  refusal' = (refusal \/ FALSE)
    BY <2>0, <2>3 DEF CarryOut
  <2> QED
    BY <2>1, <2>2, <2>3
<1> HIDE DEF fresh_, d
<1>6. Tables(now, Held, content)
  <2>1. OnePlace(rowsOf, releasedRows, nextUnusedRow, content)
    BY <1>2, OnePlaceNow
  <2> QED
    BY <1>1, <1>2, <1>3, <2>1, TablesOfOnePlace DEF Held
<1>7. now.rowsOf = rowsOf /\ now.released = releasedRows /\ now.next = nextUnusedRow
  BY DEF IndexOf
<1> HIDE DEF now
<1>8. /\ IndexSound(now, Held)
      /\ \A k \in Held : \A i \in 1..RowsPerKey[k] : content[rowsOf[k][i]] = <<k, i>>
      /\ RowsIn(Held) + Len(releasedRows) = nextUnusedRow
  BY <1>6, <1>7 DEF Tables, IndexSound
<1>9. free \in Nat /\ RowsIn(Held) + free = Capacity
  <2>1. Len(releasedRows) \in Nat /\ nextUnusedRow \in Nat /\ nextUnusedRow <= Capacity
    BY <1>3
  <2>2. RowsIn(Held) \in Nat
    BY <1>1, <1>2, <1>3, Rows
  <2> QED
    BY <1>1, <1>8, <2>1, <2>2 DEF FreeRowCount
<1> HIDE DEF free
<1>10. SoundDecision(d, policy, fresh_, free, SlabPinned) /\ MemorySound(d, policy, fresh_)
  <2>1. AdmitAssumption(policy, fresh_, free)
    BY <1>2, <1>3, <1>4, <1>9 DEF AdmitAssumption
  <2> QED
    BY <1>2, <2>1, Admits DEF d
<1>11. /\ d.policy \in SlotPolicy /\ RecordedOnce(d.policy)
       /\ d.policy.kind = policy.kind /\ d.policy.remembered = policy.remembered
       /\ d.admitted \in Seq(Keys) /\ IsInjective(d.admitted) /\ A \subseteq ToSet(fresh_)
       /\ d.evicted \in Seq(Keys) /\ IsInjective(d.evicted)
       /\ E \subseteq Held \ SlabPinned
       /\ RowsOf(d.admitted) <= free + RowsOf(d.evicted)
       /\ d.admitted = <<>> => d.evicted = <<>>
       /\ policy.kind # "fill" => RecordedIn(d.policy) = (Held \ E) \cup A
  BY <1>2, <1>10 DEF SoundDecision, PartOf
<1>12. DecisionFits(d)
  BY <1>11 DEF DecisionFits, free
<1>13. /\ rowsOf' = y.rowsOf /\ releasedRows' = y.released /\ nextUnusedRow' = y.next
       /\ content' = Written(content, y, A) /\ refusal' = refusal
  <2>1. refusal = FALSE
    BY <1>2 DEF SlabTypes
  <2> HIDE DEF y, A
  <2> QED
    BY <1>5, <1>12, <2>1
<1> DEFINE after == (Held \ E) \cup A
<1>14. /\ RowsIn(after) <= Capacity /\ IsFiniteSet(after)
       /\ after \in PutOutcomes(Held, SlabPinned, ToSet(fresh_), Capacity)
  <2>1. ToSet(d.admitted) \cap Held = {}
    BY <1>4, <1>11
  <2>2. RowsIn(Held) + free <= Capacity
    BY <1>1, <1>9
  <2> QED
    BY <1>1, <1>2, <1>3, <1>4, <1>9, <1>11, <2>1, <2>2, HeldAfter
<1>15. /\ IndexSound(x, Held \ E) /\ \A k \in Held \ E : x.rowsOf[k] = rowsOf[k]
       /\ x.next = nextUnusedRow
  <2>1. /\ x.rowsOf = Restrict(rowsOf, Held \ ToSet(d.evicted))
        /\ x.released = Followed(releasedRows, [i \in DOMAIN d.evicted |-> rowsOf[d.evicted[i]]])
        /\ x.next = nextUnusedRow
    BY DEF Vacated
  <2> HIDE DEF x
  <2>2. VacatedFrom(x, now, Held, d.evicted)
    BY <1>7, <2>1 DEF VacatedFrom
  <2>3. ToSet(d.evicted) \subseteq Held
    BY <1>11
  <2>4. /\ IndexSound(x, Held \ ToSet(d.evicted))
        /\ \A k \in Held \ ToSet(d.evicted) : x.rowsOf[k] = now.rowsOf[k]
    <3> DEFINE gone == d.evicted
    <3>1. /\ RowsAreCounted /\ IndexSound(now, Held) /\ gone \in Seq(Keys)
          /\ IsInjective(gone) /\ ToSet(gone) \subseteq Held /\ VacatedFrom(x, now, Held, gone)
      BY <1>1, <1>8, <1>11, <2>2, <2>3
    <3> HIDE DEF gone
    <3>2. IndexSound(x, Held \ ToSet(gone))
      BY ONLY <3>1, VacatedIsSound
    <3>3. \A k \in Held \ ToSet(gone) : x.rowsOf[k] = now.rowsOf[k]
      BY <1>7, <2>1 DEF Restrict, gone
    <3> QED
      BY <3>2, <3>3 DEF gone
  <2> QED
    BY <1>7, <2>1, <2>4
<1>16. x \in SlabIndex
  <2>1. /\ x.rowsOf = [k \in Held \ E |-> x.rowsOf[k]]
        /\ x = [rowsOf |-> x.rowsOf, released |-> x.released, next |-> x.next]
    BY DEF Vacated, Restrict
  <2> HIDE DEF x
  <2> QED
    BY <1>15, <2>1, SoundIndexType
<1> HIDE DEF x
<1>17. /\ y \in SlabIndex /\ IndexSound(y, after) /\ y.next <= Capacity
       /\ \A k \in Held \ E : y.rowsOf[k] = x.rowsOf[k]
  <2>1. ToSet(d.admitted) \cap (Held \ E) = {}
    BY <1>4, <1>11
  <2>2. x.next <= Capacity
    BY <1>3, <1>15
  <2> QED
    <3> DEFINE D == Held \ E
               done == FoldLeft(ClaimRows, x, d.admitted)
    <3>1. /\ RowsAreCounted /\ Capacity \in Nat /\ x \in SlabIndex
          /\ d.admitted \in Seq(Keys) /\ IsInjective(d.admitted)
      BY <1>1, <1>11, <1>16
    <3>2. /\ IndexSound(x, D) /\ ToSet(d.admitted) \cap D = {}
          /\ RowsIn(D \cup ToSet(d.admitted)) <= Capacity
      BY <1>14, <1>15, <2>1
    <3> HIDE DEF D, E, d
    <3>3. /\ done \in SlabIndex /\ IndexSound(done, D \cup ToSet(d.admitted))
          /\ done.next <= Capacity /\ KeepsRows(x, done, D)
      <4>1. PICK admitted : admitted = d.admitted
        OBVIOUS
      <4>2. PICK c : c = Capacity
        OBVIOUS
      <4>0. PICK h : ClaimsOf(h, x, admitted)
        BY <3>1, <4>1, ClaimSteps
      <4>3. PICK z : z = h[Len(admitted)]
        OBVIOUS
      <4>4. /\ z \in SlabIndex /\ IndexSound(z, D \cup ToSet(admitted))
            /\ z.next <= c /\ KeepsRows(x, z, D)
        <5>1. ClaimAssumption(x, D, admitted, c)
          BY ONLY <2>2, <3>1, <3>2, <4>1, <4>2 DEF ClaimAssumption
        <5> QED
          BY ONLY <5>1, <4>0, <4>3, ClaimedIsSound
      <4>5. z = done
        BY <4>0, <4>1, <4>3 DEF ClaimsOf
      <4> QED
        BY ONLY <4>1, <4>2, <4>4, <4>5
    <3> QED
      BY <3>3 DEF D, KeepsRows
<1> HIDE DEF y
<1>18. /\ content' \in [AllRows -> (Keys \X Nat) \cup {None}]
       /\ Tables(y, after, content')
  <2>1. (Held \ E) \cap A = {}
    BY <1>4, <1>11
  <2>2. \A k \in Held \ E : \A i \in 1..RowsPerKey[k] : content[x.rowsOf[k][i]] = <<k, i>>
    BY <1>8, <1>15
  <2>3. IndexSound(y, (Held \ E) \cup A)
    BY <1>17
  <2> HIDE DEF E, A, after
  <2>4. /\ Written(content, y, A) \in [AllRows -> (Keys \X Nat) \cup {None}]
        /\ Tables(y, (Held \ E) \cup A, Written(content, y, A))
    BY <1>1, <1>3, <1>17, <2>1, <2>2, <2>3, WrittenRows
  <2> QED
    BY <1>13, <2>4 DEF after
<1>19. Held' = after
  BY <1>13, <1>17 DEF Held, IndexSound
<1> HIDE DEF after, E, A
<1>20. OnePlace(rowsOf', releasedRows', nextUnusedRow', content')
  BY <1>1, <1>13, <1>18, OnePlaceOfTables
<1>21. SlabTypes'
  <2>1. /\ Held' \subseteq Keys
    BY <1>17, <1>19 DEF IndexSound
  <2>2. /\ \A k \in Held' : rowsOf'[k] \in Seq(AllRows)
        /\ releasedRows' \in Seq(AllRows) /\ nextUnusedRow' \in 0..Capacity
    BY <1>20 DEF OnePlace, Held
  <2>3. slabPins' \in [Keys -> Nat] /\ policy' \in SlotPolicy /\ refusal' \in BOOLEAN
    BY <1>2, <1>3, <1>5, <1>11, <1>13 DEF SlabTypes
  <2> QED
    BY <1>18, <2>1, <2>2, <2>3 DEF SlabTypes
<1>22. EveryRowHasOnePlace'
  BY <1>20, <1>21, OnePlaceNext
<1>23. /\ RecordedOnce(policy') /\ ~refusal'
       /\ policy'.kind # "fill" => RecordedIn(policy') = Held'
  BY <1>2, <1>5, <1>11, <1>13, <1>19 DEF after
<1>24. /\ Len(policy'.offeredOnce) <= policy'.remembered
       /\ ToSet(policy'.offeredOnce) \cap Held' = {}
  <2>1. /\ Len(policy'.offeredOnce) <= policy'.remembered
        /\ ToSet(policy'.offeredOnce) \subseteq ToSet(policy.offeredOnce) \cup ToSet(fresh_)
        /\ ToSet(policy'.offeredOnce) \cap A = {}
    BY <1>5, <1>10 DEF MemorySound, A
  <2> QED
    BY <1>2, <1>4, <1>19, <2>1 DEF after
<1>25. SlabInv'
  BY <1>14, <1>19, <1>22, <1>23, <1>24 DEF SlabInv, PolicyAgreesWithSlab
<1> QED
  BY <1>5, <1>14, <1>19, <1>25 DEF fresh_

-----------------------------------------------------------------------------
(* What is proved of the slab.                                             *)

(* every step keeps the slab in order                                      *)
LEMMA SlabStep ==
  ASSUME SlotPolicyAssumption, FeatureSlabAssumption, SlabInv, [SlabNext]_slabVars
  PROVE  SlabInv'
<1>1. CASE UNCHANGED slabVars
  <2>1. /\ UNCHANGED <<rowsOf, releasedRows, nextUnusedRow, content, policy, refusal>>
        /\ UNCHANGED slabPins
    BY <1>1 DEF slabVars
  <2>2. slabPins' \in [Keys -> Nat]
    BY <2>1 DEF SlabInv, PolicyAgreesWithSlab, EveryRowHasOnePlace, SlabTypes
  <2> QED
    BY <2>1, <2>2, PinsStep
<1>2. ASSUME NEW offer \in Offers, Lookup(offer)
      PROVE  SlabInv'
  BY <1>2, LookupStep
<1>3. ASSUME NEW offer \in Offers, PutMany(offer)
      PROVE  SlabInv'
  BY <1>3, PutStep
<1>4. ASSUME NEW offer \in Offers, SlabPin(ToSet(offer)) \/ SlabUnpin(ToSet(offer))
      PROVE  SlabInv'
  BY <1>4, OfferedKeys, PinStep
<1> QED
  BY <1>1, <1>2, <1>3, <1>4 DEF SlabNext

(* In every state of the slab's specification its tables and its policy    *)
(* are in order.                                                           *)
LEMMA SlabInvHolds ==
  ASSUME SlotPolicyAssumption, FeatureSlabAssumption
  PROVE  SlabSpec => []SlabInv
<1>1. SlabInit => SlabInv
  BY SlabInitInv
<1>2. SlabInv /\ [SlabNext]_slabVars => SlabInv'
  BY SlabStep
<1> QED
  BY <1>1, <1>2, PTL DEF SlabSpec

(* Whatever is looked up, offered and pinned, in any order, under every    *)
(* slot policy and with or without an admission filter: the rows of the    *)
(* tensor are each in one place and hold what was put for their key, the   *)
(* policy's record is of the keys the slab holds, and its decision is      *)
(* never one the slab refuses with its fatal RuntimeError                  *)
(* (TensorFeatureSlab.put_many and _require_decision_fits).                *)
THEOREM SlabAgreesWithPolicy ==
  ASSUME SlotPolicyAssumption, FeatureSlabAssumption
  PROVE  SlabSpec => []PolicyAgreesWithSlab
<1>1. SlabInv => PolicyAgreesWithSlab
  BY DEF SlabInv
<1> QED
  BY <1>1, SlabInvHolds, PTL

(* The tier's copy of the contract says what the slab's does.              *)
LEMMA TierRows ==
  ASSUME NEW S
  PROVE  Tier!RowsIn(S) = RowsIn(S)
  BY DEF Tier!RowsIn, RowsIn, Tier!MapThenSumSet, MapThenSumSet, Tier!MapThenFoldSet,
         MapThenFoldSet, Tier!FoldSet, FoldSet

(* so a put has the same outcomes in both                                  *)
LEMMA TierPuts ==
  ASSUME NEW S, NEW pinned, NEW offer, NEW c
  PROVE  Tier!PutOutcomes(S, pinned, offer, c) = PutOutcomes(S, pinned, offer, c)
  BY TierRows DEF Tier!PutOutcomes, PutOutcomes

(* an empty slab is an empty tier                                          *)
LEMMA SlabInitIsATiers ==
  ASSUME SlabInit
  PROVE  Tier!Init
  BY DEF SlabInit, Tier!Init, Held

(* every step of the slab is a tier's, or none                             *)
LEMMA SlabStepIsATiers ==
  ASSUME SlotPolicyAssumption, FeatureSlabAssumption, SlabInv, [SlabNext]_slabVars
  PROVE  [Tier!Next]_Tier!vars
<1>1. CASE UNCHANGED slabVars
  BY <1>1 DEF slabVars, Tier!vars, Held
<1>2. ASSUME NEW offer \in Offers, Lookup(offer)
      PROVE  UNCHANGED Tier!vars
  <2>1. UNCHANGED <<rowsOf, slabPins>>
    BY <1>2 DEF Lookup
  <2> QED
    BY <2>1 DEF Tier!vars, Held
<1>3. ASSUME NEW offer \in Offers, PutMany(offer)
      PROVE  Tier!Next
  <2> DEFINE fresh_ == ToSet(Without(offer, Held))
  <2>1. /\ Held' \in PutOutcomes(Held, SlabPinned, fresh_, Capacity)
        /\ UNCHANGED slabPins
    BY <1>3, PutStep
  <2>2. Tier!Pinned = SlabPinned
    BY DEF Tier!Pinned, SlabPinned
  <2>3. fresh_ \in SUBSET Keys
    BY OfferedKeys, WithoutKeys
  <2> HIDE DEF fresh_
  <2>4. Held' \in Tier!PutOutcomes(Held, Tier!Pinned, fresh_, Capacity)
    BY <2>1, <2>2, TierPuts
  <2>5. Tier!PutMany(fresh_)
    BY <2>1, <2>4 DEF Tier!PutMany
  <2> QED
    BY <2>3, <2>5 DEF Tier!Next
<1>4. ASSUME NEW offer \in Offers, SlabPin(ToSet(offer)) \/ SlabUnpin(ToSet(offer))
      PROVE  Tier!Next
  <2> DEFINE keys == ToSet(offer)
  <2>1. keys \in SUBSET Keys
    BY OfferedKeys
  <2> HIDE DEF keys
  <2>2. SlabPin(keys) \/ SlabUnpin(keys)
    BY <1>4 DEF keys
  <2>3. SlabPin(keys) => Tier!Pin(keys)
    BY DEF SlabPin, Tier!Pin, Held
  <2>4. SlabUnpin(keys) => Tier!Unpin(keys)
    BY DEF SlabUnpin, DropOnePin, Tier!Unpin, Held
  <2> QED
    BY <2>1, <2>2, <2>3, <2>4 DEF Tier!Next
<1> QED
  BY <1>1, <1>2, <1>3, <1>4 DEF SlabNext

(* Every behaviour of the slab and its policy is one of a memory tier as   *)
(* the cache expects it (the FeatureStore protocol): a put keeps any of    *)
(* the offered cards, within the capacity, and evicts no pinned card;      *)
(* pins are counted per card; a lookup changes nothing the cache can see.  *)
THEOREM SlabImplementsTier ==
  ASSUME SlotPolicyAssumption, FeatureSlabAssumption
  PROVE  SlabSpec => TierSpec
<1>1. SlabInit => Tier!Init
  BY SlabInitIsATiers
<1>2. SlabInv /\ [SlabNext]_slabVars => [Tier!Next]_Tier!vars
  BY SlabStepIsATiers
<1> QED
  BY <1>1, <1>2, SlabInvHolds, PTL DEF SlabSpec, TierSpec, Tier!Spec
=============================================================================

------------------------ MODULE FrozenFeatureCache ------------------------
(***************************************************************************)
(* The feature cache as its threads use it (src/encoder_model/             *)
(* feature_cache/frozen_feature_cache.py over tiered_feature_store.py):    *)
(* the trainer reads features, the prefetch worker reserves batches ahead, *)
(* either releases.  A call walks the chain of tiers, and each tier's      *)
(* operation holds only that tier's lock, so the calls of two threads      *)
(* interleave between tiers and around the encoding, which holds no lock.  *)
(***************************************************************************)
EXTENDS TierContract, Sequences

CONSTANTS
    Capacities,     \* rows of each tier, fastest first
    Disk,           \* whether the last tier is the disk's
    DurableMisses,  \* whether misses are kept on disk (durable_misses)
    Stamped,        \* texts that are never cacheable
    Batches,        \* the sets of texts a call may ask for
    Threads,
    Identities      \* bound: of reservations that exist at the same time

FeatureCacheAssumption ==
    /\ RowsAreCounted
    /\ Capacities \in Seq(Nat \ {0}) \ {<<>>}
    /\ Disk \in BOOLEAN /\ DurableMisses \in BOOLEAN
    /\ Stamped \subseteq Keys
    /\ Batches \subseteq (SUBSET Keys) \ {{}}
    /\ IsFiniteSet(Threads) /\ IsFiniteSet(Identities)

Tiers == DOMAIN Capacities

MemoryTiers == IF Disk THEN Tiers \ {Len(Capacities)} ELSE Tiers

VARIABLES
    held,         \* per tier, the keys it stores
    pins,         \* per tier, the pins of each key
    outstanding,  \* _outstanding: the reservations made and not released
    call,         \* what each thread is in the middle of
    unpinError    \* an unpin found a key without a pin (ValueError)

vars == <<held, pins, outstanding, call, unpinError>>

Reservation == [id : Identities, keys : SUBSET Keys]

Steps == {"idle", "pin", "lookup", "promote", "encode", "put", "finish",
          "unpin"}

(* tier is where the call is in the chain, target the tier a put goes to,  *)
(* missing the texts no tier has answered yet, found the hits to promote.  *)
Call == [step : Steps, kind : {"features", "reserve", "release"},
         keys : SUBSET Keys, tier : Tiers, target : Tiers,
         missing : SUBSET Keys, found : SUBSET Keys]

Idle == [step |-> "idle", kind |-> "features", keys |-> {}, tier |-> 1,
         target |-> 1, missing |-> {}, found |-> {}]

Begun(kind, step, keys) ==
    [Idle EXCEPT !.kind = kind, !.step = step, !.keys = keys, !.missing = keys]

Goes(th, next) == call' = [call EXCEPT ![th] = next]

Init ==
    /\ held = [t \in Tiers |-> {}]
    /\ pins = [t \in Tiers |-> [k \in Keys |-> 0]]
    /\ outstanding = {}
    /\ call = [th \in Threads |-> Idle]
    /\ unpinError = FALSE

Pinned(t) == {k \in Keys : pins[t][k] > 0}

(* put_many of one tier; the disk keeps durable rows and evicts nothing.   *)
Outcomes(t, offer, durable) ==
    IF t \in MemoryTiers
    THEN PutOutcomes(held[t], Pinned(t), offer, Capacities[t])
    ELSE PutOutcomes(held[t], Keys, IF durable THEN offer ELSE {}, Capacities[t])

-----------------------------------------------------------------------------
(* Calls begin.                                                            *)

Features(th, batch) ==
    /\ call[th].step = "idle"
    /\ Goes(th, Begun("features", "lookup", batch))
    /\ UNCHANGED <<held, pins, outstanding, unpinError>>

(* fault: the batch is warmed first and pinned when it is there            *)
PinLater == "lookup"

FirstStepOfReserve == "pin"

Reserving ==
    {th \in Threads : call[th].kind = "reserve" /\ call[th].step # "idle"}

(* Uncacheable texts are skipped; with none left there is nothing to do.   *)
Reserve(th, batch) ==
    /\ call[th].step = "idle"
    /\ batch \ Stamped # {}
    /\ Cardinality(outstanding) + Cardinality(Reserving) < Cardinality(Identities)
    /\ Goes(th, Begun("reserve", FirstStepOfReserve, batch \ Stamped))
    /\ UNCHANGED <<held, pins, outstanding, unpinError>>

Claimed(r) == outstanding \ {r}

(* Claimed before it is unpinned; a reservation not outstanding is refused *)
(* with ValueError, which changes nothing.                                 *)
Release(th, r) ==
    /\ call[th].step = "idle"
    /\ r \in outstanding
    /\ outstanding' = Claimed(r)
    /\ Goes(th, Begun("release", "unpin", r.keys))
    /\ UNCHANGED <<held, pins, unpinError>>

-----------------------------------------------------------------------------
(* Calls walk the chain.                                                   *)

Pin(th) ==
    LET c == call[th]
    IN  /\ c.step = "pin"
        /\ pins' = IF c.tier \in MemoryTiers
                   THEN [pins EXCEPT ![c.tier] = [k \in Keys |->
                           @[k] + (IF k \in c.keys THEN 1 ELSE 0)]]
                   ELSE pins
        /\ Goes(th, IF c.tier < Len(Capacities)
                    THEN [c EXCEPT !.tier = @ + 1]
                    ELSE [c EXCEPT !.step = "lookup", !.tier = 1])
        /\ UNCHANGED <<held, outstanding, unpinError>>

PastTier(c) ==
    IF c.missing = {} THEN [c EXCEPT !.step = "finish"]
    ELSE IF c.tier < Len(Capacities)
         THEN [c EXCEPT !.step = "lookup", !.tier = @ + 1, !.found = {}]
         ELSE [c EXCEPT !.step = "encode", !.found = {}]

LookUp(th) ==
    LET c == call[th]
        found == c.missing \cap held[c.tier]
        answered == [c EXCEPT !.missing = @ \ found]
    IN  /\ c.step = "lookup"
        /\ Goes(th, IF found # {} /\ c.tier > 1
                    THEN [answered EXCEPT !.step = "promote", !.found = found,
                                          !.target = 1]
                    ELSE PastTier(answered))
        /\ UNCHANGED <<held, pins, outstanding, unpinError>>

Promote(th) ==
    LET c == call[th]
    IN  /\ c.step = "promote"
        /\ \E after \in Outcomes(c.target, c.found, FALSE) :
             held' = [held EXCEPT ![c.target] = after]
        /\ Goes(th, IF c.target + 1 < c.tier
                    THEN [c EXCEPT !.target = @ + 1] ELSE PastTier(c))
        /\ UNCHANGED <<pins, outstanding, unpinError>>

Offered(c) == c.missing \ Stamped

(* encode_live on the misses, with no lock held; stamped rows go no        *)
(* further than the caller                                                 *)
Encode(th) ==
    LET c == call[th]
    IN  /\ c.step = "encode"
        /\ Goes(th, IF Offered(c) = {}
                    THEN [c EXCEPT !.step = "finish"]
                    ELSE [c EXCEPT !.step = "put", !.target = 1])
        /\ UNCHANGED <<held, pins, outstanding, unpinError>>

(* write-through: offered to every tier in turn                            *)
Put(th) ==
    LET c == call[th]
    IN  /\ c.step = "put"
        /\ \E after \in Outcomes(c.target, Offered(c), DurableMisses) :
             held' = [held EXCEPT ![c.target] = after]
        /\ Goes(th, IF c.target < Len(Capacities)
                    THEN [c EXCEPT !.target = @ + 1]
                    ELSE [c EXCEPT !.step = "finish"])
        /\ UNCHANGED <<pins, outstanding, unpinError>>

FinishFeatures(th) ==
    /\ call[th].step = "finish"
    /\ call[th].kind = "features"
    /\ Goes(th, Idle)
    /\ UNCHANGED <<held, pins, outstanding, unpinError>>

FinishReserve(th) ==
    /\ call[th].step = "finish"
    /\ call[th].kind = "reserve"
    /\ \E id \in Identities \ {r.id : r \in outstanding} :
         outstanding' = outstanding \cup {[id |-> id, keys |-> call[th].keys]}
    /\ Goes(th, Idle)
    /\ UNCHANGED <<held, pins, unpinError>>

(* Whatever encode_live or the store raise: reserve unpins and re-raises.  *)
(* fault: the pins of a failed reserve stay                                *)
ForgetAbout(c) == Idle

Undo(c) ==
    IF c.kind = "reserve" THEN [Idle EXCEPT !.step = "unpin", !.keys = c.keys,
                                            !.kind = "reserve"]
    ELSE Idle

Raise(th) ==
    /\ call[th].step \in {"lookup", "promote", "encode", "put"}
    /\ Goes(th, Undo(call[th]))
    /\ UNCHANGED <<held, pins, outstanding, unpinError>>

Unpin(th) ==
    LET c == call[th]
        refused == c.tier \in MemoryTiers /\ ~(c.keys \subseteq Pinned(c.tier))
    IN  /\ c.step = "unpin"
        /\ pins' = IF c.tier \in MemoryTiers /\ ~refused
                   THEN [pins EXCEPT ![c.tier] = [k \in Keys |->
                           @[k] - (IF k \in c.keys THEN 1 ELSE 0)]]
                   ELSE pins
        /\ unpinError' = (unpinError \/ refused)
        /\ Goes(th, IF c.tier < Len(Capacities) /\ ~refused
                    THEN [c EXCEPT !.tier = @ + 1] ELSE Idle)
        /\ UNCHANGED <<held, outstanding>>

Next ==
    \E th \in Threads :
        \/ \E batch \in Batches : Features(th, batch) \/ Reserve(th, batch)
        \/ \E r \in outstanding : Release(th, r)
        \/ Pin(th) \/ LookUp(th) \/ Promote(th) \/ Encode(th) \/ Put(th)
        \/ FinishFeatures(th) \/ FinishReserve(th) \/ Raise(th) \/ Unpin(th)

Spec == Init /\ [][Next]_vars

-----------------------------------------------------------------------------
(* Properties.                                                             *)

(* The tiers, the reservations and the calls under way are well-formed     *)
(* (FrozenFeatureCache and its threads).                                   *)
TypeOK ==
    /\ held \in [Tiers -> SUBSET Keys]
    /\ pins \in [Tiers -> [Keys -> Nat]]
    /\ outstanding \in SUBSET Reservation
    /\ call \in [Threads -> Call]
    /\ unpinError \in BOOLEAN

(* call c has a pin of its own on k in tier t right now                    *)
CallPins(c, t, k) ==
    /\ k \in c.keys
    /\ \/ c.step = "pin" /\ t < c.tier
       \/ /\ c.kind = "reserve"
          /\ c.step \in {"lookup", "promote", "encode", "put", "finish"}
       \/ c.step = "unpin" /\ t >= c.tier

PinningCalls(t, k) == {th \in Threads : CallPins(call[th], t, k)}

ReservationsOf(k) == {r \in outstanding : k \in r.keys}

(* In every memory tier a key has exactly one pin for each outstanding     *)
(* reservation of it and for each call that is setting one up or taking    *)
(* one down, whichever tier the call has got to: no pin leaks when a       *)
(* reserve fails half way, and none is taken twice, so no tier ever has to *)
(* refuse an unpin.                                                        *)
PinsMatchReservations ==
    /\ TypeOK
    /\ ~unpinError
    /\ \A t \in MemoryTiers : \A k \in Keys :
         pins[t][k] = Cardinality(ReservationsOf(k))
                        + Cardinality(PinningCalls(t, k))

(* What makes it inductive: only a reserve pins, and there are finitely    *)
(* many reservations to count.                                             *)
CacheInv ==
    /\ PinsMatchReservations
    /\ IsFiniteSet(outstanding)
    /\ \A th \in Threads : call[th].step = "pin" => call[th].kind = "reserve"

(* Until its release no tier evicts a reserved card: what an outstanding   *)
(* reservation's cards found warm, they still find.                        *)
ReservedStaysWarm ==
    [][\A r \in outstanding \cap outstanding' : \A t \in Tiers :
         r.keys \cap held[t] \subseteq held'[t]]_vars
=============================================================================

---------------------------- MODULE FeatureTier ----------------------------
(***************************************************************************)
(* What one memory tier promises the feature cache (the FeatureStore and   *)
(* SlotPolicy protocols, src/encoder_model/feature_cache/feature_store.py  *)
(* and slot_policy.py): pins are counted per key, held or not; what is     *)
(* held fits the capacity; no pinned key is evicted.                       *)
(***************************************************************************)
EXTENDS TierContract

CONSTANT Capacity  \* rows of the tier

VARIABLES
    held,  \* the keys whose rows the tier stores
    pins   \* pins per key

vars == <<held, pins>>

Pinned == {k \in Keys : pins[k] > 0}

Init == held = {} /\ pins = [k \in Keys |-> 0]

PutMany(offer) ==
    /\ UNCHANGED pins
    /\ held' \in PutOutcomes(held, Pinned, offer, Capacity)

Pin(keys) ==
    /\ pins' = [k \in Keys |-> pins[k] + (IF k \in keys THEN 1 ELSE 0)]
    /\ UNCHANGED held

(* all or nothing                                                          *)
Unpin(keys) ==
    /\ \A k \in keys : pins[k] > 0
    /\ pins' = [k \in Keys |-> pins[k] - (IF k \in keys THEN 1 ELSE 0)]
    /\ UNCHANGED held

Next == \E keys \in SUBSET Keys : PutMany(keys) \/ Pin(keys) \/ Unpin(keys)

Spec == Init /\ [][Next]_vars
=============================================================================

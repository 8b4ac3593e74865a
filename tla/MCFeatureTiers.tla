--------------------------- MODULE MCFeatureTiers ---------------------------
(* The tiers of the feature cache, one in each behaviour.  In memory a slab  *)
(* of four rows and cards of one and two rows that do not all fit, under     *)
(* every policy, with and without an admission filter; on disk a row set of  *)
(* three rows and cards of one to three, offered in every order by the       *)
(* stores of two processes.  Over all of them the cache: two threads, a      *)
(* small and a larger memory tier over a disk tier that fills up,            *)
(* overlapping batches; one card is stamped.                                 *)
EXTENDS FrozenFeatureCache, SqliteFeatureStore, FeatureSlab

CONSTANTS
    k1, k2, k3, k4

MCOffers == {s \in BoundedSeq({k1, k2, k3}, 2) \ {<<>>} : IsInjective(s)}
MCPolicies == ({"fill", "fifo", "lru", "lfu"} \X {0}) \cup {<<"lru", 2>>, <<"fill", 1>>}

MCKeys == {k1, k2, k3, k4}
MCRows == k1 :> 1 @@ k2 :> 2 @@ k3 :> 2 @@ k4 :> 3
MCDiskOffers == {s \in BoundedSeq(MCKeys, 3) \ {<<>>} : IsInjective(s)}

MCCapacities == <<2, 3, 1>>
MCStamped == {k3}
MCBatches == {{k1, k2}, {k2, k3}}
MCSymmetry == Permutations(Identities)

VARIABLE tier  \* the tier this behaviour is about

ASSUME CacheAssumption == FeatureCacheAssumption

ASSUME SlabAssumption == SlotPolicyAssumption /\ FeatureSlabAssumption

ASSUME DiskAssumption == StoreAssumption

MCInit ==
    /\ SlabInit /\ StoreInit /\ Init
    /\ \/ tier = "memory"
       \/ tier \in {"disk", "cache"} /\ policy = NewPolicy("fill", 0)

MemoryNext == tier = "memory" /\ SlabNext /\ UNCHANGED <<tier, storeVars, vars>>
DiskNext == tier = "disk" /\ StoreNext /\ UNCHANGED <<tier, slabVars, vars>>
CacheNext == tier = "cache" /\ Next /\ UNCHANGED <<tier, slabVars, storeVars>>

MCNext == MemoryNext \/ DiskNext \/ CacheNext

MCSpec == MCInit /\ [][MCNext]_<<tier, vars, slabVars, storeVars>>
=============================================================================

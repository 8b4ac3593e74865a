--------------------------- MODULE TierContract ---------------------------
(***************************************************************************)
(* What the tiers of the feature cache have in common: the rows of a set   *)
(* of keys, and what a put may do to one of them, whatever its slot policy *)
(* (the SlotPolicy and FeatureStore protocols).                            *)
(***************************************************************************)
EXTENDS Integers, Sequences, FiniteSets, FiniteSetsExt, SequencesExt

CONSTANTS
    Keys,       \* card texts
    RowsPerKey  \* rows a key's feature takes

RowsAreCounted == RowsPerKey \in [Keys -> Nat \ {0}]

RowsIn(keys) == MapThenSumSet(LAMBDA k : RowsPerKey[k], keys)

RowsOf(keys) == RowsIn(ToSet(keys))

(* a list without some keys, in its order                                  *)
Without(seq, keys) ==
    FoldLeft(LAMBDA kept, k : IF k \in keys THEN kept ELSE Append(kept, k), <<>>, seq)

(* The tier keeps any of the offered keys it did not hold, and drops any   *)
(* unpinned ones for them, within its capacity.                            *)
PutOutcomes(stored, pinned, offer, capacity) ==
    {stored} \cup
    {after \in SUBSET (stored \cup offer) :
        /\ after \ stored # {}
        /\ stored \cap pinned \subseteq after
        /\ RowsIn(after) <= capacity}
=============================================================================

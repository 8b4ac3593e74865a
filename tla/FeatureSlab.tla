---------------------------- MODULE FeatureSlab ----------------------------
(***************************************************************************)
(* One memory tier of the feature cache (src/encoder_model/feature_cache/  *)
(* tensor_feature_slab.py): rows of one tensor, their index, the stack of  *)
(* freed rows, the pin counts, and the injected slot policy.  Every        *)
(* operation holds the slab's lock throughout, so each is one step.        *)
(***************************************************************************)
EXTENDS SlotPolicies

CONSTANTS
    Policies, \* the policies a tier may be given: <<kind, remembered>>
    Offers,   \* the key sequences a caller may pass (distinct keys)
    MaxPins,  \* bound: pins there may be together
    None      \* a row never written

FeatureSlabAssumption ==
    /\ Policies \subseteq Kinds \X Nat
    /\ \A offer \in Offers : offer \in Seq(Keys) /\ IsInjective(offer)
    /\ MaxPins \in Nat

VARIABLES
    rowsOf,         \* _rows_of: each held key's rows, in feature order
    releasedRows,   \* _released_rows[:_released_count], a stack
    nextUnusedRow,  \* _next_unused_row (rows count from 0)
    content,        \* the tensor: which row of which feature a row holds
    slabPins,       \* _pins, 0 for a key without one
    policy,         \* the slot policy's records
    refusal         \* the slab refused its policy's decision as malformed

slabVars ==
    <<rowsOf, releasedRows, nextUnusedRow, content, slabPins, policy, refusal>>

AllRows == 0..(Capacity - 1)

Held == DOMAIN rowsOf

SlabPinned == {k \in Keys : slabPins[k] > 0}

SlabInit ==
    /\ rowsOf = <<>>
    /\ releasedRows = <<>>
    /\ nextUnusedRow = 0
    /\ content = [r \in AllRows |-> None]
    /\ slabPins = [k \in Keys |-> 0]
    /\ \E p \in Policies : policy = NewPolicy(p[1], p[2])
    /\ refusal = FALSE

-----------------------------------------------------------------------------
(* Rows.  A put works on the index, the stack and the unused mark.         *)

FreeRowCount == Len(releasedRows) + Capacity - nextUnusedRow

(* the rows of evicted keys go back on the stack, key by key               *)
Vacated(evicted) ==
    [rowsOf |-> Restrict(rowsOf, Held \ ToSet(evicted)),
     released |-> Followed(releasedRows, [i \in DOMAIN evicted |-> rowsOf[evicted[i]]]),
     next |-> nextUnusedRow]

PoppedOff(index, n) == SubSeq(index.released, 1, Len(index.released) - n)

UnusedRows(index, n) == [i \in 1..n |-> index.next + i - 1]

(* released rows first, from the top of the stack, then never used ones    *)
ClaimRows(index, k) ==
    LET stack == index.released
        reused == Min({RowsPerKey[k], Len(stack)})
        fresh == RowsPerKey[k] - reused
        rows == SubSeq(stack, Len(stack) - reused + 1, Len(stack))
                  \o UnusedRows(index, fresh)
        keys == DOMAIN index.rowsOf \cup {k}
    IN  [rowsOf |-> [key \in keys |-> IF key = k THEN rows ELSE index.rowsOf[key]],
         released |-> PoppedOff(index, reused),
         next |-> index.next + fresh]

(* _require_decision_fits; admitted is a subsequence of the offer in every *)
(* policy by construction                                                  *)
DecisionFits(decision) ==
    /\ IsInjective(decision.evicted)
    /\ ToSet(decision.evicted) \subseteq Held \ SlabPinned
    /\ RowsOf(decision.admitted) <= FreeRowCount + RowsOf(decision.evicted)

-----------------------------------------------------------------------------
(* Operations.                                                             *)

(* lookup, of the keys it finds; the gather itself changes nothing         *)
Lookup(keys) ==
    LET hits == Among(keys, Held)
    IN  /\ hits # <<>>
        /\ policy.kind = "lfu" =>
             \A k \in ToSet(hits) : k \notin ToSet(policy.buckets[MaxHits])
        /\ policy' = RecordHits(policy, hits)
        /\ UNCHANGED <<rowsOf, releasedRows, nextUnusedRow, content, slabPins,
                       refusal>>

(* A malformed decision is refused (RuntimeError), after the policy has    *)
(* already recorded it.                                                    *)
CarryOut(decision) ==
    LET fits == DecisionFits(decision)
        evicted == IF fits THEN decision.evicted ELSE <<>>
        admitted == IF fits THEN decision.admitted ELSE <<>>
        writes == {w \in ToSet(admitted) \X (1..Capacity) : w[2] <= RowsPerKey[w[1]]}
    IN  /\ policy' = decision.policy
        /\ refusal' = (refusal \/ ~fits)
        /\ \E index \in {FoldLeft(ClaimRows, Vacated(evicted), admitted)} :
             /\ rowsOf' = index.rowsOf
             /\ releasedRows' = index.released
             /\ nextUnusedRow' = index.next
             /\ content' = [r \in AllRows |->
                  LET here == {w \in writes : index.rowsOf[w[1]][w[2]] = r}
                  IN  IF here = {} THEN content[r] ELSE CHOOSE w \in here : TRUE]
        /\ UNCHANGED slabPins

PutMany(offer) ==
    LET fresh == Without(offer, Held)
    IN  /\ fresh # <<>>
        /\ \E decision \in {Admit(policy, fresh, FreeRowCount, SlabPinned)} :
             CarryOut(decision)

SlabPin(keys) ==
    /\ SumFunction(slabPins) + Cardinality(keys) <= MaxPins
    /\ slabPins' = [k \in Keys |-> slabPins[k] + (IF k \in keys THEN 1 ELSE 0)]
    /\ UNCHANGED <<rowsOf, releasedRows, nextUnusedRow, content, policy,
                   refusal>>

(* fault: the first unpin of a key forgets all its pins                    *)
ForgetPins(keys) == [k \in Keys |-> IF k \in keys THEN 0 ELSE slabPins[k]]

DropOnePin(keys) == [k \in Keys |-> slabPins[k] - (IF k \in keys THEN 1 ELSE 0)]

(* all or nothing                                                          *)
SlabUnpin(keys) ==
    /\ \A k \in keys : slabPins[k] > 0
    /\ slabPins' = DropOnePin(keys)
    /\ UNCHANGED <<rowsOf, releasedRows, nextUnusedRow, content, policy,
                   refusal>>

SlabNext ==
    \E offer \in Offers :
        \/ Lookup(offer) \/ PutMany(offer)
        \/ SlabPin(ToSet(offer)) \/ SlabUnpin(ToSet(offer))

SlabSpec == SlabInit /\ [][SlabNext]_slabVars

-----------------------------------------------------------------------------
(* Properties.                                                             *)

(* The slab's tables are well-formed (TensorFeatureSlab's fields).           *)
SlabTypes ==
    /\ Held \subseteq Keys
    /\ \A k \in Held : rowsOf[k] \in Seq(AllRows)
    /\ releasedRows \in Seq(AllRows)
    /\ nextUnusedRow \in 0..Capacity
    /\ content \in [AllRows -> (Keys \X Nat) \cup {None}]
    /\ slabPins \in [Keys -> Nat]
    /\ policy \in SlotPolicy
    /\ refusal \in BOOLEAN

(* Every row of the slab is a held key's, or on the free stack, or never   *)
(* used, and in one place only: evictions and admissions of keys of        *)
(* different sizes neither lose a row nor give one to two keys.  So a hit  *)
(* gathers what was put for its key, in order, however often its rows      *)
(* changed hands.                                                          *)
EveryRowHasOnePlace ==
    LET taken == UNION {ToSet(rowsOf[k]) : k \in Held}
    IN  /\ SlabTypes
        /\ IsInjective(releasedRows)
        /\ taken \cap ToSet(releasedRows) = {}
        /\ taken \cup ToSet(releasedRows) = 0..(nextUnusedRow - 1)
        /\ RowsIn(Held) + Len(releasedRows) = nextUnusedRow
        /\ \A k \in Held :
             [i \in 1..RowsPerKey[k] |-> <<k, i>>]
               = [i \in DOMAIN rowsOf[k] |-> content[rowsOf[k][i]]]

(* A policy's record and the slab's index name the same keys, so that the  *)
(* policy's arithmetic is about the slab's rows, no row is lost, and the   *)
(* slab never has to refuse a decision (its RuntimeError, which is fatal). *)
(* What the admission filter remembers is bounded and never what the slab  *)
(* holds.                                                                  *)
PolicyAgreesWithSlab ==
    /\ EveryRowHasOnePlace
    /\ ~refusal
    /\ RecordedOnce(policy)
    /\ policy.kind # "fill" => RecordedIn(policy) = Held
    /\ Len(policy.offeredOnce) <= policy.remembered
    /\ ToSet(policy.offeredOnce) \cap Held = {}

Tier == INSTANCE FeatureTier WITH held <- Held, pins <- slabPins

(* The slab is a memory tier as the cache expects one: it never evicts a   *)
(* pinned key and never holds more rows than it has.                       *)
TierSpec == Tier!Spec
=============================================================================

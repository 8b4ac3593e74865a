--------------------------- MODULE SlotPolicies ---------------------------
(***************************************************************************)
(* The slot policies of the feature cache (src/encoder_model/              *)
(* feature_cache/slot_policy.py): which offered keys a memory tier admits  *)
(* and which held keys it evicts for them.  A policy object is a record    *)
(*                                                                         *)
(*   kind         "fill", "fifo", "lru" or "lfu"                           *)
(*   remembered   remembered_keys, 0 without a SecondOfferAdmission        *)
(*   buckets      the held keys, in eviction order within a bucket.  First *)
(*                in first out and least recently used keep them all in    *)
(*                bucket 0 (_order); least frequently used keeps one       *)
(*                bucket per hit count (_keys_by_hits).  FillUntilFull     *)
(*                records nothing.                                         *)
(*   offeredOnce  SecondOfferAdmission's memory, oldest first.             *)
(***************************************************************************)
EXTENDS TierContract

CONSTANTS
    Capacity,  \* capacity_rows of the store and of its policy
    MaxHits    \* bound: hits counted for one key

SlotPolicyAssumption ==
    /\ RowsAreCounted
    /\ Capacity \in Nat \ {0}
    /\ MaxHits \in Nat

Kinds == {"fill", "fifo", "lru", "lfu"}

SlotPolicy ==
    [kind : Kinds, remembered : Nat, buckets : [0..MaxHits -> Seq(Keys)],
     offeredOnce : Seq(Keys)]

NewPolicy(kind, remembered) ==
    [kind |-> kind, remembered |-> remembered,
     buckets |-> [h \in 0..MaxHits |-> <<>>], offeredOnce |-> <<>>]

RecordedIn(policy) == UNION {ToSet(policy.buckets[h]) : h \in 0..MaxHits}

(* no key is recorded twice, and only least frequently used counts hits    *)
RecordedOnce(policy) ==
    /\ \A h \in 0..MaxHits : IsInjective(policy.buckets[h])
    /\ \A g, h \in 0..MaxHits :
         g # h => ToSet(policy.buckets[g]) \cap ToSet(policy.buckets[h]) = {}
    /\ policy.kind # "lfu" => \A h \in 1..MaxHits : policy.buckets[h] = <<>>

(* a list with others behind it                                            *)
Followed(seq, seqs) == FoldLeft(LAMBDA all, s : all \o s, seq, seqs)

EvictionOrder(policy) ==
    Followed(<<>>, [i \in 1..(MaxHits + 1) |-> policy.buckets[i - 1]])

(* those of a list that are among some keys                                *)
Among(seq, keys) == Without(seq, Keys \ keys)

-----------------------------------------------------------------------------
(* Hits.                                                                   *)

HitCount(policy, k) ==
    CHOOSE h \in 0..MaxHits : k \in ToSet(policy.buckets[h])

MoveUpABucket(policy, k) ==
    LET h == HitCount(policy, k)
    IN  [policy EXCEPT !.buckets[h] = Without(@, {k}),
                       !.buckets[h + 1] = Append(@, k)]

MoveToNewestEnd(policy, k) ==
    [policy EXCEPT !.buckets[0] = Append(Without(@, {k}), k)]

RecordHit(policy, k) ==
    IF k \notin RecordedIn(policy) THEN policy
    ELSE CASE policy.kind = "lru" -> MoveToNewestEnd(policy, k)
           [] policy.kind = "lfu" -> MoveUpABucket(policy, k)
           [] OTHER -> policy

RecordHits(policy, keys) == FoldLeft(RecordHit, policy, keys)

-----------------------------------------------------------------------------
(* Admission.                                                              *)

(* how many leading offered keys fit in rows                               *)
FittingPrefix(offer, rows) ==
    Max({n \in 0..Len(offer) : RowsOf(SubSeq(offer, 1, n)) <= rows})

(* candidates no pin protects, in order, until their rows reach rows       *)
TakeVictims(candidates, rows, pinned) ==
    LET unpinned == Without(candidates, pinned)
    IN  SubSeq(unpinned, 1, Min({n \in 0..Len(unpinned) :
            n = Len(unpinned) \/ RowsOf(SubSeq(unpinned, 1, n)) >= rows}))

(* fault: a key evicted stays on the policy's record                       *)
Unforgotten(policy, evicted, admitted) ==
    [policy EXCEPT !.buckets[0] = @ \o admitted]

Recorded(policy, evicted, admitted) ==
    [policy EXCEPT !.buckets = [h \in 0..MaxHits |->
        Without(@[h], ToSet(evicted)) \o (IF h = 0 THEN admitted ELSE <<>>)]]

Decision(policy, evicted, admitted) ==
    [policy |-> policy, evicted |-> evicted, admitted |-> admitted]

FillUntilFullAdmit(policy, offer, freeRows) ==
    Decision(policy, <<>>,
             SubSeq(offer, 1, FittingPrefix(offer, freeRows)))

(* Room is the free rows and every recorded row no pin protects.           *)
EvictingAdmit(policy, offer, freeRows, pinned) ==
    LET held == RecordedIn(policy)
        wanted == SubSeq(offer, 1, FittingPrefix(offer, Capacity))
        room == freeRows + RowsIn(held) - RowsIn(held \cap pinned)
        admitted == SubSeq(wanted, 1, FittingPrefix(wanted, room))
        evicted == TakeVictims(EvictionOrder(policy),
                               Max({0, RowsOf(admitted) - freeRows}), pinned)
    IN  Decision(Recorded(policy, evicted, admitted), evicted, admitted)

InnerAdmit(policy, offer, freeRows, pinned) ==
    IF policy.kind = "fill" THEN FillUntilFullAdmit(policy, offer, freeRows)
                       ELSE EvictingAdmit(policy, offer, freeRows, pinned)

(* The newest first offers, size of them.                                  *)
RememberNewest(memory, firstOffers, size) ==
    LET all == memory \o firstOffers
    IN  SubSeq(all, Max({1, Len(all) - size + 1}), Len(all))

ForgetAdmitted(memory, admitted) == Without(memory, ToSet(admitted))

(* Only keys offered before reach the inner policy.                        *)
SecondOfferAdmit(policy, offer, freeRows, pinned) ==
    LET seen == ToSet(policy.offeredOnce)
        repeats == Among(offer, seen)
        remembering == [policy EXCEPT !.offeredOnce =
                          RememberNewest(@, Without(offer, seen), policy.remembered)]
        inner == InnerAdmit(remembering, repeats, freeRows, pinned)
    IN  IF repeats = <<>> THEN Decision(remembering, <<>>, <<>>)
        ELSE [inner EXCEPT !.policy.offeredOnce =
                             ForgetAdmitted(@, inner.admitted)]

Admit(policy, offer, freeRows, pinned) ==
    IF policy.remembered = 0 THEN InnerAdmit(policy, offer, freeRows, pinned)
    ELSE SecondOfferAdmit(policy, offer, freeRows, pinned)
=============================================================================

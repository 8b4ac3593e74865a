---------------------------- MODULE BatchFeed ----------------------------
(***************************************************************************)
(* What a training phase is promised by its batch feed                     *)
(* (src/training/diet/batch_feed.py), as the feed that builds nothing      *)
(* ahead keeps it: DirectBatchFeed.  One consumer, the trainer, opens a    *)
(* round with a schedule of dojo names, takes the scheduled steps in order *)
(* and ends the round.  The prefetching feed is shown to implement this    *)
(* module (PrefetchingBatchStreams!Feed).                                  *)
(***************************************************************************)
EXTENDS Naturals, Sequences

CONSTANTS
    Dojos,      \* the dojos of the phase's diet
    Schedules,  \* the RoundSchedules the trainer may draw
    Failing     \* which steps of a dojo's stream raise instead of yielding

VARIABLES
    roundOpen,  \* _pending is not None
    pending,    \* the round's unconsumed dojo names, next first
    delivered   \* what next_batch returned or raised, per dojo asked for

vars == <<roundOpen, pending, delivered>>

(* One position of a dojo's stream: its n-th batch, or the error that      *)
(* building it raised.  What a stream holds is fixed by its own RNG.       *)
StreamStep(d, n) ==
    [dojo |-> d, sequence |-> n, failed |-> <<d, n>> \in Failing]

(* The check every next_batch makes before it takes a step.                *)
IsNextStep(d) == roundOpen /\ pending # <<>> /\ Head(pending) = d

Init ==
    /\ roundOpen = FALSE
    /\ pending = <<>>
    /\ delivered = [d \in Dojos |-> <<>>]

BeginRound(schedule) ==
    /\ ~roundOpen
    /\ roundOpen' = TRUE
    /\ pending' = schedule
    /\ UNCHANGED delivered

(* Consumes the step, then asks the dojo's stream for its next position.   *)
NextBatch(d) ==
    /\ IsNextStep(d)
    /\ pending' = Tail(pending)
    /\ delivered' = [delivered EXCEPT
                       ![d] = Append(@, StreamStep(d, Len(@)))]
    /\ UNCHANGED roundOpen

Reschedule(remaining) ==
    /\ roundOpen
    /\ pending' = remaining
    /\ UNCHANGED <<roundOpen, delivered>>

(* Used up or not; a no-op when no round is open.                          *)
EndRound ==
    /\ roundOpen' = FALSE
    /\ pending' = <<>>
    /\ UNCHANGED delivered

Next ==
    \/ \E schedule \in Schedules : BeginRound(schedule) \/ Reschedule(schedule)
    \/ \E d \in Dojos : NextBatch(d)
    \/ EndRound

Spec == Init /\ [][Next]_vars
=============================================================================

------------------------------- MODULE Trainer -------------------------------
(***************************************************************************)
(* A training run (src/training/trainer.py): phases of rounds, a round of  *)
(* scheduled steps, its evaluation and its checkpoint; the fault ledger    *)
(* and the saturation tracker that decide what a phase still trains and    *)
(* when it ends, the fp16 loss scale a phase starts afresh, and the        *)
(* trainer's side of the batch feed: what it has told the feed of the      *)
(* round against what it is going to ask it for.                           *)
(*                                                                         *)
(* What a step does is free (Outcomes): it may train, meet a batch with no *)
(* usable baseline, raise, produce gradients that are not finite, or find  *)
(* its feed dead.  So is what an evaluation scores, and whether drawing a  *)
(* schedule or saving a checkpoint fails.  Every phase has the same diet.  *)
(***************************************************************************)
EXTENDS Integers, FiniteSets, Sequences, Functions

CONSTANTS
    Dojos,              \* the dojos of the phase's diet
    Epsilon,            \* SaturationSpec.epsilon
    Patience,           \* SaturationSpec.patience_rounds
    ReactivationDelta,  \* SaturationSpec.reactivation_delta
    TargetSaturated,    \* SaturationSpec.target_saturated_fraction, in percent
    NoLoss,             \* a loss not recorded yet
    MaxConsecutiveDojoFailures, \* FaultPolicy's three limits
    MaxTotalDojoFailures,
    MaxConsecutiveFailures,
    Settings,       \* the runs there may be, see SettingsAssumption
    GrowthInterval, \* finite steps after which the scale doubles
    NoReport        \* no round reported or saved

-----------------------------------------------------------------------------
(* The failures a phase has counted, as the record DojoFaultLedger keeps     *)
(* (src/training/diet/dojo_fault_ledger.py): per dojo in a row and in all,   *)
(* over every dojo in a row, and the dojos dropped for them.                 *)

FaultPolicyAssumption ==
    /\ MaxConsecutiveDojoFailures \in Nat \ {0}
    /\ MaxTotalDojoFailures \in Nat \ {0}
    /\ MaxConsecutiveFailures \in Nat \ {0}

FaultCounts ==
    [inARow : [Dojos -> Nat], total : [Dojos -> Nat], overall : Nat,
     quarantined : SUBSET Dojos]

NoFailures(dojos) ==
    [inARow      |-> [d \in dojos |-> 0],
     total       |-> [d \in dojos |-> 0],
     overall     |-> 0,
     quarantined |-> {}]

OverLimit(faults, d) ==
    \/ faults.inARow[d] >= MaxConsecutiveDojoFailures
    \/ faults.total[d] >= MaxTotalDojoFailures

\* record_failure of no dojo: drawing the schedule failed.
FailureOfNoDojo(faults) == [faults EXCEPT !.overall = @ + 1]

\* record_failure of a dojo's step.
FailureOf(faults, d) ==
    LET counted == [faults EXCEPT !.overall = @ + 1, !.inARow[d] = @ + 1,
                                  !.total[d] = @ + 1]
    IN  [counted EXCEPT !.quarantined =
            IF OverLimit(counted, d) THEN @ \cup {d} ELSE @]

\* record_success.
SuccessOf(faults, d) == [faults EXCEPT !.overall = 0, !.inARow[d] = 0]

GaveUp(faults) == faults.overall >= MaxConsecutiveFailures

-----------------------------------------------------------------------------
(* Which dojos of a phase still learn: the track SaturationTracker keeps of  *)
(* each (src/training/diet/saturation_tracker.py), fed with the round's      *)
(* normalized TEST losses, here small numbers in units of a step of the      *)
(* thresholds.                                                               *)

\* A phase has a dojo at least (Phase).
SaturationAssumption ==
    /\ IsFiniteSet(Dojos) /\ Dojos # {}
    /\ Epsilon \in Int /\ ReactivationDelta \in Int
    /\ Patience \in Nat \ {0}
    /\ TargetSaturated \in 0..100
    /\ NoLoss \notin Int

Track == [active : BOOLEAN, best : {NoLoss} \cup Int, stale : Nat,
          saturatedAt : {NoLoss} \cup Int]

NewTrack == [active |-> TRUE, best |-> NoLoss, stale |-> 0, saturatedAt |-> NoLoss]

Improves(track, loss) == track.best = NoLoss \/ loss < track.best - Epsilon

\* Mutant of Advanced: the best is a moving minimum.
AdvancedFromLowest(track, loss) ==
    LET lower == track.best = NoLoss \/ loss < track.best
    IN  IF Improves(track, loss)
        THEN [track EXCEPT !.best = loss, !.stale = 0]
        ELSE [track EXCEPT !.best = IF lower THEN loss ELSE @, !.stale = @ + 1,
                           !.active = track.stale + 1 < Patience, !.saturatedAt = loss]

\* _advance_active.
Advanced(track, loss) ==
    IF Improves(track, loss)
    THEN [track EXCEPT !.best = loss, !.stale = 0]
    ELSE IF track.stale + 1 < Patience
    THEN [track EXCEPT !.stale = @ + 1]
    ELSE [track EXCEPT !.stale = @ + 1, !.active = FALSE, !.saturatedAt = loss]

Regressed(track, loss) == loss > track.saturatedAt + ReactivationDelta

\* _consider_reactivation.
Reconsidered(track, loss) ==
    IF Regressed(track, loss)
    THEN [track EXCEPT !.active = TRUE, !.best = loss, !.stale = 0]
    ELSE track

\* record_round; losses holds the dojos whose evaluation succeeded.
Recorded(tracks, losses) ==
    [d \in Dojos |->
        IF d \notin DOMAIN losses THEN tracks[d]
        ELSE IF tracks[d].active THEN Advanced(tracks[d], losses[d])
        ELSE Reconsidered(tracks[d], losses[d])]

ActiveIn(tracks) == {d \in Dojos : tracks[d].active}

\* phase_done; a quarantined dojo counts as saturated.
PhaseDone(tracks, quarantined) ==
    100 * Cardinality(Dojos \ (ActiveIn(tracks) \ quarantined))
        >= TargetSaturated * Cardinality(Dojos)

-----------------------------------------------------------------------------
SettingsAssumption ==
    /\ GrowthInterval \in Nat \ {0}
    /\ \A s \in Settings :
         /\ s.phases \in Nat \ {0} /\ s.maxRounds \in Nat \ {0}
         /\ s.stepsPerRound \in Nat \ {0} /\ s.fullScale \in Nat
         /\ s.broken \subseteq Dojos
         /\ s.outcomes \subseteq {"ran", "noBaseline", "raised", "notFinite", "feedDead"}
         /\ s.mayFail \subseteq {"sampler", "save", "evaluation"}
         /\ \A d \in Dojos : s.losses[d] \subseteq Int
         /\ "evaluation" \notin s.mayFail => \A d \in Dojos : s.losses[d] # {}

VARIABLES
    setting,    \* the plan of this run, and what may happen in it
    doing,      \* "phase", "round", "step", "roundEnd" or "ended"
    phaseIndex, roundIndex,
    names,      \* the trainer's list of the round's steps, from the next one on
    active,     \* the active dojos the round's schedule was drawn from
    feedOpen, feedPending,  \* the batch feed: its round and its unused steps
    ledger, tracks,
    scale,      \* doublings left above the minimum loss scale
    finite,     \* steps since the scale changed: the scaler's growth tracker
    best,       \* the phase's best checkpoint: the losses of its round
    lastGood,   \* the best checkpoint of an earlier phase
    reason,     \* why the run stopped early
    reports,    \* history: the phase's reports, oldest first
    scores,     \* history: per dojo, its losses since it was last (re)activated
    tried,      \* history: attempts of a broken dojo's steps in the phase
    growths     \* history: times the scale grew in the phase

PhaseCount == setting.phases            \* how many phases the plan has
RoundLimit == setting.maxRounds         \* Phase.max_rounds
StepsPerRound == setting.stepsPerRound  \* Phase.steps_per_round

\* What a step may do, of {"ran", "noBaseline", "raised", "notFinite",
\* "feedDead"}, and the dojos whose gradients are never finite.
Outcomes == setting.outcomes
Broken == setting.broken

\* Drawing a schedule, saving a checkpoint or a dojo's evaluation may fail.
SamplerMayFail == "sampler" \in setting.mayFail
SaveMayFail == "save" \in setting.mayFail
MayMiss == "evaluation" \in setting.mayFail

\* Per dojo, the normalized losses an evaluation may score; a dojo without
\* losses is always missed.
Losses == setting.losses

\* Doublings of the fp16 loss scale above its minimum at a phase's start; 0
\* stands for a run without scaling.
FullScale == setting.fullScale

progress == <<doing, phaseIndex, roundIndex>>
plan == <<names, active>>
feed == <<feedOpen, feedPending>>
scaler == <<scale, finite>>
bests == <<best, lastGood>>
history == <<reports, scores, tried, growths>>
trainerVars ==
    <<setting, progress, plan, feed, ledger, tracks, scaler, bests, reason, history>>

\* _active_dojos.
StillTrained(trackOf, faults) == ActiveIn(trackOf) \ faults.quarantined

\* _open_phase: a ledger, tracker, scaler and feed of the phase's own.
FreshPhase ==
    /\ roundIndex' = 0
    /\ names' = <<>> /\ active' = {}
    /\ feedOpen' = FALSE /\ feedPending' = <<>>
    /\ ledger' = NoFailures(Dojos)
    /\ tracks' = [d \in Dojos |-> NewTrack]
    /\ scale' = FullScale /\ finite' = 0
    /\ best' = NoReport
    /\ reports' = <<>> /\ scores' = [d \in Dojos |-> <<>>]
    /\ tried' = [d \in Broken |-> 0] /\ growths' = 0

TrainerInit ==
    /\ setting \in Settings
    /\ doing = "phase" /\ phaseIndex = 0 /\ roundIndex = 0
    /\ names = <<>> /\ active = {}
    /\ feedOpen = FALSE /\ feedPending = <<>>
    /\ ledger = NoFailures(Dojos)
    /\ tracks = [d \in Dojos |-> NewTrack]
    /\ scale = FullScale /\ finite = 0
    /\ best = NoReport /\ lastGood = NoReport
    /\ reason = "none"
    /\ reports = <<>> /\ scores = [d \in Dojos |-> <<>>]
    /\ tried = [d \in Broken |-> 0] /\ growths = 0

\* run(): the next phase; an earlier phase's best stands until this one has one.
OpenPhase ==
    /\ doing = "phase" /\ phaseIndex < PhaseCount
    /\ doing' = "round" /\ phaseIndex' = phaseIndex + 1
    /\ FreshPhase
    /\ UNCHANGED <<setting, lastGood, reason>>

FinishRun ==
    /\ doing = "phase" /\ phaseIndex = PhaseCount
    /\ doing' = "ended"
    /\ UNCHANGED <<setting, phaseIndex, roundIndex, plan, feed, ledger, tracks, scaler,
                   bests, reason, history>>

\* The schedules a sampler may draw from the active dojos: one step at least.
Schedules(dojos, steps) == [1..steps -> dojos]

\* _train_round up to its first step: the whole round's schedule is drawn.
BeginRound ==
    LET diet == StillTrained(tracks, ledger) IN
    /\ doing = "round"
    /\ IF diet = {}
       THEN doing' = "roundEnd" /\ UNCHANGED <<plan, feed, ledger>>
       ELSE \/ /\ SamplerMayFail
               /\ doing' = "roundEnd" /\ ledger' = FailureOfNoDojo(ledger)
               /\ UNCHANGED <<plan, feed>>
            \/ \E schedule \in Schedules(diet, StepsPerRound) :
               /\ names' = schedule /\ active' = diet
               /\ feedOpen' = TRUE /\ feedPending' = schedule
               /\ doing' = "step"
               /\ UNCHANGED ledger
    /\ UNCHANGED <<setting, phaseIndex, roundIndex, tracks, scaler, bests, reason, history>>

\* Mutant of StepFails: gradients that are not finite fail no step.
StepRaises(outcome) == outcome = "raised"

\* A step that fails; without finite gradients it fails only where the loss
\* scale cannot back off any more (_scaled_step).
StepFails(outcome) == outcome = "raised" \/ (outcome = "notFinite" /\ scale = 0)

\* _attempt_step: what the ledger records of a step.
LedgerAfter(d, outcome) ==
    CASE StepFails(outcome)       -> FailureOf(ledger, d)
      [] outcome = "noBaseline"   -> ledger
      [] OTHER                    -> SuccessOf(ledger, d)

\* _scaled_step: the scale backs off, or doubles after enough finite steps.
ScaleAfter(outcome) ==
    /\ scale' = CASE outcome = "notFinite" /\ scale > 0 -> scale - 1
                  [] outcome = "ran" /\ FullScale > 0
                       /\ finite + 1 = GrowthInterval     -> scale + 1
                  [] OTHER                               -> scale
    /\ finite' = CASE outcome = "notFinite"              -> 0
                   [] outcome = "ran" /\ FullScale > 0    ->
                        (finite + 1) % GrowthInterval
                   [] OTHER                              -> finite
    /\ growths' = IF scale' > scale THEN growths + 1 ELSE growths

\* Mutant of FeedReschedule: only the trainer's own list is redrawn.
FeedKeepsSchedule(rest) == feedPending' = Tail(feedPending)

\* reschedule, after next_batch took the step.
FeedReschedule(rest) == feedPending' = rest

\* The rest of the round: as drawn, or redrawn after a change of the diet.
RestOfRound(faults) ==
    LET diet == StillTrained(tracks, faults)
        left == Len(names) - 1
    IN
    \/ /\ GaveUp(faults)
       /\ doing' = "roundEnd" /\ ledger' = faults /\ feedPending' = Tail(feedPending)
       /\ UNCHANGED plan
    \/ /\ ~GaveUp(faults) /\ diet = active
       /\ doing' = IF left = 0 THEN "roundEnd" ELSE "step"
       /\ names' = Tail(names)
       /\ ledger' = faults /\ feedPending' = Tail(feedPending)
       /\ UNCHANGED active
    \/ /\ ~GaveUp(faults) /\ diet # active
       /\ active' = diet
       /\ \/ /\ diet = {} \/ left = 0
             /\ doing' = "roundEnd" /\ ledger' = faults
             /\ feedPending' = Tail(feedPending)
             /\ UNCHANGED names
          \/ /\ diet # {} /\ left > 0 /\ SamplerMayFail
             /\ doing' = "roundEnd" /\ ledger' = FailureOfNoDojo(faults)
             /\ feedPending' = Tail(feedPending)
             /\ UNCHANGED names
          \/ \E rest \in Schedules(diet, left) :
             /\ diet # {} /\ left > 0
             /\ doing' = "step" /\ ledger' = faults
             /\ names' = rest /\ FeedReschedule(rest)

OutcomesOf(d) == IF d \in Broken THEN {"notFinite"} ELSE Outcomes \ {"feedDead"}

\* One attempt at the next scheduled step, and what it changes of the round.
AttemptStep ==
    /\ doing = "step"
    /\ \E outcome \in OutcomesOf(Head(names)) :
         /\ RestOfRound(LedgerAfter(Head(names), outcome))
         /\ ScaleAfter(outcome)
    /\ tried' = [d \in Broken |-> tried[d] + (IF d = Head(names) THEN 1 ELSE 0)]
    /\ UNCHANGED <<setting, phaseIndex, roundIndex, feedOpen, tracks, bests, reason, reports,
                   scores>>

\* A BatchFeedError is no step's failure: it ends the run.
FeedDies ==
    /\ doing = "step" /\ "feedDead" \in Outcomes
    /\ doing' = "ended" /\ reason' = "feed"
    /\ feedOpen' = FALSE /\ feedPending' = <<>>
    /\ lastGood' = IF best # NoReport THEN best ELSE lastGood
    /\ UNCHANGED <<setting, phaseIndex, roundIndex, plan, ledger, tracks, scaler, best, history>>

-----------------------------------------------------------------------------
(* The end of a round *)

Scored(report, dojos) == SumFunctionOnSet(report, dojos)

\* is_better_round: the mean over the dojos both reports scored.
IsBetter(candidate, incumbent) ==
    LET shared == DOMAIN candidate \cap DOMAIN incumbent
    IN  shared # {} /\ Scored(candidate, shared) < Scored(incumbent, shared)

\* _checkpoint_if_best: a first best needs a score.
Deserves(report) ==
    IF best = NoReport THEN DOMAIN report # {} ELSE IsBetter(report, best)

Reports ==
    {report \in UNION {[S -> UNION {Losses[d] : d \in S}] :
                       S \in IF MayMiss THEN SUBSET Dojos ELSE {Dojos}} :
        \A d \in DOMAIN report : report[d] \in Losses[d]}

\* What is left of a dojo's scores after a round: a reactivation starts anew.
ScoresAfter(d, report) ==
    IF d \notin DOMAIN report THEN scores[d]
    ELSE IF ~tracks[d].active /\ Recorded(tracks, report)[d].active
    THEN <<report[d]>>
    ELSE Append(scores[d], report[d])

EndPhase(why) ==
    /\ reason' = why
    /\ doing' = IF why = "none" THEN "phase" ELSE "ended"
    /\ lastGood' = IF best' # NoReport THEN best' ELSE lastGood

\* Too many failures in a row: the weights are neither judged nor saved.
GiveUp ==
    /\ doing = "roundEnd" /\ GaveUp(ledger)
    /\ feedOpen' = FALSE /\ feedPending' = <<>>
    /\ UNCHANGED best
    /\ EndPhase("failures")
    /\ UNCHANGED <<setting, phaseIndex, roundIndex, plan, ledger, tracks, scaler, history>>

\* end_round, the TEST pass, the tracker, the checkpoint, then the exits.
EvaluateRound ==
    /\ doing = "roundEnd" /\ ~GaveUp(ledger)
    /\ feedOpen' = FALSE /\ feedPending' = <<>>
    /\ \E report \in Reports :
         /\ tracks' = Recorded(tracks, report)
         /\ reports' = Append(reports, report)
         /\ scores' = [d \in Dojos |-> ScoresAfter(d, report)]
         /\ best' \in (IF Deserves(report) THEN {report} ELSE {best})
                      \cup (IF SaveMayFail THEN {best} ELSE {})
    /\ roundIndex' = roundIndex + 1
    /\ IF ledger.quarantined = Dojos THEN EndPhase("quarantined")
       ELSE IF PhaseDone(tracks', ledger.quarantined) \/ roundIndex + 1 = RoundLimit
       THEN EndPhase("none")
       ELSE doing' = "round" /\ UNCHANGED <<reason, lastGood>>
    /\ UNCHANGED <<setting, phaseIndex, plan, ledger, scaler, tried, growths>>

Ended == doing = "ended" /\ UNCHANGED trainerVars

TrainerNext ==
    \/ OpenPhase \/ FinishRun \/ BeginRound \/ AttemptStep \/ FeedDies
    \/ GiveUp \/ EvaluateRound \/ Ended

TrainerSpec == TrainerInit /\ [][TrainerNext]_trainerVars

-----------------------------------------------------------------------------
(* Properties *)

\* The steps of a round that are left.
StepLists == UNION {[1..n -> Dojos] : n \in 0..StepsPerRound}

\* The run's state is well-formed.
TrainerTypeOK ==
    /\ setting \in Settings
    /\ doing \in {"phase", "round", "step", "roundEnd", "ended"}
    /\ phaseIndex \in 0..PhaseCount /\ roundIndex \in 0..RoundLimit
    /\ names \in StepLists /\ feedPending \in StepLists
    /\ active \subseteq Dojos /\ feedOpen \in BOOLEAN
    /\ ledger \in FaultCounts /\ tracks \in [Dojos -> Track]
    /\ growths \in Nat /\ tried \in [Broken -> Nat]
    /\ scale \in 0..(FullScale + growths) /\ finite \in 0..(GrowthInterval - 1)
    /\ reason \in {"none", "failures", "quarantined", "feed"}
    /\ scores \in [Dojos -> Seq(Int)]
    /\ \A r \in {best, lastGood} \ {NoReport} : r \in Reports

\* The trainer and its feed agree on the rest of the round whenever a step is
\* about to be taken, and no round is open when one begins: no call of the
\* trainer is a schedule mismatch (_train_round's names, reschedule, end_round).
\* And no round begins with nothing to train: a phase whose dojos are saturated
\* or quarantined, all of them, has ended (phase_done).
FeedAgrees ==
    /\ TrainerTypeOK
    /\ doing = "step" => feedOpen /\ names # <<>> /\ feedPending = names
    /\ doing \in {"phase", "round", "ended"} => ~feedOpen
    /\ doing = "round" => \E d \in Dojos : d \notin ledger.quarantined /\ tracks[d].active

\* What makes it inductive: a round goes on while the phase has rounds, and its
\* steps are of the diet they were drawn from, which is the diet there is.
RoundInv ==
    /\ FeedAgrees
    /\ doing \in {"round", "step", "roundEnd"} => roundIndex < RoundLimit
    /\ doing = "step" => /\ active = StillTrained(tracks, ledger)
                         /\ \A i \in DOMAIN names : names[i] \in active

\* A dojo whose gradients are never finite does not train forever on skipped
\* overflows: it costs the scale's doublings, then only the failures that
\* quarantine it (_scaled_step holding the scale at its minimum).
BrokenDojoIsDropped == \A d \in Broken :
    tried[d] <= FullScale + growths
                + (IF growths = 0 THEN MaxConsecutiveDojoFailures
                   ELSE MaxTotalDojoFailures)

\* What makes it inductive: an attempt backed the scale off or failed, whoever
\* failed too often is dropped, and as long as the scale never grew the failures
\* came in a row once it was at its minimum.
DropInv ==
    /\ \A d \in Dojos : OverLimit(ledger, d) => d \in ledger.quarantined
    /\ \A d \in Broken :
        /\ tried[d] <= (FullScale + growths - scale) + ledger.total[d]
        /\ ledger.total[d] <= MaxTotalDojoFailures
        /\ growths = 0 =>
            /\ ledger.inARow[d] = ledger.total[d]
            /\ ledger.total[d] <= MaxConsecutiveDojoFailures
            /\ scale > 0 => ledger.total[d] = 0

\* Patience scores up to the i-th, none more than epsilon below every earlier
\* one; strictly: none below every earlier one at all.
Stagnant(s, i, epsilon) ==
    /\ i > Patience
    /\ \A j \in (i - Patience + 1)..i : \E k \in 1..(i - Patience) : s[j] >= s[k] - epsilon

\* A dojo saturates on stagnation and on nothing else: it is saturated only if
\* the scores since it became active hold a stagnant stretch that no later
\* score rose above by more than the delta, and it is active only if its last
\* scores are not one that even a zero epsilon would call stagnant
\* (_advance_active against the best at the last improvement,
\* _consider_reactivation against the loss it saturated at).
SaturationIsStagnation == \A d \in Dojos :
    LET s == scores[d] IN
    IF tracks[d].active THEN ~Stagnant(s, Len(s), 0)
    ELSE \E i \in DOMAIN s :
            /\ Stagnant(s, i, Epsilon)
            /\ \A j \in (i + 1)..Len(s) : s[j] <= s[i] + ReactivationDelta

\* What makes it inductive: while a dojo is active its best is the score of its
\* last improvement, which lies stale scores back and below all earlier ones, and
\* no score since is more than epsilon below it; once saturated its score then is
\* that of a stagnant stretch no later score rose above.
TrackInv == \A d \in Dojos :
    LET s == scores[d]
        i == Len(s) - tracks[d].stale
    IN  IF tracks[d].active
        THEN /\ tracks[d].stale < Patience
             /\ tracks[d].best = NoLoss => s = <<>> /\ tracks[d].stale = 0
             /\ tracks[d].best # NoLoss =>
                 /\ i \in DOMAIN s /\ s[i] = tracks[d].best
                 /\ \A j \in 1..(i - 1) : s[i] < s[j]
                 /\ \A j \in i..Len(s) : s[j] >= s[i] - Epsilon
        ELSE \E n \in DOMAIN s :
                /\ s[n] = tracks[d].saturatedAt
                /\ Stagnant(s, n, Epsilon)
                /\ \A j \in (n + 1)..Len(s) : s[j] <= s[n] + ReactivationDelta
=============================================================================
